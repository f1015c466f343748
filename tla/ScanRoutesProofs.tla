-------------------------- MODULE ScanRoutesProofs --------------------------
(***************************************************************************)
(* The scan routes use the limiter as RateLimiter specifies it: what is    *)
(* proved of the window holds for them, whatever scans and streams do.     *)
(* And they use the scan as ScanJob specifies it: once its row says done,  *)
(* nothing is left that could change what it shows, and the inventory has  *)
(* every host of the scan in it, once.                                     *)
(***************************************************************************)
EXTENDS ScanRoutes, RateLimiterProofs, FiniteSetTheorems

LEMMA StepIsOfTheLimiter == [RoutesNext]_routes => [LimiterNext]_limiter
<1> SUFFICES ASSUME [RoutesNext]_routes PROVE [LimiterNext]_limiter
  OBVIOUS
<1>1. CASE RequestCounted \/ RequestRefused \/ Waits
  BY <1>1 DEF RequestCounted, RequestRefused, Waits, LimiterNext
<1>2. ASSUME NEW manual \in SUBSET Hosts, NEW stored \in BOOLEAN,
             ScanRequested(manual, stored)
      PROVE  LimiterNext
  BY <1>2 DEF ScanRequested, LimiterNext
<1>3. CASE \/ RunStep /\ UNCHANGED <<limiter, streams>>
           \/ \E h \in Hosts : ProbeStep(h) /\ UNCHANGED <<limiter, streams>>
           \/ Evict /\ UNCHANGED <<limiter, streams>>
  BY <1>3
<1>4. CASE StreamOpens \/ StreamStep \/ StreamExpires \/ ClientLeaves
  <2>1. UNCHANGED limiter
    BY <1>4, Zenon DEF StreamOpens, StreamStep, StreamSends, StreamEnds,
       StreamSleeps, StreamExpires, ClientLeaves
  <2> QED
    BY <2>1
<1>5. CASE ServerRestarts
  BY <1>5 DEF ServerRestarts
<1>6. CASE UNCHANGED routes
  BY <1>6 DEF routes
<1> QED
  BY <1>1, <1>2, <1>3, <1>4, <1>5, <1>6 DEF RoutesNext

\* The routes implement the limiter: no request reaches a scan past it, and none
\* but a request changes what it keeps.
THEOREM RoutesUseTheLimiter == RoutesSpec => LimiterSpec
<1>1. RoutesInit => LimiterInit
  BY DEF RoutesInit
<1> QED
  BY <1>1, StepIsOfTheLimiter, PTL DEF RoutesSpec, LimiterSpec

\* In no window an address is admitted more often than the limit, nor refused
\* before it was, for every limit, window and set of hosts.
THEOREM RoutesRespectTheWindow == RoutesSpec => []WindowRespected
BY RoutesUseTheLimiter, WindowHolds, PTL
------------------------------------------------------------------------------
(* The scan behind the routes.                                             *)

LEMMA StepIsOfTheScan == [RoutesNext]_routes => [Next]_vars
<1> SUFFICES ASSUME [RoutesNext]_routes PROVE [Next]_vars
  OBVIOUS
<1>1. CASE UNCHANGED scan
  BY <1>1 DEF scan, vars, job, tasks
<1>2. CASE RequestCounted \/ RequestRefused \/ Waits \/ StreamOpens \/ StreamStep
           \/ StreamExpires \/ ClientLeaves \/ UNCHANGED routes
  <2>1. UNCHANGED scan
    BY <1>2, Zenon DEF RequestCounted, RequestRefused, Waits, StreamOpens, StreamStep,
       StreamSends, StreamEnds, StreamSleeps, StreamExpires, ClientLeaves, routes
  <2> QED
    BY <1>1, <2>1
<1>3. ASSUME NEW manual \in SUBSET Hosts, NEW stored \in BOOLEAN,
             ScanRequested(manual, stored)
      PROVE  Next
  BY <1>3 DEF ScanRequested, Next
<1>4. CASE \/ RunStep /\ UNCHANGED <<limiter, streams>>
           \/ \E h \in Hosts : ProbeStep(h) /\ UNCHANGED <<limiter, streams>>
           \/ Evict /\ UNCHANGED <<limiter, streams>>
           \/ ServerRestarts
  BY <1>4, Zenon DEF Next, ServerRestarts
<1> QED
  BY <1>2, <1>3, <1>4, Zenon DEF RoutesNext

\* What the routes, the rate limiter and the streams do to a scan is a behaviour of
\* ScanJob: no request and no stream changes it in any other way.
THEOREM RoutesUseTheScan == RoutesSpec => Init /\ [][Next]_vars
<1>1. RoutesInit => Init
  BY DEF RoutesInit
<1> QED
  BY <1>1, StepIsOfTheScan, PTL DEF RoutesSpec

\* A final state is one that _run has left behind, a row is never ahead of the job,
\* and a row that says done is the job, with no task of a host left to change it.
Settled ==
  /\ state \in Ended => run \in {"ended", "lost"}
  /\ row.state \in Ended => row.state = state
  /\ row.state = "done" =>
       /\ row = Snapshot(state, total, done, records)
       /\ \A h \in Hosts : probe[h] \in Idle

LEMMA SettledStep == Settled /\ [Next]_vars => Settled'
<1> SUFFICES ASSUME Settled, [Next]_vars PROVE Settled'
  OBVIOUS
<1> USE DEF Settled, Ended, Snapshot, NoRow
<1>1. ASSUME NEW manual \in SUBSET Hosts, NEW stored \in BOOLEAN, Create(manual, stored)
      PROVE  Settled'
  BY <1>1 DEF Create
<1>2. CASE RunStarts
  BY <1>2 DEF RunStarts
<1>3. ASSUME NEW names \in SUBSET Hosts, CtLogsAnswer(names) PROVE Settled'
  BY <1>3 DEF CtLogsAnswer, job
<1>4. ASSUME NEW names \in SUBSET Hosts, NEW chosen \in SUBSET Hosts,
             NEW stored \in BOOLEAN, ProbesStart(names, chosen, stored)
      PROVE  Settled'
  <2>1. run = "wordlist" /\ state' = "probing_tls"
    BY <1>4 DEF ProbesStart
  <2>2. row' = row \/ row'.state = "probing_tls"
    BY <1>4 DEF ProbesStart
  <2> QED
    BY <2>1, <2>2
<1>5. CASE DiscoveryRaises
  BY <1>5 DEF DiscoveryRaises, job
<1>6. ASSUME NEW stored \in BOOLEAN, RunFinishes(stored) PROVE Settled'
  BY <1>6 DEF RunFinishes, Ends
<1>7. ASSUME NEW stored \in BOOLEAN, RunFails(stored) \/ RunTimesOut(stored)
      PROVE  Settled'
  <2>1. run \notin {"ended", "lost"} /\ run' = "ended"
    BY <1>7 DEF RunFails, RunTimesOut, Ends
  <2>2. state' \in {"failed", "partial_timeout"}
    BY <1>7 DEF RunFails, RunTimesOut, Ends
  <2>3. row' = row \/ row'.state = state'
    BY <1>7 DEF RunFails, RunTimesOut, Ends
  <2> QED
    BY <2>1, <2>2, <2>3
<1>8. ASSUME NEW h \in Hosts, ProbeStep(h) PROVE Settled'
  <2>1. UNCHANGED <<state, run, row>>
    BY <1>8 DEF ProbeStep, ProbeStarts, HostResolved, HostReported, ProbeRaises, job
  <2>2. probe[h] \notin Idle
    BY <1>8 DEF ProbeStep, ProbeStarts, HostResolved, HostReported, ProbeRaises, Idle,
       AtWork
  <2> QED
    BY <2>1, <2>2
<1>9. CASE Evict
  BY <1>9 DEF Evict, job, tasks
<1>10. CASE Restart
  BY <1>10 DEF Restart, job, Idle
<1>11. CASE UNCHANGED vars
  BY <1>11 DEF vars, job, tasks
<1> QED
  BY <1>1, <1>2, <1>3, <1>4, <1>5, <1>6, <1>7, <1>8, <1>9, <1>10, <1>11
     DEF Next, RunStep

\* What a scan that was recorded as done shows is settled, whatever happens next.
LEMMA DoneStays == Settled /\ [Next]_vars => (row.state = "done" => View' = View)
<1> SUFFICES ASSUME Settled, [Next]_vars, row.state = "done" PROVE View' = View
  OBVIOUS
<1>1. /\ run \in {"ended", "lost"}
      /\ row = Snapshot(state, total, done, records)
      /\ \A h \in Hosts : probe[h] \in Idle
  BY DEF Settled, Ended
<1>2. CASE UNCHANGED vars
  BY <1>2 DEF vars, job, View, Snapshot
<1>3. CASE Evict \/ Restart
  <2>1. UNCHANGED <<state, total, done, records, row>>
    BY <1>3 DEF Evict, Restart, job
  <2> QED
    BY <1>1, <2>1 DEF View, Snapshot
<1>4. \A manual \in SUBSET Hosts, stored \in BOOLEAN : ~Create(manual, stored)
  BY <1>1 DEF Create
<1>5. ~RunStep
  BY <1>1 DEF RunStep, RunStarts, CtLogsAnswer, ProbesStart, DiscoveryRaises,
     RunFinishes, RunFails, RunTimesOut
<1>6. ~\E h \in Hosts : ProbeStep(h)
  BY <1>1 DEF ProbeStep, ProbeStarts, HostResolved, HostReported, ProbeRaises, Idle,
     AtWork
<1> QED
  BY <1>2, <1>3, <1>4, <1>5, <1>6 DEF Next

LEMMA RoutesSettle == RoutesSpec => []Settled
<1>1. RoutesInit => Settled
  BY DEF RoutesInit, Init, Settled, NoRow, Ended
<1> QED
  BY <1>1, SettledStep, StepIsOfTheScan, PTL DEF RoutesSpec

\* A scan recorded as done shows the same for ever: no task that is still running, no
\* eviction and no restart changes it, for every set of hosts and every bound.
THEOREM DoneIsFinal == RoutesSpec => ResultIsFinal
<1>1. Settled /\ [Next]_vars => [row.state = "done" => View' = View]_vars
  BY DoneStays
<1> QED
  BY <1>1, RoutesSettle, StepIsOfTheScan, PTL DEF RoutesSpec, ResultIsFinal

------------------------------------------------------------------------------
(* The stream.                                                             *)

\* What a stream has sent as final was final, and stays so.
SInv == StreamShowsResult /\ (shown.state \in Ended => state \in Ended)

\* Nobody writes the row after the job has ended.
LEMMA EndedStays ==
  Settled /\ [Next]_vars /\ state \in Ended => UNCHANGED <<state, row>>
<1> SUFFICES ASSUME Settled, [Next]_vars, state \in Ended
             PROVE  UNCHANGED <<state, row>>
  OBVIOUS
<1>1. run \in {"ended", "lost"}
  BY DEF Settled
<1>2. (\A manual \in SUBSET Hosts, stored \in BOOLEAN : ~Create(manual, stored)) /\ ~RunStep
  BY <1>1 DEF Create, RunStep, RunStarts, CtLogsAnswer, ProbesStart, DiscoveryRaises,
     RunFinishes, RunFails, RunTimesOut
<1>3. ASSUME NEW h \in Hosts, ProbeStep(h) PROVE UNCHANGED <<state, row>>
  BY <1>3 DEF ProbeStep, ProbeStarts, HostResolved, HostReported, ProbeRaises, job
<1>4. CASE Evict \/ Restart \/ UNCHANGED vars
  BY <1>4 DEF Evict, Restart, vars, job
<1> QED
  BY <1>2, <1>3, <1>4 DEF Next

LEMMA PolledIsFinal ==
  Settled /\ Polled.state \in Ended =>
    state \in Ended /\ (row.state = "done" => Polled = View)
<1> SUFFICES ASSUME Settled, Polled.state \in Ended
             PROVE  state \in Ended /\ (row.state = "done" => Polled = View)
  OBVIOUS
<1>1. CASE source = "memory"
  BY <1>1 DEF Polled, Settled, View, Snapshot
<1>2. CASE source # "memory"
  BY <1>2 DEF Polled, Settled, View
<1> QED
  BY <1>1, <1>2

LEMMA SInvStep == Settled /\ SInv /\ [RoutesNext]_routes => SInv'
<1> SUFFICES ASSUME Settled, SInv, [RoutesNext]_routes PROVE SInv'
  OBVIOUS
<1>1. /\ state \in Ended => UNCHANGED <<state, row>>
      /\ row.state = "done" => View' = View
  BY StepIsOfTheScan, EndedStays, DoneStays
<1>2. ASSUME shown' = shown, stream' = "ended" => stream = "ended" PROVE SInv'
  BY <1>1, <1>2 DEF SInv, StreamShowsResult, Ended
<1>3. CASE StreamOpens
  BY <1>3 DEF StreamOpens, SInv, StreamShowsResult, NoRow, Ended
<1>4. CASE StreamSends
  <2>1. UNCHANGED <<state, row, View>>
    BY <1>4 DEF StreamSends, scan, job, View
  <2>2. stream' = "sent" /\ shown' = IF Polled.state \in Ended THEN Polled ELSE NoRow
    BY <1>4 DEF StreamSends
  <2>3. CASE Polled.state \in Ended
    BY <2>1, <2>2, <2>3, PolledIsFinal DEF SInv, StreamShowsResult
  <2>4. CASE Polled.state \notin Ended
    BY <2>2, <2>4 DEF SInv, StreamShowsResult, NoRow, Ended
  <2> QED
    BY <2>3, <2>4
<1>5. CASE StreamEnds
  <2>1. UNCHANGED <<state, row, View, shown>> /\ Polled.state \in Ended
    BY <1>5 DEF StreamEnds, scan, job, View
  <2> QED
    BY <2>1, PolledIsFinal DEF SInv, StreamShowsResult
<1>6. CASE StreamSleeps \/ StreamExpires \/ ClientLeaves \/ ServerRestarts
  <2>1. shown' = shown /\ (stream' = "ended" => stream = "ended")
    BY <1>6 DEF StreamSleeps, StreamExpires, ClientLeaves, ServerRestarts
  <2> QED
    BY <1>2, <2>1
<1>7. ASSUME UNCHANGED streams PROVE SInv'
  BY <1>2, <1>7 DEF streams
<1> QED
  BY <1>3, <1>4, <1>5, <1>6, <1>7, Zenon
     DEF RoutesNext, StreamStep, RequestCounted, RequestRefused, Waits, ScanRequested,
     routes

\* What a stream has sent as the result of a scan is what every later request is
\* answered, whenever it was opened and whatever it was a copy of.
THEOREM StreamsShowTheResult == RoutesSpec => []StreamShowsResult
<1>1. RoutesInit => SInv
  BY DEF RoutesInit, SInv, StreamShowsResult, NoRow, Ended
<1>2. SInv => StreamShowsResult
  BY DEF SInv
<1> QED
  BY <1>1, <1>2, SInvStep, RoutesSettle, PTL DEF RoutesSpec

------------------------------------------------------------------------------
(* The inventory: a list of records is merged certificate by certificate.  *)

LEMMA Least ==
  ASSUME NEW T \in SUBSET Nat, T # {}
  PROVE  \E n \in T : \A m \in T : n <= m
<1>1. PICK n \in T : \A m \in T : <<m, n>> \notin OpToRel(<, Nat)
  BY NatLessThanWellFounded, WFMin, Zenon
<1>2. \A m \in T : ~(m < n)
  BY <1>1 DEF OpToRel
<1> QED
  BY <1>2

\* Every place of a finite set has a number of its own, and every number a place.
LEMMA NthPlace ==
  ASSUME NEW S \in SUBSET Nat, IsFiniteSet(S)
  PROVE  /\ Cardinality(S) \in Nat
         /\ \A n \in 1..Cardinality(S) : Nth(S, n) \in S
         /\ \A m, n \in 1..Cardinality(S) : Nth(S, m) = Nth(S, n) => m = n
         /\ \A k \in S : \E n \in 1..Cardinality(S) : Nth(S, n) = k
<1> DEFINE upTo(k) == {i \in S : i <= k}
           number == [k \in S |-> Cardinality(upTo(k))]
<1>1. Cardinality(S) \in Nat
  BY FS_CardinalityType
<1>2. ASSUME NEW k \in S
      PROVE  /\ IsFiniteSet(upTo(k)) /\ Cardinality(upTo(k)) \in Nat
             /\ Cardinality(upTo(k)) # 0 /\ Cardinality(upTo(k)) <= Cardinality(S)
  <2>1. upTo(k) \in SUBSET S /\ k \in upTo(k)
    OBVIOUS
  <2>2. IsFiniteSet(upTo(k)) /\ Cardinality(upTo(k)) <= Cardinality(S)
    BY <2>1, FS_Subset
  <2>3. Cardinality(upTo(k)) \in Nat /\ (Cardinality(upTo(k)) = 0 <=> upTo(k) = {})
    BY <2>2, FS_CardinalityType, FS_EmptySet
  <2> QED
    BY <2>1, <2>2, <2>3
<1>3. number \in [S -> 1..Cardinality(S)]
  BY <1>1, <1>2
<1>4. ASSUME NEW j \in S, NEW k \in S, number[j] = number[k] PROVE j = k
  <2>1. upTo(j) \in SUBSET upTo(k) \/ upTo(k) \in SUBSET upTo(j)
    <3>1. j \in Nat /\ k \in Nat /\ \A i \in S : i \in Nat
      OBVIOUS
    <3>2. CASE j <= k
      <4>1. \A i \in S : i <= j => i <= k
        BY <3>1, <3>2
      <4> QED
        BY <4>1
    <3>3. CASE k <= j
      <4>1. \A i \in S : i <= k => i <= j
        BY <3>1, <3>3
      <4> QED
        BY <4>1
    <3> QED
      BY <3>1, <3>2, <3>3
  <2>2. Cardinality(upTo(j)) = Cardinality(upTo(k))
    BY <1>4
  <2>3. upTo(j) = upTo(k)
    <3> HIDE DEF upTo
    <3> QED
      BY <1>2, <2>1, <2>2, FS_Subset
  <2>4. j \in upTo(k) /\ k \in upTo(j)
    BY <2>3
  <2> QED
    BY <2>4
<1>5. number \in Surjection(S, 1..Cardinality(S))
  <2> HIDE DEF number
  <2>1. number \in Injection(S, 1..Cardinality(S))
    BY <1>3, <1>4 DEF Injection, IsInjective
  <2>2. IsFiniteSet(1..Cardinality(S)) /\ Cardinality(1..Cardinality(S)) = Cardinality(S)
    <3>1. ASSUME NEW n \in Nat PROVE IsFiniteSet(1..n) /\ Cardinality(1..n) = n
      <4>1. IsFiniteSet(1..n) /\ Cardinality(1..n) = IF 1 > n THEN 0 ELSE n - 1 + 1
        BY FS_Interval
      <4> QED
        BY <4>1
    <3> QED
      BY <1>1, <3>1
  <2> QED
    BY <2>1, <2>2, FS_Injection
<1>6. ASSUME NEW n \in 1..Cardinality(S) PROVE Nth(S, n) \in S /\ number[Nth(S, n)] = n
  <2>1. PICK k \in S : number[k] = n
    <3> HIDE DEF number
    <3> QED
      BY <1>5 DEF Surjection
  <2>2. Cardinality(upTo(k)) = n
    BY <2>1
  <2>3. Nth(S, n) \in S /\ Cardinality({i \in S : i <= Nth(S, n)}) = n
    BY <2>2 DEF Nth
  <2> QED
    BY <2>3
<1>7. ASSUME NEW k \in S PROVE \E n \in 1..Cardinality(S) : Nth(S, n) = k
  <2>1. number[k] \in 1..Cardinality(S)
    BY <1>3
  <2> HIDE DEF number
  <2> QED
    BY <1>4, <1>6, <2>1
<1> HIDE DEF number
<1> QED
  BY <1>1, <1>6, <1>7

\* The records that a record of a certificate stands for: itself and the later ones.
Later(s, k) == {i \in DOMAIN s : i > k /\ SameCertificate(s[i], s[k])}
Leaders(s) == Leads(s) \union Others(s)
Noted(s, k) ==
  [s[k] EXCEPT !.also = @ \union UNION {s[i].also \union {s[i].host} : i \in Later(s, k)}]

LEMMA InventoryRecords ==
  ASSUME NEW s
  PROVE  Inventory(s) = [n \in 1..Cardinality(Leaders(s)) |-> Noted(s, Nth(Leaders(s), n))]
BY DEF Inventory, Merged, Leaders, Noted, Later

\* No two of those that are kept stand for the same record.
LEMMA KeptApart ==
  ASSUME NEW s \in Seq(Record), NEW k \in Leaders(s), NEW m \in Leaders(s), k # m
  PROVE  ({k} \union Later(s, k)) \intersect ({m} \union Later(s, m)) = {}
<1>1. DOMAIN s \subseteq Nat /\ k \in DOMAIN s /\ m \in DOMAIN s
  BY DEF Leaders, Leads, Others, Live
<1>2. CASE k \in Others(s) \/ m \in Others(s)
  BY <1>1, <1>2 DEF Leaders, Leads, Others, Live, Later, SameCertificate
<1>3. CASE k \in Leads(s) /\ m \in Leads(s)
  <2> SUFFICES ASSUME NEW i \in ({k} \union Later(s, k)) \intersect ({m} \union Later(s, m))
               PROVE  FALSE
    OBVIOUS
  <2>1. SameCertificate(s[k], s[m]) /\ SameCertificate(s[m], s[k])
    BY <1>1, <1>3 DEF Later, SameCertificate, Leads, Live
  <2>2. k <= m /\ m <= k
    BY <1>3, <2>1 DEF Leads
  <2> QED
    BY <1>1, <2>2
<1> QED
  BY <1>2, <1>3 DEF Leaders

\* And together they stand for all of them.
LEMMA KeptCovers ==
  ASSUME NEW s \in Seq(Record), NEW i \in DOMAIN s
  PROVE  \E k \in Leaders(s) : i \in {k} \union Later(s, k)
<1>1. CASE i \in Others(s)
  BY <1>1 DEF Leaders
<1>2. CASE i \in Live(s)
  <2> DEFINE T == {j \in Live(s) : SameCertificate(s[j], s[i])}
  <2>1. T \in SUBSET Nat /\ i \in T
    BY <1>2 DEF Live, SameCertificate
  <2>2. PICK k \in T : \A j \in T : k <= j
    BY <2>1, Least
  <2>3. k \in Leads(s)
    BY <2>2 DEF Leads, Live, SameCertificate
  <2>4. i = k \/ i \in Later(s, k)
    BY <2>1, <2>2 DEF Later, Live, SameCertificate
  <2> QED
    BY <2>3, <2>4 DEF Leaders
<1> QED
  BY <1>1, <1>2 DEF Others

AllNamed(r) == UNION {Named(r[k]) : k \in DOMAIN r}

Apart(r) ==
  \A i, k \in DOMAIN r : i # k => Named(r[i]) \intersect Named(r[k]) = {}

Plain(r) == \A k \in DOMAIN r : r[k].also = {}

\* Merging loses no host and names none twice.
LEMMA InventoryNames ==
  ASSUME NEW s \in Seq(Record), Plain(s), Apart(s)
  PROVE  /\ Inventory(s) \in Seq(Record)
         /\ Apart(Inventory(s))
         /\ AllNamed(Inventory(s)) = AllNamed(s)
<1> DEFINE t == Inventory(s)
           n == Cardinality(Leaders(s))
           at(j) == Nth(Leaders(s), j)
           cover(k) == {k} \union Later(s, k)
<1>1. /\ \A i \in DOMAIN s : s[i] \in Record /\ Named(s[i]) = {s[i].host}
      /\ \A i, k \in DOMAIN s : s[i].host = s[k].host => i = k
      /\ DOMAIN s = 1..Len(s) /\ Len(s) \in Nat
  <2>1. DOMAIN s = 1..Len(s) /\ Len(s) \in Nat /\ \A i \in DOMAIN s : s[i] \in Record
    OBVIOUS
  <2>2. \A i \in DOMAIN s : Named(s[i]) = {s[i].host}
    BY DEF Plain, Named
  <2>3. \A i, k \in DOMAIN s : s[i].host = s[k].host => i = k
    BY <2>2 DEF Apart
  <2> QED
    BY <2>1, <2>2, <2>3
<1>2. Leaders(s) \in SUBSET (DOMAIN s) /\ DOMAIN s \in SUBSET Nat /\ Leaders(s) \in SUBSET Nat
  BY <1>1 DEF Leaders, Leads, Others, Live
<1>3. IsFiniteSet(Leaders(s))
  <2>1. IsFiniteSet(1..Len(s))
    BY <1>1, FS_Interval
  <2> QED
    BY <1>1, <1>2, <2>1, FS_Subset
<1>4. /\ n \in Nat
      /\ \A j \in 1..n : at(j) \in Leaders(s)
      /\ \A i, j \in 1..n : at(i) = at(j) => i = j
      /\ \A k \in Leaders(s) : \E j \in 1..n : at(j) = k
  BY <1>2, <1>3, NthPlace
<1>5. ASSUME NEW k \in DOMAIN s
      PROVE  /\ Noted(s, k) \in Record
             /\ Named(Noted(s, k)) = {s[i].host : i \in cover(k)}
             /\ cover(k) \subseteq DOMAIN s
  <2>1. s[k] \in Record /\ s[k].also = {} /\ \A i \in Later(s, k) : s[i] \in Record /\ s[i].also = {}
    BY <1>1 DEF Plain, Later
  <2> DEFINE a == s[k].also \union UNION {s[i].also \union {s[i].host} : i \in Later(s, k)}
  <2>2. a = {s[i].host : i \in Later(s, k)}
    BY <2>1
  <2>3. a \in SUBSET Hosts
    BY <2>1, <2>2 DEF Record
  <2>4. Noted(s, k) = [s[k] EXCEPT !.also = a]
    BY DEF Noted
  <2> HIDE DEF a
  <2>5. /\ Noted(s, k) \in Record /\ Noted(s, k).host = s[k].host
        /\ Noted(s, k).also = a
    BY <2>1, <2>3, <2>4 DEF Record
  <2>6. Named(Noted(s, k)) = {s[i].host : i \in cover(k)}
    BY <2>2, <2>5 DEF Named
  <2> QED
    BY <2>5, <2>6 DEF Later
<1>6. t = [j \in 1..n |-> Noted(s, at(j))]
  BY InventoryRecords
<1> HIDE DEF t, n, at
<1>7. t \in Seq(Record) /\ DOMAIN t = 1..n
  BY <1>2, <1>4, <1>5, <1>6
<1>8. \A j \in 1..n : Named(t[j]) = {s[i].host : i \in cover(at(j))}
  BY <1>2, <1>4, <1>5, <1>6
<1>9. Apart(t)
  <2> SUFFICES ASSUME NEW i \in 1..n, NEW j \in 1..n, i # j,
                      NEW h \in Named(t[i]) \intersect Named(t[j])
               PROVE  FALSE
    BY <1>7 DEF Apart
  <2>1. at(i) \in Leaders(s) /\ at(j) \in Leaders(s) /\ at(i) # at(j)
    BY <1>4
  <2>2. PICK k \in cover(at(i)), m \in cover(at(j)) : s[k].host = h /\ s[m].host = h
    BY <1>8
  <2>3. k = m
    BY <1>1, <1>2, <1>5, <2>1, <2>2
  <2> QED
    BY <2>1, <2>2, <2>3, KeptApart
<1>10. AllNamed(t) = AllNamed(s)
  <2>1. ASSUME NEW h \in AllNamed(t) PROVE h \in AllNamed(s)
    <3>1. PICK j \in 1..n : h \in Named(t[j])
      BY <1>7, <2>1 DEF AllNamed
    <3>2. PICK i \in cover(at(j)) : h = s[i].host
      BY <1>8, <3>1
    <3>3. i \in DOMAIN s
      BY <1>2, <1>4, <1>5, <3>2
    <3> QED
      BY <1>1, <3>2, <3>3 DEF AllNamed
  <2>2. ASSUME NEW h \in AllNamed(s) PROVE h \in AllNamed(t)
    <3>1. PICK i \in DOMAIN s : h = s[i].host
      BY <1>1, <2>2 DEF AllNamed
    <3>2. PICK k \in Leaders(s) : i \in cover(k)
      BY KeptCovers
    <3>3. PICK j \in 1..n : at(j) = k
      BY <1>4
    <3>4. h \in Named(t[j])
      BY <1>8, <3>1, <3>2, <3>3
    <3> QED
      BY <1>7, <3>4 DEF AllNamed
  <2> QED
    BY <2>1, <2>2
<1> QED
  BY <1>7, <1>9, <1>10 DEF t
------------------------------------------------------------------------------
(* The books of a scan: which hosts are at work, reported and counted.     *)

Active(p) == {h \in Hosts : p[h] \notin Idle}
Chosen(p) == {h \in Hosts : p[h] # "none"}
Over(p) == {h \in Hosts : p[h] = "over"}
WildcardsFound == found \intersect Wildcards

NothingYet ==
  run \in {"none", "refused", "scheduled", "ct_logs", "wordlist"} =>
    total = 0 /\ done = 0 /\ records = <<>> /\ Active(probe) = {} /\ ~raised

\* A host at work is counted later, and at most once.
Counted == done + Cardinality(Active(probe)) <= total

\* While gather waits, every chosen host is at work or counted, and unless a task
\* has raised, those that are over are the ones that were reported.
Gathering ==
  run = "gather" =>
    /\ total = Cardinality(Chosen(probe))
    /\ done + Cardinality(Active(probe)) = total
    /\ Chosen(probe) \intersect Wildcards = {}
    /\ ~raised => AllNamed(records) = WildcardsFound \union Over(probe)

\* The records are merged once, at the end.
MergedLast == run \notin {"ended", "lost"} => Plain(records)

ReportedOnce ==
  /\ Apart(records) /\ Apart(row.records)
  /\ Active(probe) \intersect AllNamed(records) = {}

DoneCounted ==
  state = "done" =>
    /\ Active(probe) = {}
    /\ done = total
    /\ total + Cardinality(WildcardsFound) = Cardinality(AllNamed(records))

Books ==
  TypeOK /\ NothingYet /\ Counted /\ Gathering /\ MergedLast /\ ReportedOnce /\ DoneCounted

LEMMA HostSets ==
  ASSUME NEW T \in SUBSET Hosts
  PROVE  IsFiniteSet(T) /\ Cardinality(T) \in Nat
BY HostsAssumption, FS_Subset, FS_CardinalityType

LEMMA ActiveSets ==
  ASSUME NEW p
  PROVE  /\ Active(p) \in SUBSET Hosts /\ Chosen(p) \in SUBSET Hosts /\ Over(p) \in SUBSET Hosts
         /\ IsFiniteSet(Active(p)) /\ Cardinality(Active(p)) \in Nat
<1>1. Active(p) \in SUBSET Hosts /\ Chosen(p) \in SUBSET Hosts /\ Over(p) \in SUBSET Hosts
  BY DEF Active, Chosen, Over
<1> QED
  BY <1>1, HostSets

\* A task that ends is not at work any more; it was one of the chosen.
LEMMA TaskEnds ==
  ASSUME NEW p \in [Hosts -> Idle \union AtWork \union {"queued"}],
         NEW h \in Hosts, p[h] \in AtWork
  PROVE  LET q == [p EXCEPT ![h] = "over"] IN
         /\ h \in Active(p)
         /\ Active(q) = Active(p) \ {h}
         /\ Cardinality(Active(q)) = Cardinality(Active(p)) - 1
         /\ Chosen(q) = Chosen(p)
         /\ Over(q) = Over(p) \union {h}
<1> DEFINE q == [p EXCEPT ![h] = "over"]
<1>1. q[h] = "over" /\ \A k \in Hosts \ {h} : q[k] = p[k]
  OBVIOUS
<1> HIDE DEF q
<1>2. h \in Active(p) /\ Active(q) = Active(p) \ {h}
  BY <1>1 DEF Active, Idle, AtWork
<1>3. Cardinality(Active(q)) = Cardinality(Active(p)) - 1
  <2>1. IsFiniteSet(Active(p))
    BY ActiveSets
  <2>2. Cardinality(Active(p) \ {h}) = Cardinality(Active(p)) - 1
    BY <1>2, <2>1, FS_RemoveElement
  <2> QED
    BY <1>2, <2>2
<1>4. Chosen(q) = Chosen(p) /\ Over(q) = Over(p) \union {h}
  BY <1>1 DEF Chosen, Over, AtWork
<1> QED
  BY <1>2, <1>3, <1>4 DEF q

\* The records of the wildcards: one for each, with its name.
LEMMA WildcardRecords ==
  ASSUME NEW W \in SUBSET Hosts, NEW s, s = SetToSeq({Found(h, "wildcard") : h \in W})
  PROVE  /\ s \in Seq(Record) /\ Plain(s) /\ Apart(s)
         /\ AllNamed(s) = W
<1> DEFINE R == {Found(h, "wildcard") : h \in W}
           n == Cardinality(R)
           f == [h \in W |-> Found(h, "wildcard")]
<1>1. IsFiniteSet(R)
  <2>1. f \in Surjection(W, R)
    BY DEF Surjection
  <2> HIDE DEF f, R
  <2> QED
    BY <2>1, HostSets, FS_Surjection
<1>2. \A r \in R : r \in Record /\ r.also = {} /\ r.host \in W
  BY DEF Found, Record, Results
<1>3. \A r, q \in R : r.host = q.host => r = q
  BY DEF Found
<1>4. ASSUME NEW h \in W PROVE \E r \in R : r.host = h
  <2>1. Found(h, "wildcard") \in R /\ Found(h, "wildcard").host = h
    BY DEF Found
  <2> QED
    BY <2>1
<1> HIDE DEF R
<1>5. n \in Nat /\ s \in [1..n -> R] /\ IsInjective(s)
  <2>1. \E g \in [1..n -> R] : IsInjective(g)
    BY <1>1, FS_CardinalityType DEF ExistsBijection, Bijection, Injection
  <2>2. s = CHOOSE g \in [1..n -> R] : IsInjective(g)
    BY DEF SetToSeq, R
  <2> QED
    BY <1>1, <2>1, <2>2, FS_CardinalityType
<1>6. \A r \in R : \E k \in 1..n : s[k] = r
  <2>1. s \in Injection(1..n, R)
    BY <1>5 DEF Injection
  <2>2. ASSUME NEW m \in Nat PROVE Cardinality(1..m) = m
    <3>1. Cardinality(1..m) = IF 1 > m THEN 0 ELSE m - 1 + 1
      BY FS_Interval
    <3> QED
      BY <3>1
  <2>3. s \in Surjection(1..n, R)
    BY <1>1, <1>5, <2>1, <2>2, FS_Injection
  <2> QED
    BY <2>3 DEF Surjection
<1> HIDE DEF n
<1>7. s \in Seq(Record) /\ DOMAIN s = 1..n
  BY <1>2, <1>5
<1>8. \A k \in 1..n : s[k] \in R /\ Named(s[k]) = {s[k].host}
  BY <1>2, <1>5 DEF Named
<1>9. Plain(s)
  BY <1>2, <1>7, <1>8 DEF Plain
<1>10. Apart(s)
  <2>1. ASSUME NEW i \in 1..n, NEW k \in 1..n, i # k PROVE s[i].host # s[k].host
    <3>1. s[i] # s[k]
      BY <1>5, <1>7, <2>1 DEF IsInjective
    <3> QED
      BY <1>3, <1>8, <3>1
  <2>2. ASSUME NEW i \in 1..n, NEW k \in 1..n, i # k
        PROVE  Named(s[i]) \intersect Named(s[k]) = {}
    <3>1. Named(s[i]) = {s[i].host} /\ Named(s[k]) = {s[k].host}
      BY <1>8
    <3> QED
      BY <2>1, <2>2, <3>1
  <2> QED
    BY <1>7, <2>2 DEF Apart
<1>11. AllNamed(s) = W
  <2>1. ASSUME NEW h \in AllNamed(s) PROVE h \in W
    <3>1. PICK k \in 1..n : h \in Named(s[k])
      BY <1>7, <2>1 DEF AllNamed
    <3>2. h = s[k].host /\ s[k] \in R
      BY <1>8, <3>1
    <3> QED
      BY <1>2, <3>2
  <2>2. ASSUME NEW h \in W PROVE h \in AllNamed(s)
    <3>1. PICK r \in R : r.host = h
      BY <1>4
    <3>2. PICK k \in 1..n : s[k] = r
      BY <1>6
    <3> QED
      BY <1>7, <1>8, <3>1, <3>2 DEF AllNamed
  <2> QED
    BY <2>1, <2>2
<1> QED
  BY <1>7, <1>9, <1>10, <1>11

\* A report is one more record, of a host that has none yet.
LEMMA OneMoreRecord ==
  ASSUME NEW s \in Seq(Record), NEW h \in Hosts, NEW result \in Results
  PROVE  LET t == Append(s, Found(h, result)) IN
         /\ t \in Seq(Record)
         /\ AllNamed(t) = AllNamed(s) \union {h}
         /\ Plain(s) => Plain(t)
         /\ Apart(s) /\ h \notin AllNamed(s) => Apart(t)
<1> DEFINE r == Found(h, result)
           t == Append(s, r)
           n == Len(s)
<1>1. r \in Record /\ r.also = {} /\ Named(r) = {h}
  BY DEF Found, Record, Named
<1> HIDE DEF r
<1>2. /\ n \in Nat /\ DOMAIN s = 1..n /\ DOMAIN t = 1..(n + 1) /\ t \in Seq(Record)
      /\ t[n + 1] = r /\ \A k \in 1..n : t[k] = s[k]
  BY <1>1
<1> HIDE DEF t, n
<1>3. \A k \in 1..(n + 1) : k \in 1..n \/ k = n + 1
  BY <1>2
<1>4. n + 1 \in 1..(n + 1) /\ \A k \in 1..n : k \in 1..(n + 1)
  BY <1>2
<1>5. AllNamed(t) = AllNamed(s) \union {h}
  <2>1. ASSUME NEW g \in AllNamed(t) PROVE g \in AllNamed(s) \union {h}
    BY <1>1, <1>2, <1>3, <2>1 DEF AllNamed
  <2>2. ASSUME NEW g \in AllNamed(s) PROVE g \in AllNamed(t)
    BY <1>2, <1>4, <2>2 DEF AllNamed
  <2>3. h \in AllNamed(t)
    BY <1>1, <1>2, <1>4 DEF AllNamed
  <2> QED
    BY <2>1, <2>2, <2>3
<1>6. Plain(s) => Plain(t)
  BY <1>1, <1>2, <1>3 DEF Plain
<1>7. ASSUME Apart(s), h \notin AllNamed(s) PROVE Apart(t)
  <2>1. \A k \in 1..n : h \notin Named(s[k])
    BY <1>2, <1>7 DEF AllNamed
  <2>2. ASSUME NEW i \in 1..(n + 1), NEW k \in 1..(n + 1), i # k
        PROVE  Named(t[i]) \intersect Named(t[k]) = {}
    <3>1. CASE i \in 1..n /\ k \in 1..n
      BY <1>2, <1>7, <2>2, <3>1 DEF Apart
    <3>2. CASE i = n + 1 /\ k \in 1..n
      BY <1>1, <1>2, <2>1, <3>2
    <3>3. CASE k = n + 1 /\ i \in 1..n
      BY <1>1, <1>2, <2>1, <3>3
    <3> QED
      BY <1>3, <2>2, <3>1, <3>2, <3>3
  <2> QED
    BY <1>2, <2>2 DEF Apart
<1> QED
  BY <1>2, <1>5, <1>6, <1>7 DEF t, r

LEMMA BooksInit == Init => Books
<1> SUFFICES ASSUME Init PROVE Books
  OBVIOUS
<1>1. /\ state = "none" /\ run = "none" /\ found = {} /\ total = 0 /\ done = 0
      /\ records = <<>> /\ raised = FALSE /\ known = FALSE /\ row = NoRow
      /\ probe = [h \in Hosts |-> "none"]
  BY DEF Init
<1>2. <<>> \in Seq(Record) /\ DOMAIN (<<>>) = {} /\ row.records = <<>> /\ row.state = "none"
  BY <1>1 DEF NoRow
<1>3. TypeOK
  <2>1. total \in 0..MaxHosts /\ done \in 0..total
    BY <1>1, BoundsAssumption
  <2>2. probe \in [Hosts -> Idle \union AtWork \union {"queued"}]
    BY <1>1 DEF Idle
  <2>3. state \in States /\ row.state \in States
    BY <1>1, <1>2 DEF States
  <2>4. records \in Seq(Record) /\ row.records \in Seq(Record)
    BY <1>1, <1>2
  <2> QED
    BY <1>1, <2>1, <2>2, <2>3, <2>4 DEF TypeOK
<1>4. Active(probe) = {} /\ Cardinality({}) = 0
  BY <1>1, FS_EmptySet DEF Active, Idle
<1>5. AllNamed(<<>>) = {} /\ Apart(<<>>) /\ Plain(<<>>)
  BY <1>2 DEF AllNamed, Apart, Plain
<1>6. NothingYet /\ Gathering /\ DoneCounted /\ MergedLast
  BY <1>1, <1>4, <1>5 DEF NothingYet, Gathering, DoneCounted, MergedLast
<1>7. Counted
  <2>1. Cardinality(Active(probe)) = 0
    BY <1>4
  <2>2. done = 0 /\ total = 0
    BY <1>1
  <2> QED
    BY <2>1, <2>2 DEF Counted
<1>8. ReportedOnce
  BY <1>1, <1>2, <1>4, <1>5 DEF ReportedOnce
<1> QED
  BY <1>3, <1>6, <1>7, <1>8 DEF Books

\* Steps that leave the hosts and what is reported of them alone.
LEMMA BooksUntouched ==
  ASSUME Books, TypeOK', UNCHANGED <<total, done, records>>,
         Active(probe') = Active(probe), run' # "gather",
         run' \in {"none", "refused", "scheduled", "ct_logs", "wordlist"} =>
           run \in {"none", "refused", "scheduled", "ct_logs", "wordlist"} /\ raised' = raised,
         run' \notin {"ended", "lost"} => run \notin {"ended", "lost"},
         state' # "done", Apart(row'.records)
  PROVE  Books'
BY DEF Books, NothingYet, Counted, Gathering, MergedLast, ReportedOnce, DoneCounted

LEMMA BooksEarly ==
  ASSUME Books, Settled,
         \/ \E manual \in SUBSET Hosts, stored \in BOOLEAN : Create(manual, stored)
         \/ RunStarts
         \/ \E names \in SUBSET Hosts : CtLogsAnswer(names)
         \/ DiscoveryRaises
  PROVE  Books'
<1> <<>> \in Seq(Record) /\ Apart(<<>>)
  BY DEF Apart
<1>0. ~(state \in Ended) \/ run \in {"ended", "lost"}
  BY DEF Settled
<1>1. ASSUME NEW manual \in SUBSET Hosts, NEW stored \in BOOLEAN, Create(manual, stored)
      PROVE  Books'
  <2>1. /\ UNCHANGED <<total, done, records, probe, raised>> /\ run = "none"
        /\ run' \in {"scheduled", "refused"} /\ state' = "pending" /\ known' = TRUE
        /\ found' = manual
        /\ row' = row \/ (row'.state = "pending" /\ row'.records = <<>>)
    BY <1>1 DEF Create, Snapshot
  <2>2. TypeOK'
    BY <2>1 DEF Books, TypeOK, States
  <2>3. Apart(row'.records)
    BY <2>1 DEF Books, ReportedOnce
  <2> QED
    BY <2>1, <2>2, <2>3, BooksUntouched DEF Books
<1>2. CASE RunStarts
  <2>1. /\ UNCHANGED <<total, done, records, probe, raised, found, known, row>>
        /\ run = "scheduled" /\ run' = "ct_logs" /\ state' = "discovering_hosts"
    BY <1>2 DEF RunStarts
  <2>2. TypeOK'
    BY <2>1 DEF Books, TypeOK, States
  <2> QED
    BY <2>1, <2>2, BooksUntouched DEF Books, ReportedOnce
<1>3. ASSUME NEW names \in SUBSET Hosts, CtLogsAnswer(names) PROVE Books'
  <2>1. /\ UNCHANGED <<state, total, done, records, probe, raised, known, row>>
        /\ run = "ct_logs" /\ run' = "wordlist" /\ found' = found \union names \union {Apex}
    BY <1>3 DEF CtLogsAnswer, job
  <2>2. TypeOK'
    BY <2>1, HostsAssumption DEF Books, TypeOK
  <2>3. state' # "done"
    BY <1>0, <2>1 DEF Ended
  <2> QED
    BY <2>1, <2>2, <2>3, BooksUntouched DEF Books, ReportedOnce
<1>4. CASE DiscoveryRaises
  <2>1. /\ UNCHANGED <<state, total, done, records, probe, raised, found, known, row>>
        /\ run \in {"ct_logs", "wordlist"} /\ run' = "failing"
    BY <1>4 DEF DiscoveryRaises, job
  <2>2. TypeOK'
    BY <2>1 DEF Books, TypeOK
  <2>3. state' # "done"
    BY <1>0, <2>1 DEF Ended
  <2> QED
    BY <2>1, <2>2, <2>3, BooksUntouched DEF Books, ReportedOnce
<1> QED
  BY <1>1, <1>2, <1>3, <1>4

LEMMA BooksProbesStart ==
  ASSUME Books, NEW names \in SUBSET Hosts, NEW chosen \in SUBSET Hosts,
         NEW stored \in BOOLEAN, ProbesStart(names, chosen, stored)
  PROVE  Books'
<1> DEFINE W == found' \intersect Wildcards
<1>1. /\ run = "wordlist" /\ found' = found \union names /\ chosen \subseteq found' \ Wildcards
      /\ state' = "probing_tls" /\ total' = Cardinality(chosen)
      /\ records' = SetToSeq({Found(h, "wildcard") : h \in W})
      /\ UNCHANGED <<done, raised, known>>
  BY DEF ProbesStart
<1>2. /\ done = 0 /\ Active(probe) = {} /\ ~raised /\ found \subseteq Hosts
      /\ probe \in [Hosts -> Idle \union AtWork \union {"queued"}] /\ known \in BOOLEAN
  BY <1>1 DEF Books, NothingYet, TypeOK
<1>3. W \in SUBSET Hosts /\ found' \in SUBSET Hosts
  BY <1>1, <1>2
<1>4. records' \in Seq(Record) /\ Plain(records') /\ Apart(records') /\ AllNamed(records') = W
  BY <1>1, <1>3, WildcardRecords
<1>5. total' \in 0..MaxHosts /\ done' \in 0..total'
  <2>1. total' \in Nat /\ MaxHosts \in Nat
    BY <1>1, HostSets, BoundsAssumption
  <2>2. total' <= MaxHosts
    <3>1. Cardinality(found' \ Wildcards) \in Nat
      BY <1>3, HostSets
    <3>2. total' = IF Cardinality(found' \ Wildcards) < MaxHosts
                     THEN Cardinality(found' \ Wildcards) ELSE MaxHosts
      BY <1>1 DEF ProbesStart
    <3> QED
      BY <2>1, <3>1, <3>2
  <2> QED
    BY <1>1, <1>2, <2>1, <2>2
<1> HIDE DEF W
<1>6. CASE stored
  <2>1. /\ row'.state = "probing_tls" /\ row'.records = records' /\ run' = "gather"
        /\ probe' = [h \in Hosts |-> IF h \in chosen THEN "queued" ELSE "none"]
    BY <1>6 DEF ProbesStart, Snapshot
  <2>2. Active(probe') = chosen /\ Chosen(probe') = chosen /\ Over(probe') = {}
    BY <2>1 DEF Active, Chosen, Over, Idle
  <2>3. TypeOK'
    <3>1. probe' \in [Hosts -> Idle \union AtWork \union {"queued"}]
      BY <2>1 DEF Idle
    <3>2. state' \in States /\ row'.state \in States
      BY <1>1, <2>1 DEF States
    <3>3. row'.records \in Seq(Record)
      BY <1>4, <2>1
    <3>4. raised' \in BOOLEAN /\ known' \in BOOLEAN
      BY <1>1 DEF Books, TypeOK
    <3> QED
      BY <1>3, <1>4, <1>5, <2>1, <3>1, <3>2, <3>3, <3>4 DEF TypeOK
  <2>4. Cardinality(chosen) \in Nat /\ done' = 0 /\ total' = Cardinality(chosen)
    BY <1>1, <1>2, HostSets
  <2>5. Counted' /\ Gathering'
    BY <1>1, <1>4, <2>2, <2>4 DEF Counted, Gathering, WildcardsFound, W
  <2>6. ReportedOnce'
    BY <1>1, <1>4, <2>1, <2>2 DEF ReportedOnce, W
  <2>7. NothingYet' /\ MergedLast' /\ DoneCounted'
    BY <1>1, <1>4, <2>1 DEF NothingYet, MergedLast, DoneCounted
  <2> QED
    BY <2>3, <2>5, <2>6, <2>7 DEF Books
<1>7. CASE ~stored
  <2>1. row' = row /\ probe' = probe /\ run' = "failing"
    BY <1>7 DEF ProbesStart
  <2>2. TypeOK'
    BY <1>1, <1>3, <1>4, <1>5, <2>1 DEF Books, TypeOK, States
  <2>3. Active(probe') = {} /\ Cardinality({}) = 0
    BY <1>2, <2>1, FS_EmptySet
  <2>4. Counted' /\ ReportedOnce'
    <3>1. done' = 0 /\ total' \in Nat
      BY <1>1, <1>2, HostSets
    <3> QED
      BY <1>4, <2>1, <2>3, <3>1 DEF Books, Counted, ReportedOnce
  <2>5. NothingYet' /\ MergedLast' /\ DoneCounted' /\ Gathering'
    BY <1>1, <1>4, <2>1 DEF NothingYet, MergedLast, DoneCounted, Gathering
  <2> QED
    BY <2>2, <2>4, <2>5 DEF Books
<1> QED
  BY <1>6, <1>7

LEMMA BooksProbe ==
  ASSUME Books, NEW h \in Hosts, ProbeStep(h)
  PROVE  Books'
<1>0. /\ probe \in [Hosts -> Idle \union AtWork \union {"queued"}]
      /\ records \in Seq(Record) /\ done \in Nat /\ total \in Nat /\ total \in 0..MaxHosts
      /\ Cardinality(Active(probe)) \in Nat
      /\ done + Cardinality(Active(probe)) <= total
  BY ActiveSets, BoundsAssumption DEF Books, TypeOK, Counted
<1>1. ASSUME ProbeStarts(h) \/ HostResolved(h) PROVE Books'
  <2>1. /\ UNCHANGED <<state, total, done, records, run, raised, found, known, row>>
        /\ probe[h] \in {"queued", "resolving"}
        /\ \E p \in AtWork : probe' = [probe EXCEPT ![h] = p]
    BY <1>1 DEF ProbeStarts, HostResolved, job, AtWork
  <2>2. /\ probe' \in [Hosts -> Idle \union AtWork \union {"queued"}]
        /\ probe'[h] \in AtWork /\ \A k \in Hosts \ {h} : probe'[k] = probe[k]
    BY <1>0, <2>1
  <2>3. /\ Active(probe') = Active(probe) /\ Chosen(probe') = Chosen(probe)
        /\ Over(probe') = Over(probe)
    BY <2>1, <2>2 DEF Active, Chosen, Over, Idle, AtWork
  <2>4. TypeOK'
    BY <2>1, <2>2 DEF Books, TypeOK
  <2> QED
    BY <2>1, <2>3, <2>4 DEF Books, NothingYet, Counted, Gathering, MergedLast, ReportedOnce,
       DoneCounted, WildcardsFound
<1>2. ASSUME probe[h] \in AtWork, probe' = [probe EXCEPT ![h] = "over"], done' = done + 1,
             UNCHANGED <<state, total, run, found, known, row>>,
             raised' \in BOOLEAN, records' \in Seq(Record),
             Plain(records) => Plain(records'), Apart(records'),
             AllNamed(records') \in {AllNamed(records), AllNamed(records) \union {h}},
             ~raised' => ~raised /\ AllNamed(records') = AllNamed(records) \union {h}
      PROVE  Books'
  <2>1. /\ h \in Active(probe) /\ Active(probe') = Active(probe) \ {h}
        /\ Cardinality(Active(probe')) = Cardinality(Active(probe)) - 1
        /\ Chosen(probe') = Chosen(probe) /\ Over(probe') = Over(probe) \union {h}
    BY <1>0, <1>2, TaskEnds
  <2>2. Cardinality(Active(probe')) \in Nat
    BY ActiveSets
  <2>3. done' + Cardinality(Active(probe')) = done + Cardinality(Active(probe))
        /\ done' \in 0..total
    BY <1>0, <1>2, <2>1, <2>2
  <2>4. TypeOK'
    <3>1. probe' \in [Hosts -> Idle \union AtWork \union {"queued"}]
      BY <1>0, <1>2 DEF Idle
    <3> QED
      BY <1>2, <2>3, <3>1 DEF Books, TypeOK
  <2>5. /\ state # "done"
        /\ run \notin {"none", "refused", "scheduled", "ct_logs", "wordlist"}
    BY <2>1 DEF Books, DoneCounted, NothingYet
  <2>6. Counted' /\ NothingYet' /\ DoneCounted' /\ MergedLast'
    BY <1>0, <1>2, <2>3, <2>5 DEF Books, Counted, NothingYet, DoneCounted, MergedLast
  <2>7. ReportedOnce'
    BY <1>2, <2>1 DEF Books, ReportedOnce
  <2>8. Gathering'
    BY <1>2, <2>1, <2>3 DEF Books, Gathering, WildcardsFound
  <2> QED
    BY <2>4, <2>6, <2>7, <2>8 DEF Books
<1>3. ASSUME NEW result \in Results, HostReported(h, result) PROVE Books'
  <2>1. probe[h] \in AtWork
    BY <1>3 DEF HostReported, AtWork
  <2>2. h \notin AllNamed(records) /\ Apart(records)
    BY <1>0, <2>1, TaskEnds DEF Books, ReportedOnce
  <2>3. /\ probe' = [probe EXCEPT ![h] = "over"] /\ done' = done + 1
        /\ UNCHANGED <<state, total, run, found, known, row, raised>>
        /\ records' = Append(records, Found(h, result))
    BY <1>3 DEF HostReported
  <2>4. /\ records' \in Seq(Record) /\ AllNamed(records') = AllNamed(records) \union {h}
        /\ Plain(records) => Plain(records')
        /\ Apart(records')
    BY <1>0, <2>2, <2>3, OneMoreRecord
  <2>5. raised' \in BOOLEAN /\ (~raised' => ~raised)
    BY <2>3 DEF Books, TypeOK
  <2> QED
    BY <1>2, <2>1, <2>3, <2>4, <2>5
<1>4. ASSUME ProbeRaises(h) PROVE Books'
  <2>1. /\ probe[h] \in AtWork /\ probe' = [probe EXCEPT ![h] = "over"] /\ done' = done + 1
        /\ UNCHANGED <<state, total, run, found, known, row, records>> /\ raised' = TRUE
    BY <1>4 DEF ProbeRaises
  <2> QED
    BY <1>0, <1>2, <2>1 DEF Books, ReportedOnce
<1> QED
  BY <1>1, <1>3, <1>4 DEF ProbeStep

LEMMA BooksEnds ==
  ASSUME Books, NEW stored \in BOOLEAN,
         RunFinishes(stored) \/ RunFails(stored) \/ RunTimesOut(stored)
  PROVE  Books'
<1>0. /\ run \notin {"ended", "lost", "none", "refused", "scheduled"}
      /\ run' = "ended" /\ UNCHANGED <<total, found, known, raised>>
      /\ row' = row \/ (row'.state = state' /\ row'.records = records')
      /\ state' \in Ended
  BY DEF RunFinishes, RunFails, RunTimesOut, Ends, Snapshot, Ended
<1>1. /\ Plain(records) /\ records \in Seq(Record) /\ Apart(records) /\ Apart(row.records)
      /\ Active(probe) \intersect AllNamed(records) = {}
      /\ done \in Nat /\ total \in Nat /\ done \in 0..total
      /\ Cardinality(Active(probe)) \in Nat /\ done + Cardinality(Active(probe)) <= total
      /\ probe \in [Hosts -> Idle \union AtWork \union {"queued"}]
  BY <1>0, ActiveSets, BoundsAssumption DEF Books, TypeOK, Counted, ReportedOnce, MergedLast
<1>2. /\ Inventory(records) \in Seq(Record) /\ Apart(Inventory(records))
      /\ AllNamed(Inventory(records)) = AllNamed(records)
  BY <1>1, InventoryNames
<1>3. /\ records' \in {records, Inventory(records)}
  BY DEF RunFinishes, RunFails, RunTimesOut, Ends
<1>4. records' \in Seq(Record) /\ Apart(records') /\ AllNamed(records') = AllNamed(records)
  BY <1>1, <1>2, <1>3
<1>5. Apart(row'.records) /\ row'.state \in States /\ row'.records \in Seq(Record)
  BY <1>0, <1>1, <1>4 DEF Books, TypeOK, States
<1>6. ASSUME probe' \in [Hosts -> Idle \union AtWork \union {"queued"}],
             Active(probe') \subseteq Active(probe), done' \in Nat,
             done' + Cardinality(Active(probe')) <= total,
             DoneCounted'
      PROVE  Books'
  <2>1. done' \in 0..total
    <3>1. Cardinality(Active(probe')) \in Nat
      BY ActiveSets
    <3> QED
      BY <1>1, <1>6, <3>1
  <2>2. TypeOK'
    BY <1>0, <1>4, <1>5, <1>6, <2>1 DEF Books, TypeOK, States
  <2>3. Counted' /\ ReportedOnce'
    BY <1>0, <1>1, <1>4, <1>5, <1>6 DEF Counted, ReportedOnce
  <2>4. NothingYet' /\ Gathering' /\ MergedLast'
    BY <1>0 DEF NothingYet, Gathering, MergedLast
  <2> QED
    BY <1>6, <2>2, <2>3, <2>4 DEF Books
<1>7. CASE RunFinishes(stored)
  <2>1. /\ run = "gather" /\ ~raised /\ \A h \in Hosts : probe[h] \in Idle
        /\ probe' = probe /\ done' = done
    BY <1>7 DEF RunFinishes, Ends
  <2>2. Active(probe) = {} /\ Cardinality(Active(probe)) = 0
    BY <2>1, FS_EmptySet DEF Active
  <2>3. Chosen(probe) = Over(probe)
    BY <2>1 DEF Chosen, Over, Idle
  <2>4. /\ total = Cardinality(Over(probe)) /\ done = total
        /\ Over(probe) \intersect Wildcards = {}
        /\ AllNamed(records) = WildcardsFound \union Over(probe)
    BY <1>1, <2>1, <2>2, <2>3 DEF Books, Gathering
  <2>5. Cardinality(AllNamed(records)) = Cardinality(WildcardsFound) + total
    <3>1. /\ IsFiniteSet(WildcardsFound) /\ IsFiniteSet(Over(probe))
          /\ WildcardsFound \in SUBSET Hosts
      BY HostSets, ActiveSets DEF Books, TypeOK, WildcardsFound
    <3>2. WildcardsFound \intersect Over(probe) = {}
      BY <2>4 DEF WildcardsFound
    <3>3. Cardinality(WildcardsFound \union Over(probe))
            = Cardinality(WildcardsFound) + Cardinality(Over(probe))
              - Cardinality(WildcardsFound \intersect Over(probe))
      BY <3>1, FS_Union
    <3>4. Cardinality(WildcardsFound) \in Nat /\ Cardinality(Over(probe)) \in Nat
      BY <3>1, FS_CardinalityType
    <3>5. Cardinality({}) = 0
      BY FS_EmptySet
    <3>6. Cardinality(WildcardsFound \intersect Over(probe)) = 0
      BY <3>2, <3>5
    <3>7. Cardinality(AllNamed(records)) = Cardinality(WildcardsFound \union Over(probe))
      BY <2>4
    <3> QED
      BY <2>4, <3>3, <3>4, <3>6, <3>7
  <2>6. Cardinality(WildcardsFound) \in Nat
    BY HostSets DEF Books, TypeOK, WildcardsFound
  <2>7. DoneCounted'
    BY <1>0, <1>1, <1>4, <2>1, <2>2, <2>4, <2>5, <2>6 DEF DoneCounted, WildcardsFound
  <2> QED
    BY <1>1, <1>6, <2>1, <2>7
<1>8. CASE RunFails(stored)
  <2>1. probe' = probe /\ done' = done /\ state' = "failed"
    BY <1>8 DEF RunFails, Ends
  <2> QED
    BY <1>1, <1>6, <2>1 DEF DoneCounted
<1>9. CASE RunTimesOut(stored)
  <2> DEFINE w == {h \in Hosts : probe[h] \in AtWork}
  <2>1. /\ state' = "partial_timeout"
        /\ probe' = IF raised THEN probe
                    ELSE [h \in Hosts |-> IF probe[h] = "none" THEN "none" ELSE "over"]
        /\ done' = IF raised THEN done ELSE done + Cardinality(w)
    BY <1>9 DEF RunTimesOut, Ends
  <2>2. CASE raised
    BY <1>1, <1>6, <2>1, <2>2 DEF DoneCounted
  <2>3. CASE ~raised
    <3>1. Active(probe') = {} /\ Cardinality({}) = 0
          /\ probe' \in [Hosts -> Idle \union AtWork \union {"queued"}]
      BY <2>1, <2>3, FS_EmptySet DEF Active, Idle
    <3>2. w \in SUBSET Active(probe)
      BY DEF Active, Idle, AtWork
    <3>3. Cardinality(w) \in Nat /\ Cardinality(w) <= Cardinality(Active(probe))
      BY <3>2, ActiveSets, FS_Subset, FS_CardinalityType
    <3> HIDE DEF w
    <3>4. done' \in Nat /\ done' + 0 <= total
      BY <1>1, <2>1, <2>3, <3>3
    <3> QED
      BY <1>6, <2>1, <3>1, <3>4 DEF DoneCounted
  <2> QED
    BY <2>2, <2>3
<1> QED
  BY <1>7, <1>8, <1>9

LEMMA BooksStep == Books /\ Settled /\ [Next]_vars => Books'
<1> SUFFICES ASSUME Books, Settled, [Next]_vars PROVE Books'
  OBVIOUS
<1>1. CASE Evict
  <2>1. /\ UNCHANGED <<state, total, done, records, run, probe, raised, found, row>>
        /\ known' = FALSE
    BY <1>1 DEF Evict, job, tasks
  <2> QED
    BY <2>1 DEF Books, TypeOK, NothingYet, Counted, Gathering, MergedLast, ReportedOnce,
       DoneCounted, WildcardsFound
<1>2. CASE Restart
  <2>1. /\ UNCHANGED <<state, total, done, records, found, row>> /\ known' = FALSE
        /\ run' = "lost" /\ raised' = FALSE /\ probe' = [h \in Hosts |-> "none"]
    BY <1>2 DEF Restart, job
  <2>2. Active(probe') = {} /\ Cardinality({}) = 0
    BY <2>1, FS_EmptySet DEF Active, Idle
  <2>3. TypeOK'
    <3>1. probe' \in [Hosts -> Idle \union AtWork \union {"queued"}]
      BY <2>1 DEF Idle
    <3> QED
      BY <2>1, <3>1 DEF Books, TypeOK
  <2>4. Counted'
    <3>1. total \in Nat /\ done \in Nat /\ done <= total
      BY BoundsAssumption DEF Books, TypeOK
    <3> QED
      BY <2>1, <2>2, <3>1 DEF Counted
  <2> QED
    BY <2>1, <2>2, <2>3, <2>4 DEF Books, NothingYet, Gathering, MergedLast, ReportedOnce,
       DoneCounted, WildcardsFound
<1>3. CASE UNCHANGED vars
  BY <1>3 DEF vars, job, tasks, Books, TypeOK, NothingYet, Counted, Gathering, MergedLast,
     ReportedOnce, DoneCounted, WildcardsFound
<1> QED
  BY <1>1, <1>2, <1>3, BooksEarly, BooksProbesStart, BooksProbe, BooksEnds DEF Next, RunStep

THEOREM BooksAreKept == RoutesSpec => []Books
<1>1. RoutesInit => Books
  BY BooksInit DEF RoutesInit
<1> QED
  BY <1>1, BooksStep, RoutesSettle, StepIsOfTheScan, PTL DEF RoutesSpec

\* A scan that says it is done leaves nobody out: every host it chose was probed and
\* counted, and every one of them and every wildcard is in the inventory, for every
\* set of hosts, every limit and whatever fails or is restarted on the way.
THEOREM DoneLeavesNobodyOut == RoutesSpec => []DoneCoversHosts
<1>1. Books /\ Settled => DoneCoversHosts
  <2> SUFFICES ASSUME Books, Settled, View.state = "done"
               PROVE  /\ View.done = View.total
                      /\ View.total + Cardinality(WildcardsFound)
                           = Cardinality(AllNamed(View.records))
    BY DEF DoneCoversHosts, WildcardsFound, AllNamed
  <2>1. View = Snapshot(state, total, done, records) /\ state = "done"
    BY DEF View, Snapshot, Settled
  <2> QED
    BY <2>1 DEF Books, DoneCounted, Snapshot
<1> QED
  BY <1>1, BooksAreKept, RoutesSettle, PTL

\* No host is reported twice, also when the tasks of a gather that an exception has
\* completed go on after the inventory was made.
THEOREM EveryHostOnce == RoutesSpec => []HostsReportedOnce
<1>1. Books => HostsReportedOnce
  BY DEF Books, ReportedOnce, Apart, HostsReportedOnce, View, Snapshot
<1> QED
  BY <1>1, BooksAreKept, PTL

\* The scan, the limiter and the stream keep their types.
THEOREM RoutesTypeCorrect == RoutesSpec => []RoutesTypeOK
<1> DEFINE Streams == /\ stream \in Streaming \union {"closed", "ended"}
                      /\ source \in {"none", "memory", "row"}
                      /\ shown.state \in Ended \union {"none"}
<1>1. RoutesInit => Streams
  BY DEF RoutesInit, NoRow
<1>2. Streams /\ [RoutesNext]_routes => Streams'
  <2> SUFFICES ASSUME Streams, [RoutesNext]_routes PROVE Streams'
    OBVIOUS
  <2>1. CASE UNCHANGED streams
    BY <2>1 DEF streams
  <2>2. CASE StreamOpens
    BY <2>2 DEF StreamOpens, NoRow, Streaming
  <2>3. CASE StreamSends
    BY <2>3 DEF StreamSends, NoRow, Streaming
  <2>4. CASE StreamEnds \/ StreamSleeps \/ StreamExpires \/ ClientLeaves \/ ServerRestarts
    BY <2>4 DEF StreamEnds, StreamSleeps, StreamExpires, ClientLeaves, ServerRestarts,
       Streaming
  <2> HIDE DEF Streams
  <2> QED
    BY <2>1, <2>2, <2>3, <2>4, Zenon
       DEF RoutesNext, StreamStep, RequestCounted, RequestRefused, Waits, ScanRequested,
       routes
<1>3. Books /\ LInv /\ Streams => RoutesTypeOK
  BY DEF Books, LInv, RoutesTypeOK
<1> HIDE DEF Streams
<1>4. RoutesSpec => []Streams
  BY <1>1, <1>2, PTL DEF RoutesSpec
<1>5. RoutesSpec => []LInv
  BY RoutesUseTheLimiter, LimiterInvariant, PTL
<1> QED
  BY <1>3, <1>4, <1>5, BooksAreKept, PTL
=============================================================================
