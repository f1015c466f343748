----------------------- MODULE RenewalSchedulerProofs -----------------------
(***************************************************************************)
(* Proofs about RenewalScheduler, for every set of domains and of checkers *)
(* and every bound.  A step leaves the rows alone, opens a new one,        *)
(* changes one that somebody works on, or ends them all with the process:  *)
(* the invariant is proved for these four.  With one checker, what it      *)
(* leaves between two attempts follows from what the backoff is: a         *)
(* doubling that only grows.                                               *)
(***************************************************************************)
EXTENDS RenewalScheduler, SequenceTheorems, FiniteSetTheorems, TLAPS

USE RenewableAssumption, BackgroundAssumption, MaxRetriesAssumption, ClockAssumption,
    BoundsAssumption

\* The coroutine of the job has not closed the row.
Live(r) == r.task # "ended"

\* It is at it, and keeps the loop.
IsClosing(r) == r.task \notin {"waiting", "ended"}

NobodyHolds == \A c \in Checkers : checker[c] \notin {"listing", "pass"}

\* What a row keeps of the one it was.
SameRow(r, q) == r.domain = q.domain /\ r.trigger = q.trigger /\ r.created = q.created

\* Row q becomes r: it is closed by its coroutine, corrected by an orphan, or its
\* job moves on.
Becomes(q, r) ==
  \/ r.state = q.state /\ r.finished = q.finished
  \/ r.state = "done"
  \/ Live(q) /\ ~Live(r) /\ r.state \in {"failed", "awaiting_dns"} /\ r.finished = now

Opens(d, t) == rows' = NewRow(d, t)

\* The job of row i makes a step.
Moves(q, r) ==
  /\ SameRow(r, q) /\ Becomes(q, r)
  /\ Live(r) => Live(q)
  /\ r.task = "waiting" => /\ q.task = "waiting" /\ r.state = q.state
                           /\ r.outcome = q.outcome /\ r.thread # "correcting"
  /\ IsClosing(r) => IsClosing(q) \/ NobodyHolds

Changes(i) == \E r \in Row : rows' = [rows EXCEPT ![i] = r] /\ Moves(rows[i], r)

\* The process dies.
AllEnd ==
  /\ DOMAIN rows' = DOMAIN rows
  /\ rows' \in Seq(Row)
  /\ \A i \in DOMAIN rows :
       /\ SameRow(rows'[i], rows[i])
       /\ rows'[i].state = rows[i].state /\ rows'[i].finished = rows[i].finished
       /\ ~Live(rows'[i])

\* history.finish on the way of row i to r, written or refused.
LEMMA FinishChanges ==
  ASSUME NEW i \in DOMAIN rows, NEW r \in Row, NEW s \in Closings, now \in Nat,
         Finish(i, s, r), SameRow(r, rows[i]), r.task # "waiting",
         r.state = rows[i].state, r.finished = rows[i].finished,
         Live(r) => Live(rows[i]), IsClosing(r) => IsClosing(rows[i]),
         s = "done" \/ (Live(rows[i]) /\ ~Live(r))
  PROVE  Changes(i)
<1> DEFINE w == [r EXCEPT !.state = s, !.finished = now]
<1>1. CASE rows' = [rows EXCEPT ![i] = r]
  BY <1>1 DEF Changes, Moves, Becomes
<1>2. CASE rows' = [rows EXCEPT ![i] = w]
  <2>1. /\ w \in Row /\ w.task = r.task /\ w.state = s /\ w.finished = now
        /\ w.domain = r.domain /\ w.trigger = r.trigger /\ w.created = r.created
    BY DEF Row, RowStates
  <2>2. Moves(rows[i], w)
    BY <2>1 DEF Moves, Becomes, SameRow, Live, IsClosing, Closings
  <2> QED
    BY <1>2, <2>1, <2>2 DEF Changes
<1> QED
  BY <1>1, <1>2 DEF Finish

\* A step of a thread, or of a coroutine before it writes: r is the new row.
LEMMA QuietChanges ==
  ASSUME TypeOK, RowsAreSound, NEW i \in DOMAIN rows,
         NEW place \in ThreadPlaces, NEW task \in TaskPlaces,
         NEW outcome \in {"working", "done", "failed"},
         rows' = [rows EXCEPT ![i] = [rows[i] EXCEPT !.thread = place, !.task = task,
                                                     !.outcome = outcome]],
         task = "ended" <=> rows[i].task = "ended",
         task = "waiting" =>
           rows[i].task = "waiting" /\ outcome = rows[i].outcome /\ place # "correcting",
         task \notin {"waiting", "ended"} => IsClosing(rows[i]) \/ NobodyHolds
  PROVE  Changes(i)
<1>1. rows[i] \in Row
  BY LenProperties, ElementOfSeq DEF TypeOK
<1> DEFINE r == [rows[i] EXCEPT !.thread = place, !.task = task, !.outcome = outcome]
<1>2. /\ r \in Row /\ r.task = task /\ r.outcome = outcome /\ r.thread = place
      /\ SameRow(r, rows[i])
      /\ r.state = rows[i].state /\ r.finished = rows[i].finished
  BY <1>1 DEF Row, SameRow
<1>3. Moves(rows[i], r)
  BY <1>2 DEF Moves, Becomes, Live, IsClosing
<1> QED
  BY <1>2, <1>3 DEF Changes

LEMMA JobStepChanges ==
  ASSUME TypeOK, RowsAreSound, NEW i \in DOMAIN rows, JobStep(i) \/ ConfirmedLate(i)
  PROVE  Changes(i)
<1>1. rows[i] \in Row /\ now \in Nat
  BY LenProperties, ElementOfSeq DEF TypeOK
<1> DEFINE q == rows[i]
<1>2. /\ q.thread \in ThreadPlaces /\ q.task \in TaskPlaces
      /\ q.outcome \in {"working", "done", "failed"}
  BY <1>1 DEF Row
<1>3. ASSUME NEW s \in {"done", "failed"}, JobEnds(i, s) PROVE Changes(i)
  <2> DEFINE r == [q EXCEPT !.task = "ended", !.thread = "over", !.outcome = s]
  <2>1. /\ r \in Row /\ r.task = "ended" /\ SameRow(r, q)
        /\ r.state = q.state /\ r.finished = q.finished
    BY <1>1 DEF Row, SameRow, ThreadPlaces, TaskPlaces
  <2>2. Finish(i, s, r) /\ q.task = "waiting"
    BY <1>3 DEF JobEnds
  <2> HIDE DEF r
  <2> QED
    BY <1>1, <2>1, <2>2, FinishChanges DEF Live, IsClosing, Closings
<1>4. CASE RowClosed(i)
  <2> DEFINE r == [q EXCEPT !.task = "ended"]
  <2>1. /\ r \in Row /\ r.task = "ended" /\ SameRow(r, q)
        /\ r.state = q.state /\ r.finished = q.finished
    BY <1>1 DEF Row, SameRow, TaskPlaces
  <2>2. Finish(i, q.task, r) /\ q.task \in Closings
    BY <1>4 DEF RowClosed
  <2> HIDE DEF r
  <2> QED
    BY <1>1, <2>1, <2>2, FinishChanges DEF Live, IsClosing, Closings
<1>5. CASE RowCorrected(i)
  <2> DEFINE r == [q EXCEPT !.thread = "over"]
  <2>1. /\ r \in Row /\ r.task = q.task /\ SameRow(r, q) /\ r.outcome = q.outcome
        /\ r.state = q.state /\ r.finished = q.finished
    BY <1>1 DEF Row, SameRow, ThreadPlaces
  <2>2. Finish(i, "done", r) /\ q.thread = "correcting"
    BY <1>5 DEF RowCorrected
  <2> HIDE DEF r
  <2>3. q.task # "waiting"
    BY <2>2 DEF RowsAreSound
  <2> QED
    BY <1>1, <2>1, <2>2, <2>3, FinishChanges DEF Live, IsClosing, Closings
<1> DEFINE Quiet(place, task, outcome) ==
      rows' = [rows EXCEPT ![i] = [q EXCEPT !.thread = place, !.task = task,
                                            !.outcome = outcome]]
<1>6. ASSUME NEW place \in ThreadPlaces, rows' = [rows EXCEPT ![i].thread = place]
      PROVE  Quiet(place, q.task, q.outcome)
  BY <1>1, <1>6 DEF Row
<1>7. CASE CertificateOpened(i) \/ CertificateSaved(i) \/ OrphanRaises(i)
  <2>1. PICK place \in ThreadPlaces \ {"correcting"} :
          rows' = [rows EXCEPT ![i].thread = place]
    BY <1>7 DEF CertificateOpened, CertificateSaved, OrphanRaises, ThreadPlaces
  <2> QED
    BY <1>2, <1>6, <2>1, QuietChanges DEF IsClosing
<1>8. CASE JobTimesOut(i)
  <2>1. PICK place \in {q.thread, "over"} :
          rows' = [rows EXCEPT ![i].task = "marked", ![i].thread = place]
    BY <1>8 DEF JobTimesOut
  <2>2. Quiet(place, "marked", q.outcome)
    BY <1>1, <2>1 DEF Row
  <2>3. q.task = "waiting" /\ NobodyHolds
    BY <1>8 DEF JobTimesOut, LoopFree, NobodyHolds
  <2>4. place \in ThreadPlaces /\ "marked" \in TaskPlaces
    BY <1>2 DEF ThreadPlaces, TaskPlaces
  <2> QED
    BY <1>2, <2>2, <2>3, <2>4, QuietChanges
<1>9. CASE SetFailed(i)
  <2>1. Quiet(q.thread, "failing", "failed")
    BY <1>1, <1>9 DEF SetFailed, Row
  <2>2. q.task = "marked" /\ IsClosing(q) /\ "failing" \in TaskPlaces
    BY <1>9 DEF SetFailed, IsClosing, TaskPlaces
  <2> QED
    BY <1>2, <2>1, <2>2, QuietChanges
<1>10. CASE StateRead(i)
  <2>1. PICK s \in Closings : rows' = [rows EXCEPT ![i].task = s]
    BY <1>2, <1>10 DEF StateRead, Closings
  <2>2. Quiet(q.thread, s, q.outcome)
    BY <1>1, <2>1 DEF Row
  <2>3. /\ q.task = "failing" /\ IsClosing(q)
        /\ s \in TaskPlaces /\ s # "waiting" /\ s # "ended"
    BY <1>10, <2>1 DEF StateRead, IsClosing, TaskPlaces, Closings
  <2> QED
    BY <1>2, <2>2, <2>3, QuietChanges
<1>11. CASE OrphanAwaits(i) \/ ConfirmedLate(i)
  <2>1. Quiet(q.thread, q.task, "working") /\ q.task # "waiting"
    BY <1>1, <1>11 DEF OrphanAwaits, ConfirmedLate, Row
  <2> QED
    BY <1>2, <2>1, QuietChanges DEF IsClosing
<1>12. CASE OrphanFinds(i)
  <2>1. Quiet("correcting", q.task, "done") /\ q.task # "waiting"
    BY <1>1, <1>12 DEF OrphanFinds, Row
  <2> QED
    BY <1>2, <2>1, QuietChanges DEF IsClosing, ThreadPlaces
<1> QED
  BY <1>3, <1>4, <1>5, <1>7, <1>8, <1>9, <1>10, <1>11, <1>12 DEF JobStep, JobDone, JobFailed

\* What a restart leaves of the passes, whatever becomes of the rows.
LEMMA RestartResets ==
  ASSUME Restart
  PROVE  /\ restarts < MaxRestarts /\ restarts' = restarts + 1
         /\ checker' = [c \in Checkers |-> "idle"]
         /\ todo' = [c \in Checkers |-> {}]
         /\ waits' = [c \in Checkers |-> 0]
         /\ UNCHANGED <<now, issued, notices, faults>>
BY Zenon DEF Restart

LEMMA RestartEndsAll ==
  ASSUME TypeOK, Restart
  PROVE  AllEnd
<1>1. rows \in [1..Len(rows) -> Row] /\ Len(rows) \in Nat
  BY LenProperties DEF TypeOK
<1> DEFINE place(j) == IF j \in {"writing", "torn"} THEN "torn" ELSE "over"
<1>2. rows' = [i \in 1..Len(rows) |->
                 [rows[i] EXCEPT !.task = "ended", !.thread = place(@), !.outcome = "failed"]]
  BY <1>1 DEF Restart
<1>3. \A i \in 1..Len(rows) :
        /\ rows'[i] \in Row /\ SameRow(rows'[i], rows[i])
        /\ rows'[i].state = rows[i].state /\ rows'[i].finished = rows[i].finished
        /\ ~Live(rows'[i])
  BY <1>1, <1>2 DEF Row, SameRow, ThreadPlaces, TaskPlaces, Live
<1>4. rows' \in [1..Len(rows) -> Row]
  BY <1>2, <1>3
<1>5. rows' \in Seq(Row)
  BY <1>1, <1>4, SeqDef
<1> QED
  BY <1>1, <1>2, <1>3, <1>5 DEF AllEnd
------------------------------------------------------------------------------
(* The attempts since the last success.                                    *)

Scheduled(d) == {i \in SinceStanding(d) : rows[i].trigger = "scheduler"}

LEMMA RowOpened ==
  ASSUME TypeOK, NEW d \in Domains, NEW t \in Triggers, Opens(d, t)
  PROVE  /\ rows' \in Seq(Row) /\ Len(rows') = Len(rows) + 1
         /\ DOMAIN rows' = 1..(Len(rows) + 1)
         /\ \A i \in 1..Len(rows) : rows'[i] = rows[i]
         /\ rows'[Len(rows) + 1].domain = d /\ rows'[Len(rows) + 1].trigger = t
         /\ rows'[Len(rows) + 1].state = "running"
         /\ rows'[Len(rows) + 1].outcome = "working"
         /\ rows'[Len(rows) + 1].task = "waiting"
         /\ rows'[Len(rows) + 1].thread = "issuing"
         /\ rows'[Len(rows) + 1].created = now
<1> DEFINE r == [domain |-> d, trigger |-> t, state |-> "running", created |-> now,
                 finished |-> 0, thread |-> "issuing", task |-> "waiting",
                 outcome |-> "working"]
<1>1. rows \in Seq(Row) /\ r \in Row
  BY DEF TypeOK, Row, RowStates, ThreadPlaces, TaskPlaces
<1>2. rows' = Append(rows, r)
  BY DEF Opens, NewRow
<1> HIDE DEF r
<1>3. /\ rows' \in Seq(Row) /\ Len(rows') = Len(rows) + 1
      /\ \A i \in 1..Len(rows) : rows'[i] = rows[i]
      /\ rows'[Len(rows) + 1] = r
  BY <1>1, <1>2, AppendProperties
<1>4. DOMAIN rows' = 1..(Len(rows) + 1)
  BY <1>3, LenProperties
<1> QED
  BY <1>3, <1>4 DEF r

LEMMA SinceStandingIsFinite ==
  ASSUME TypeOK, NEW d
  PROVE  /\ SinceStanding(d) \subseteq 1..Len(rows)
         /\ IsFiniteSet(SinceStanding(d)) /\ IsFiniteSet(Scheduled(d))
         /\ Cardinality(SinceStanding(d)) \in Nat
         /\ Cardinality(Scheduled(d)) <= Cardinality(SinceStanding(d))
<1>1. SinceStanding(d) \subseteq 1..Len(rows) /\ Len(rows) \in Nat
  BY LenProperties DEF TypeOK, SinceStanding
<1>2. IsFiniteSet(SinceStanding(d))
  <2>1. IsFiniteSet(1..Len(rows))
    BY <1>1, FS_Interval
  <2> QED
    BY <1>1, <2>1, FS_Subset
<1>3. Scheduled(d) \in SUBSET SinceStanding(d)
  BY DEF Scheduled
<1>4. IsFiniteSet(Scheduled(d)) /\ Cardinality(Scheduled(d)) <= Cardinality(SinceStanding(d))
  BY <1>2, <1>3, FS_Subset
<1> QED
  BY <1>1, <1>2, <1>4, FS_CardinalityType

\* What a pass reads of the history is what stands: no coroutine is closing a row.
LEMMA PassReadsWhatStands ==
  ASSUME TypeOK, RowsAreSound, OneHoldsTheLoop, NEW c \in Checkers, checker[c] = "pass", NEW d
  PROVE  SinceSuccess(d) = SinceStanding(d)
<1>1. \A k \in DOMAIN rows : rows[k].state = "done" => rows[k].task = "ended"
  BY DEF OneHoldsTheLoop, RowsAreSound
<1> QED
  BY <1>1 DEF SinceSuccess, SinceStanding

Stands(r) == r.state = "done" /\ r.task = "ended"

\* Nothing but a new row of the scheduler adds to what is counted: a success that
\* stands goes on standing.
LEMMA OthersAddNothing ==
  ASSUME TypeOK, RowsAreSound, NEW d,
         \/ UNCHANGED rows
         \/ \E e \in Domains : Opens(e, "manual")
         \/ \E i \in DOMAIN rows : Changes(i)
         \/ AllEnd
  PROVE  Scheduled(d)' \subseteq Scheduled(d)
<1>1. rows \in [1..Len(rows) -> Row] /\ Len(rows) \in Nat /\ DOMAIN rows = 1..Len(rows)
  BY LenProperties DEF TypeOK
<1>2. CASE UNCHANGED rows
  BY <1>2 DEF Scheduled, SinceStanding
<1>3. ASSUME NEW e \in Domains, Opens(e, "manual")
      PROVE  Scheduled(d)' \subseteq Scheduled(d)
  <2> DEFINE n == Len(rows) + 1
  <2>1. /\ DOMAIN rows' = 1..n
        /\ \A i \in 1..Len(rows) : rows'[i] = rows[i]
        /\ rows'[n].trigger = "manual"
    BY <1>3, RowOpened DEF Triggers
  <2> QED
    BY <1>1, <2>1 DEF Scheduled, SinceStanding
<1>4. ASSUME NEW j \in DOMAIN rows, Changes(j)
      PROVE  Scheduled(d)' \subseteq Scheduled(d)
  <2>1. PICK r \in Row : rows' = [rows EXCEPT ![j] = r] /\ Moves(rows[j], r)
    BY <1>4 DEF Changes
  <2>2. /\ DOMAIN rows' = DOMAIN rows
        /\ \A i \in DOMAIN rows :
             /\ rows'[i].domain = rows[i].domain /\ rows'[i].trigger = rows[i].trigger
             /\ rows[i].state = "done" /\ rows[i].task = "ended"
                  => rows'[i].state = "done" /\ rows'[i].task = "ended"
    BY <1>1, <2>1 DEF Moves, Becomes, SameRow, Live
  <2>3. SUFFICES ASSUME NEW k \in Scheduled(d)' PROVE k \in Scheduled(d)
    OBVIOUS
  <2>4. k \in DOMAIN rows /\ rows[k].domain = d /\ rows[k].trigger = "scheduler"
    <3>1. k \in DOMAIN rows' /\ rows'[k].domain = d /\ rows'[k].trigger = "scheduler"
      BY <2>3 DEF Scheduled, SinceStanding
    <3> QED
      BY <2>2, <3>1
  <2>5. ASSUME NEW i \in DOMAIN rows, i >= k, rows[i].domain = d
        PROVE  ~(rows[i].state = "done" /\ rows[i].task = "ended")
    <3>1. ~(rows'[i].state = "done" /\ rows'[i].task = "ended")
      <4>1. i \in DOMAIN rows' /\ rows'[i].domain = d
        BY <2>2, <2>5
      <4> QED
        BY <2>3, <2>5, <4>1 DEF Scheduled, SinceStanding
    <3> QED
      BY <2>2, <2>5, <3>1
  <2> QED
    BY <2>4, <2>5 DEF Scheduled, SinceStanding
<1>5. CASE AllEnd
  BY <1>5 DEF AllEnd, Scheduled, SinceStanding, SameRow, Live
<1> QED
  BY <1>2, <1>3, <1>4, <1>5

\* The scheduler opens a row only while fewer than MaxRetries are counted, whoever
\* opened those.
LEMMA AttemptAddsOne ==
  ASSUME TypeOK, NEW e \in Domains, Opens(e, "scheduler"),
         Cardinality(SinceStanding(e)) < MaxRetries, RetriesBounded, NEW d \in Domains
  PROVE  Cardinality(Scheduled(d)') <= MaxRetries
<1> DEFINE n == Len(rows) + 1
<1>1. rows \in [1..Len(rows) -> Row] /\ Len(rows) \in Nat /\ DOMAIN rows = 1..Len(rows)
  BY LenProperties DEF TypeOK
<1>2. /\ DOMAIN rows' = 1..n
      /\ \A i \in 1..Len(rows) : rows'[i] = rows[i]
      /\ rows'[n].domain = e
  BY RowOpened DEF Triggers
<1>3. IsFiniteSet(Scheduled(d)) /\ Cardinality(Scheduled(d)) \in Nat
  BY SinceStandingIsFinite, FS_CardinalityType
<1>4. CASE d = e
  <2>1. Scheduled(d)' \subseteq Scheduled(d) \union {n}
    <3>1. SUFFICES ASSUME NEW k \in Scheduled(d)', k # n PROVE k \in Scheduled(d)
      OBVIOUS
    <3>2. k \in 1..Len(rows)
      BY <1>1, <1>2, <3>1 DEF Scheduled, SinceStanding
    <3>3. rows[k].domain = d /\ rows[k].trigger = "scheduler"
      BY <1>2, <3>2 DEF Scheduled, SinceStanding
    <3>4. \A i \in 1..Len(rows) : i >= k /\ rows[i].domain = d => ~Stands(rows[i])
      BY <1>1, <1>2 DEF Scheduled, SinceStanding, Stands
    <3> QED
      BY <1>1, <3>2, <3>3, <3>4 DEF Scheduled, SinceStanding, Stands
  <2>2. /\ IsFiniteSet(Scheduled(d) \union {n})
        /\ \/ Cardinality(Scheduled(d) \union {n}) = Cardinality(Scheduled(d)) + 1
           \/ Cardinality(Scheduled(d) \union {n}) = Cardinality(Scheduled(d))
    BY <1>3, FS_AddElement
  <2>3. Cardinality(Scheduled(d)) < MaxRetries
    BY <1>3, <1>4, SinceStandingIsFinite
  <2>4. Cardinality(Scheduled(d)') <= Cardinality(Scheduled(d) \union {n})
        /\ Cardinality(Scheduled(d)') \in Nat
        /\ Cardinality(Scheduled(d) \union {n}) \in Nat
    BY <2>1, <2>2, FS_Subset, FS_CardinalityType
  <2> QED
    BY <1>3, <2>2, <2>3, <2>4
<1>5. CASE d # e
  <2>1. Scheduled(d)' \subseteq Scheduled(d)
    BY <1>1, <1>2, <1>5 DEF Scheduled, SinceStanding
  <2>2. Cardinality(Scheduled(d)) <= MaxRetries
    BY DEF RetriesBounded, Scheduled
  <2>3. Cardinality(Scheduled(d)') <= Cardinality(Scheduled(d))
        /\ Cardinality(Scheduled(d)') \in Nat
    BY <1>3, <2>1, FS_Subset, FS_CardinalityType
  <2> QED
    BY <1>3, <2>2, <2>3
<1> QED
  BY <1>4, <1>5
------------------------------------------------------------------------------
(* IInv is inductive.  The parts of it that are about the rows follow from *)
(* what a step does to them.                                               *)

RowsStep ==
  \/ UNCHANGED rows
  \/ \E d \in Domains, t \in Triggers : Opens(d, t)
  \/ \E i \in DOMAIN rows : Changes(i)
  \/ AllEnd

LEMMA RowsStaySound ==
  ASSUME TypeOK, RowsAreSound, RowsStep
  PROVE  /\ rows' \in Seq(Row) /\ RowsAreSound'
         /\ Len(rows) \in Nat /\ Len(rows') \in Nat /\ Len(rows) <= Len(rows')
<1>1. rows \in [1..Len(rows) -> Row] /\ Len(rows) \in Nat /\ DOMAIN rows = 1..Len(rows)
  BY LenProperties DEF TypeOK
<1>2. CASE UNCHANGED rows
  BY <1>1, <1>2 DEF TypeOK, RowsAreSound
<1>3. ASSUME NEW d \in Domains, NEW t \in Triggers, Opens(d, t)
      PROVE  rows' \in Seq(Row) /\ RowsAreSound' /\ Len(rows') = Len(rows) + 1
  BY <1>1, <1>3, RowOpened DEF RowsAreSound
<1>4. ASSUME NEW i \in DOMAIN rows, Changes(i)
      PROVE  rows' \in Seq(Row) /\ RowsAreSound' /\ Len(rows') = Len(rows)
  <2>1. PICK r \in Row : rows' = [rows EXCEPT ![i] = r] /\ Moves(rows[i], r)
    BY <1>4 DEF Changes
  <2>2. rows' \in [1..Len(rows) -> Row]
    BY <1>1, <2>1
  <2>3. rows' \in Seq(Row) /\ Len(rows') = Len(rows)
    BY <1>1, <2>2, SeqDef, LenProperties
  <2>4. \A k \in DOMAIN rows : k # i => rows'[k] = rows[k]
    BY <1>1, <2>1
  <2>5. rows'[i] = r
    BY <1>1, <2>1
  <2> QED
    BY <1>1, <2>1, <2>2, <2>3, <2>4, <2>5 DEF RowsAreSound, Moves, Becomes, Live
<1>5. ASSUME AllEnd
      PROVE  rows' \in Seq(Row) /\ RowsAreSound' /\ Len(rows') = Len(rows)
  <2>1. rows' \in Seq(Row) /\ DOMAIN rows' = DOMAIN rows
    BY <1>5 DEF AllEnd
  <2>2. Len(rows') = Len(rows)
    BY <1>1, <2>1, LenProperties
  <2> QED
    BY <1>5, <2>1, <2>2 DEF AllEnd, RowsAreSound, Live
<1> QED
  BY <1>1, <1>2, <1>3, <1>4, <1>5 DEF RowsStep

LEMMA BoundStaysUnlessAttempted ==
  ASSUME TypeOK, RowsAreSound, RetriesBounded, NEW d \in Domains,
         \/ UNCHANGED rows
         \/ \E e \in Domains : Opens(e, "manual")
         \/ \E i \in DOMAIN rows : Changes(i)
         \/ AllEnd
  PROVE  Cardinality(Scheduled(d)') <= MaxRetries
<1>1. Cardinality(Scheduled(d)) <= MaxRetries /\ IsFiniteSet(Scheduled(d))
  BY SinceStandingIsFinite DEF RetriesBounded, Scheduled
<1>2. Scheduled(d)' \in SUBSET Scheduled(d)
  BY OthersAddNothing
<1>3. /\ Cardinality(Scheduled(d)') <= Cardinality(Scheduled(d))
      /\ Cardinality(Scheduled(d)') \in Nat /\ Cardinality(Scheduled(d)) \in Nat
  BY <1>1, <1>2, FS_Subset, FS_CardinalityType
<1> QED
  BY <1>1, <1>3

\* The steps of a pass that open no row and wait for nothing.
LEMMA LookingKeeps ==
  ASSUME IInv, NEW c \in Checkers, checker[c] # "waiting",
         NEW place \in {"idle", "listing", "pass"},
         place # "idle" => checker[c] \in {"listing", "pass"} \/ LoopFree,
         checker' = [checker EXCEPT ![c] = place],
         UNCHANGED <<now, issued, rows, waits, restarts>>, faults' \in 0..MaxFaults,
         todo' \in [Checkers -> SUBSET [domain : Domains, issued : 0..MaxTime]]
  PROVE  IInv'
<1>1. TypeOK'
  BY DEF IInv, TypeOK
<1>2. checker'[c] # "waiting" /\ \A e \in Checkers : e # c => checker'[e] = checker[e]
  BY DEF IInv, TypeOK
<1>3. WaitsAreSound' /\ RunningIsWatched'
  BY <1>2 DEF IInv, WaitsAreSound, RunningIsWatched
<1>4. RowsAreSound' /\ RetriesBounded'
  BY DEF IInv, RowsAreSound, RetriesBounded, SinceStanding
<1>5. OneHoldsTheLoop'
  <2>1. checker'[c] = place
    BY DEF IInv, TypeOK
  <2> QED
    BY <1>2, <2>1 DEF IInv, OneHoldsTheLoop, LoopFree
<1> QED
  BY <1>1, <1>3, <1>4, <1>5 DEF IInv

LEMMA PassKeeps ==
  ASSUME IInv, NEW c \in Checkers,
         \/ CheckStarts(c) \/ CheckLists(c) \/ CheckRaises(c) \/ CheckEnds(c)
         \/ \E cert \in todo[c] : \/ CertSkipped(c, cert)
                                  \/ ManualRenewalNotified(c, cert)
                                  \/ RetriesExhausted(c, cert)
                                  \/ PassCut(c, cert)
  PROVE  IInv'
<1> DEFINE Certs == SUBSET [domain : Domains, issued : 0..MaxTime]
<1>1. /\ checker \in [Checkers -> {"idle", "listing", "pass", "waiting"}]
      /\ todo \in [Checkers -> Certs] /\ faults \in 0..MaxFaults
      /\ issued \in [Domains -> 0..MaxTime]
  BY DEF IInv, TypeOK
<1>2. CASE CheckStarts(c) \/ CheckRaises(c) \/ CheckEnds(c)
  BY <1>1, <1>2, LookingKeeps DEF CheckStarts, CheckRaises, CheckEnds, bounds
<1>3. CASE CheckLists(c)
  <2>1. {[domain |-> d, issued |-> issued[d]] : d \in Domains} \in Certs
    BY <1>1
  <2>2. todo' \in [Checkers -> Certs]
    BY <1>1, <1>3, <2>1 DEF CheckLists
  <2> QED
    BY <1>1, <1>3, <2>2, LookingKeeps DEF CheckLists, bounds
<1>4. ASSUME NEW cert \in todo[c], \/ CertSkipped(c, cert)
                                  \/ ManualRenewalNotified(c, cert)
                                  \/ RetriesExhausted(c, cert)
      PROVE  IInv'
  <2>1. checker[c] = "pass" /\ todo' = [todo EXCEPT ![c] = @ \ {cert}]
    BY <1>4 DEF CertSkipped, ManualRenewalNotified, RetriesExhausted, Taken
  <2>2. UNCHANGED <<now, issued, rows, checker, waits, bounds>>
    BY <1>4 DEF CertSkipped, ManualRenewalNotified, RetriesExhausted
  <2>3. todo' \in [Checkers -> Certs]
    BY <1>1, <2>1
  <2>4. checker' = [checker EXCEPT ![c] = "pass"]
    BY <1>1, <2>1, <2>2
  <2> QED
    BY <1>1, <2>1, <2>2, <2>3, <2>4, LookingKeeps DEF bounds
<1>5. ASSUME NEW cert \in todo[c], PassCut(c, cert) PROVE IInv'
  <2>1. faults' \in 0..MaxFaults /\ todo' \in [Checkers -> Certs]
    BY <1>1, <1>5 DEF PassCut
  <2> QED
    BY <1>1, <1>5, <2>1, LookingKeeps DEF PassCut
<1> QED
  BY <1>2, <1>3, <1>4, <1>5
\* The scheduler opens a row and waits for it.
LEMMA AttemptKeeps ==
  ASSUME IInv, NEW c \in Checkers, NEW cert \in todo[c], RenewalAttempted(c, cert)
  PROVE  IInv'
<1> DEFINE n == Len(rows) + 1
<1>1. /\ cert.domain \in Domains /\ checker[c] = "pass" /\ c \in Checkers
      /\ todo' = [todo EXCEPT ![c] = @ \ {cert}]
  BY DEF RenewalAttempted, Taken, IInv, TypeOK
<1>2. Opens(cert.domain, "scheduler") /\ UNCHANGED <<now, issued, notices, bounds>>
  BY DEF RenewalAttempted, Opens
<1>3. checker' = [checker EXCEPT ![c] = "waiting"] /\ waits' = [waits EXCEPT ![c] = n]
  BY DEF RenewalAttempted
<1>4. /\ rows' \in Seq(Row) /\ RowsAreSound' /\ Len(rows) \in Nat
      /\ Len(rows') = n /\ DOMAIN rows' = 1..n /\ DOMAIN rows = 1..Len(rows)
      /\ \A i \in 1..Len(rows) : rows'[i] = rows[i]
  BY <1>1, <1>2, RowsStaySound, RowOpened, LenProperties
     DEF IInv, TypeOK, RowsStep, Triggers
<1>5. TypeOK'
  BY <1>1, <1>2, <1>3, <1>4 DEF IInv, TypeOK, bounds
<1>6. /\ checker'[c] = "waiting" /\ waits'[c] = n
      /\ \A e \in Checkers : e # c => checker'[e] = checker[e] /\ waits'[e] = waits[e]
      /\ \A e \in Checkers : waits[e] \in 0..Len(rows)
  BY <1>3 DEF IInv, TypeOK
<1>7. WaitsAreSound'
  BY <1>4, <1>6 DEF IInv, WaitsAreSound
<1>8. RunningIsWatched'
  <2>1. ASSUME NEW i \in 1..Len(rows), rows[i].trigger = "scheduler",
               rows[i].task # "ended"
        PROVE  \E e \in Checkers : checker'[e] = "waiting" /\ waits'[e] = i
    <3>1. PICK e \in Checkers : checker[e] = "waiting" /\ waits[e] = i
      BY <1>4, <2>1 DEF IInv, RunningIsWatched
    <3>2. e # c
      BY <1>1, <3>1
    <3> QED
      BY <1>6, <3>1, <3>2
  <2>2. ASSUME NEW e \in Checkers, NEW f \in Checkers, waits'[e] # 0, waits'[e] = waits'[f]
        PROVE  e = f
    BY <1>4, <1>6, <2>2 DEF IInv, RunningIsWatched
  <2> QED
    BY <1>4, <1>6, <2>1, <2>2 DEF RunningIsWatched
<1>9. RetriesBounded'
  <2>1. Cardinality(SinceStanding(cert.domain)) < MaxRetries
    BY <1>1, PassReadsWhatStands DEF RenewalAttempted, IInv
  <2>2. \A d \in Domains : Cardinality(Scheduled(d)') <= MaxRetries
    BY <1>1, <1>2, <2>1, AttemptAddsOne DEF IInv
  <2> QED
    BY <2>2 DEF RetriesBounded, Scheduled
<1>10. OneHoldsTheLoop'
  <2>1. rows'[n].task = "waiting"
    BY <1>1, <1>2, RowOpened DEF IInv, Triggers
  <2> QED
    BY <1>4, <1>6, <2>1 DEF IInv, OneHoldsTheLoop
<1> QED
  BY <1>4, <1>5, <1>7, <1>8, <1>9, <1>10 DEF IInv

\* A checker that goes on: the job it waited for is over.
LEMMA SeenKeeps ==
  ASSUME IInv, NEW c \in Checkers, AttemptSeen(c)
  PROVE  IInv'
<1>1. /\ checker[c] = "waiting" /\ LoopFree
      /\ rows[waits[c]].outcome # "working" \/ rows[waits[c]].task = "ended"
      /\ UNCHANGED <<now, issued, rows, todo, bounds>>
      /\ checker' = [checker EXCEPT ![c] = "pass"] /\ waits' = [waits EXCEPT ![c] = 0]
  BY DEF AttemptSeen, PollEnds
<1>2. TypeOK'
  <2>1. Len(rows) \in Nat
    BY LenProperties DEF IInv, TypeOK
  <2> QED
    BY <1>1, <2>1 DEF IInv, TypeOK, bounds
<1>3. /\ checker'[c] = "pass" /\ waits'[c] = 0
      /\ \A e \in Checkers : e # c => checker'[e] = checker[e] /\ waits'[e] = waits[e]
  BY <1>1 DEF IInv, TypeOK
<1>4. WaitsAreSound'
  BY <1>3 DEF IInv, WaitsAreSound
<1>5. RunningIsWatched'
  <2>1. ASSUME NEW i \in DOMAIN rows, rows[i].trigger = "scheduler",
               rows[i].task # "ended"
        PROVE  \E e \in Checkers : checker'[e] = "waiting" /\ waits'[e] = i
    <3>1. PICK e \in Checkers : checker[e] = "waiting" /\ waits[e] = i
      BY <2>1 DEF IInv, RunningIsWatched
    <3>2. rows[i].outcome = "working" /\ rows[i].task # "ended"
      BY <1>1, <2>1 DEF IInv, RowsAreSound, LoopFree
    <3>3. e # c
      BY <1>1, <3>1, <3>2
    <3> QED
      BY <1>3, <3>1, <3>3
  <2>2. ASSUME NEW e \in Checkers, NEW f \in Checkers, waits'[e] # 0, waits'[e] = waits'[f]
        PROVE  e = f
    BY <1>3, <2>2 DEF IInv, RunningIsWatched
  <2> QED
    BY <1>1, <2>1, <2>2 DEF RunningIsWatched
<1>6. RowsAreSound' /\ RetriesBounded' /\ OneHoldsTheLoop'
  BY <1>1 DEF IInv, RowsAreSound, RetriesBounded, SinceStanding, OneHoldsTheLoop, LoopFree
<1> QED
  BY <1>2, <1>4, <1>5, <1>6 DEF IInv

\* The steps of people, of the clock and of a job: no checker moves.
LEMMA OutsideKeeps ==
  ASSUME IInv,
         \/ Tick
         \/ \E d \in Domains : RenewedByPerson(d)
         \/ \E i \in DOMAIN rows : JobStep(i) \/ ConfirmedLate(i)
  PROVE  IInv'
<1>1. DOMAIN rows = 1..Len(rows) /\ Len(rows) \in Nat /\ rows \in [1..Len(rows) -> Row]
  BY LenProperties DEF IInv, TypeOK
<1>2. UNCHANGED <<checker, todo, waits, restarts>>
  BY DEF Tick, RenewedByPerson, bounds, JobStep, ConfirmedLate, CertificateOpened, CertificateSaved, JobDone, JobFailed,
     JobEnds, JobTimesOut, SetFailed, StateRead, RowClosed, OrphanAwaits, OrphanRaises,
     OrphanFinds, RowCorrected, Finish
<1>3. now' \in 0..MaxTime /\ faults' \in 0..MaxFaults /\ issued' \in [Domains -> 0..MaxTime]
  <2>1. CASE Tick
    BY <2>1 DEF Tick, bounds, IInv, TypeOK
  <2>2. CASE \E d \in Domains : RenewedByPerson(d)
    BY <2>2 DEF RenewedByPerson, bounds, IInv, TypeOK
  <2>3. CASE \E i \in DOMAIN rows : JobStep(i) \/ ConfirmedLate(i)
    <3>1. PICK i \in DOMAIN rows : JobStep(i) \/ ConfirmedLate(i)
      BY <2>3
    <3>2. now' = now
      BY <3>1 DEF JobStep, ConfirmedLate, CertificateOpened, CertificateSaved, JobDone, JobFailed,
         JobEnds, JobTimesOut, SetFailed, StateRead, RowClosed, OrphanAwaits, OrphanRaises,
         OrphanFinds, RowCorrected, Finish
    <3>3. faults' = faults \/ (faults < MaxFaults /\ faults' = faults + 1)
      BY <3>1 DEF bounds, JobStep, ConfirmedLate, CertificateOpened, CertificateSaved, JobDone, JobFailed,
         JobEnds, JobTimesOut, SetFailed, StateRead, RowClosed, OrphanAwaits, OrphanRaises,
         OrphanFinds, RowCorrected, Finish
    <3>4. issued' = issued \/ issued' = [issued EXCEPT ![rows[i].domain] = now]
      BY <3>1 DEF JobStep, ConfirmedLate, CertificateOpened, CertificateSaved, JobDone, JobFailed,
         JobEnds, JobTimesOut, SetFailed, StateRead, RowClosed, OrphanAwaits, OrphanRaises,
         OrphanFinds, RowCorrected, Finish
    <3>5. rows[i].domain \in Domains
      BY <1>1 DEF Row
    <3>6. now \in 0..MaxTime /\ issued \in [Domains -> 0..MaxTime] /\ faults \in 0..MaxFaults
      BY DEF IInv, TypeOK
    <3>7. issued' \in [Domains -> 0..MaxTime]
      BY <3>4, <3>5, <3>6
    <3> QED
      BY <3>2, <3>3, <3>6, <3>7
  <2> QED
    BY <2>1, <2>2, <2>3
<1>4. \/ UNCHANGED rows
      \/ \E d \in Domains : Opens(d, "manual")
      \/ \E i \in DOMAIN rows : Changes(i)
  BY JobStepChanges DEF Tick, RenewedByPerson, Opens, IInv
<1>5. /\ rows' \in Seq(Row) /\ RowsAreSound' /\ Len(rows') \in Nat
      /\ Len(rows) <= Len(rows')
  BY <1>4, RowsStaySound DEF RowsStep, Triggers, IInv
<1>6. TypeOK'
  BY <1>1, <1>2, <1>3, <1>5 DEF IInv, TypeOK
<1>7. ASSUME NEW k \in DOMAIN rows', rows'[k].trigger = "scheduler",
             Live(rows'[k])
      PROVE  k \in DOMAIN rows /\ rows[k].trigger = "scheduler" /\ Live(rows[k])
  <2>1. CASE UNCHANGED rows
    BY <1>7, <2>1
  <2>2. CASE \E d \in Domains : Opens(d, "manual")
    BY <1>1, <1>7, <2>2, RowOpened DEF IInv, Triggers
  <2>3. ASSUME NEW i \in DOMAIN rows, Changes(i)
        PROVE  k \in DOMAIN rows /\ rows[k].trigger = "scheduler" /\ Live(rows[k])
    BY <1>1, <1>7, <2>3 DEF Changes, Moves, SameRow
  <2> QED
    BY <1>4, <2>1, <2>2, <2>3
<1>8. WaitsAreSound' /\ RunningIsWatched'
  BY <1>2, <1>7 DEF IInv, WaitsAreSound, RunningIsWatched, Live
<1>9. RetriesBounded'
  BY <1>4, BoundStaysUnlessAttempted DEF RetriesBounded, Scheduled, IInv
<1>10. OneHoldsTheLoop'
  <2>1. CASE UNCHANGED rows
    BY <1>2, <2>1 DEF IInv, OneHoldsTheLoop
  <2>2. ASSUME NEW d \in Domains, Opens(d, "manual") PROVE OneHoldsTheLoop'
    BY <1>1, <1>2, <2>2, RowOpened DEF IInv, OneHoldsTheLoop, Triggers
  <2>3. ASSUME NEW i \in DOMAIN rows, Changes(i) PROVE OneHoldsTheLoop'
    BY <1>1, <1>2, <2>3 DEF IInv, OneHoldsTheLoop, Changes, Moves, IsClosing, NobodyHolds
  <2> QED
    BY <1>4, <2>1, <2>2, <2>3
<1> QED
  BY <1>5, <1>6, <1>8, <1>9, <1>10 DEF IInv

LEMMA RestartKeeps ==
  ASSUME IInv, Restart
  PROVE  IInv'
<1>1. AllEnd
  BY RestartEndsAll DEF IInv
<1>2. /\ rows' \in Seq(Row) /\ RowsAreSound' /\ Len(rows') \in Nat
  BY <1>1, RowsStaySound DEF RowsStep, IInv
<1>3. TypeOK'
  BY <1>2, RestartResets DEF IInv, TypeOK
<1>4. WaitsAreSound' /\ RunningIsWatched' /\ OneHoldsTheLoop'
  BY <1>1, RestartResets DEF AllEnd, WaitsAreSound, RunningIsWatched, OneHoldsTheLoop, Live
<1>5. RetriesBounded'
  BY <1>1, BoundStaysUnlessAttempted DEF RetriesBounded, Scheduled, IInv
<1> QED
  BY <1>2, <1>3, <1>4, <1>5 DEF IInv

LEMMA NextKeeps == IInv /\ [Next]_vars => IInv'
<1> SUFFICES ASSUME IInv, [Next]_vars PROVE IInv'
  OBVIOUS
<1>1. ASSUME NEW c \in Checkers, CheckStep(c) PROVE IInv'
  BY <1>1, PassKeeps, AttemptKeeps, SeenKeeps DEF CheckStep, PassStep
<1>2. CASE UNCHANGED vars
  <2>1. TypeOK' /\ RowsAreSound' /\ OneHoldsTheLoop'
    BY <1>2 DEF vars, bounds, IInv, TypeOK, RowsAreSound, OneHoldsTheLoop
  <2>2. WaitsAreSound' /\ RunningIsWatched'
    BY <1>2 DEF vars, IInv, WaitsAreSound, RunningIsWatched
  <2>3. RetriesBounded'
    BY <1>2, BoundStaysUnlessAttempted DEF vars, IInv, RetriesBounded, Scheduled
  <2> QED
    BY <2>1, <2>2, <2>3 DEF IInv
<1> QED
  BY <1>1, <1>2, OutsideKeeps, RestartKeeps DEF Next

LEMMA InitIsSound == Init => IInv
<1> SUFFICES ASSUME Init PROVE IInv
  OBVIOUS
<1>1. rows = <<>> /\ rows \in Seq(Row) /\ DOMAIN rows = {} /\ Len(rows) = 0
  BY EmptySeq DEF Init
<1>2. TypeOK
  BY <1>1 DEF Init, TypeOK
<1>3. RowsAreSound /\ OneHoldsTheLoop /\ WaitsAreSound /\ RunningIsWatched
  BY <1>1 DEF Init, RowsAreSound, OneHoldsTheLoop, WaitsAreSound, RunningIsWatched
<1>4. ASSUME NEW d \in Domains PROVE Cardinality(Scheduled(d)) <= MaxRetries
  <2>1. Scheduled(d) = {}
    BY <1>1 DEF SinceStanding, Scheduled
  <2>2. Cardinality(Scheduled(d)) = 0
    BY <2>1, FS_EmptySet, Zenon
  <2> QED
    BY <2>2
<1>5. RetriesBounded
  BY <1>4 DEF RetriesBounded, Scheduled
<1> QED
  BY <1>2, <1>3, <1>5 DEF IInv

\* The scheduler's rows, checkers and waits are sound in every state, however many
\* passes, people and restarts there are.
THEOREM SchedulerInvariant == Spec => []IInv
  BY InitIsSound, NextKeeps, PTL DEF Spec

\* Every variable of the scheduler keeps its type.
THEOREM SchedulerTypeCorrect == Spec => []TypeOK
<1>1. IInv => TypeOK
  BY DEF IInv
<1> QED
  BY <1>1, SchedulerInvariant, PTL

\* However many passes run at once, the scheduler starts at most MaxRetries attempts
\* on a domain since its last success.
THEOREM RetriesAreBounded == Spec => []RetriesBounded
<1>1. IInv => RetriesBounded
  BY DEF IInv
<1> QED
  BY <1>1, SchedulerInvariant, PTL

\* No attempt of the scheduler runs unwatched, and no two checkers wait for the same.
THEOREM RunningAttemptsAreWatched == Spec => []RunningIsWatched
<1>1. IInv => RunningIsWatched
  BY DEF IInv
<1> QED
  BY <1>1, SchedulerInvariant, PTL
------------------------------------------------------------------------------
(* The rows of a step that opens none.                                     *)

RowsGo ==
  /\ DOMAIN rows' = DOMAIN rows
  /\ \A i \in DOMAIN rows :
       /\ SameRow(rows'[i], rows[i]) /\ Becomes(rows[i], rows'[i])
       /\ Live(rows'[i]) => Live(rows[i])

LEMMA StepsOfRowsGo ==
  ASSUME TypeOK, UNCHANGED rows \/ (\E i \in DOMAIN rows : Changes(i)) \/ AllEnd
  PROVE  RowsGo
<1>1. CASE UNCHANGED rows
  BY <1>1 DEF RowsGo, SameRow, Becomes
<1>2. ASSUME NEW i \in DOMAIN rows, Changes(i) PROVE RowsGo
  <2>1. PICK r \in Row : rows' = [rows EXCEPT ![i] = r] /\ Moves(rows[i], r)
    BY <1>2 DEF Changes
  <2>2. rows \in [1..Len(rows) -> Row] /\ DOMAIN rows = 1..Len(rows)
    BY LenProperties DEF TypeOK
  <2>3. /\ DOMAIN rows' = DOMAIN rows /\ rows'[i] = r
        /\ \A k \in DOMAIN rows : k # i => rows'[k] = rows[k]
    BY <2>1, <2>2
  <2>4. ASSUME NEW k \in DOMAIN rows, k # i
        PROVE  SameRow(rows'[k], rows[k]) /\ Becomes(rows[k], rows'[k]) /\ rows'[k] = rows[k]
    BY <2>3, <2>4 DEF SameRow, Becomes
  <2> QED
    BY <2>1, <2>3, <2>4 DEF RowsGo, Moves
<1>3. CASE AllEnd
  BY <1>3 DEF AllEnd, RowsGo, Becomes
<1> QED
  BY <1>1, <1>2, <1>3
------------------------------------------------------------------------------
(* No failure is forgotten: the part of FailureIsNotified that no fairness *)
(* is needed for.                                                          *)

\* While the process lives, an attempt of the scheduler that no pass has reported yet
\* is waited for by a checker, which goes on only to report it.
NoFailureForgotten ==
  restarts = 0 =>
    \A i \in DOMAIN rows :
      rows[i].trigger = "scheduler" =>
        Reported(i) \/ \E c \in Checkers : checker[c] = "waiting" /\ waits[c] = i

\* What a checker waits for stays waited for, and what was reported stays reported.
LEMMA WaitingGoesOn ==
  ASSUME TypeOK, NoFailureForgotten, UNCHANGED <<waits, restarts>>,
         notices \subseteq notices', DOMAIN rows' = DOMAIN rows,
         \A i \in DOMAIN rows : rows'[i].trigger = rows[i].trigger,
         \A e \in Checkers : checker[e] = "waiting" => checker'[e] = "waiting"
  PROVE  NoFailureForgotten'
BY DEF NoFailureForgotten, Reported

\* A checker goes on only with the outcome of its row.
LEMMA SeenIsNotForgotten ==
  ASSUME IInv, NoFailureForgotten, NEW c \in Checkers, AttemptSeen(c)
  PROVE  NoFailureForgotten'
<1>1. /\ UNCHANGED <<rows, restarts>> /\ notices \subseteq notices'
      /\ <<"failed", waits[c]>> \in notices' \/ <<"renewed", waits[c]>> \in notices'
  BY DEF AttemptSeen, bounds
<1>2. \A e \in Checkers : e # c => checker'[e] = checker[e] /\ waits'[e] = waits[e]
  BY DEF AttemptSeen, IInv, TypeOK
<1>3. ASSUME restarts = 0, NEW i \in DOMAIN rows, rows[i].trigger = "scheduler",
             ~Reported(i)'
      PROVE  \E e \in Checkers : checker'[e] = "waiting" /\ waits'[e] = i
  <2>1. ~Reported(i)
    BY <1>1, <1>3 DEF Reported
  <2>2. PICK e \in Checkers : checker[e] = "waiting" /\ waits[e] = i
    BY <1>3, <2>1 DEF NoFailureForgotten
  <2>3. e # c
    BY <1>1, <1>3, <2>2 DEF Reported
  <2> QED
    BY <1>2, <2>2, <2>3
<1> QED
  BY <1>1, <1>3 DEF NoFailureForgotten

\* A new row is one that a person asked for or that its checker waits for.
LEMMA OpenedIsNotForgotten ==
  ASSUME IInv, NoFailureForgotten, NEW d \in Domains, NEW t \in Triggers, Opens(d, t),
         UNCHANGED <<notices, restarts>>,
         \A e \in Checkers : checker[e] = "waiting" =>
           checker'[e] = "waiting" /\ waits'[e] = waits[e],
         t = "scheduler" =>
           \E e \in Checkers : checker'[e] = "waiting" /\ waits'[e] = Len(rows) + 1
  PROVE  NoFailureForgotten'
<1>1. DOMAIN rows = 1..Len(rows) /\ Len(rows) \in Nat
  BY LenProperties DEF IInv, TypeOK
<1>2. /\ DOMAIN rows' = 1..(Len(rows) + 1) /\ rows'[Len(rows) + 1].trigger = t
      /\ \A i \in 1..Len(rows) : rows'[i] = rows[i]
  BY RowOpened DEF IInv
<1>3. \A i \in 1..(Len(rows) + 1) : i \in 1..Len(rows) \/ i = Len(rows) + 1
  BY <1>1
<1> QED
  BY <1>1, <1>2, <1>3 DEF NoFailureForgotten, Reported

LEMMA NoneForgottenStep ==
  IInv /\ NoFailureForgotten /\ [Next]_vars => NoFailureForgotten'
<1> SUFFICES ASSUME IInv, NoFailureForgotten, [Next]_vars PROVE NoFailureForgotten'
  OBVIOUS
<1>t. TypeOK /\ RowsAreSound
  BY DEF IInv
<1>1. ASSUME NEW c \in Checkers,
             \/ CheckStarts(c) \/ CheckLists(c) \/ CheckRaises(c) \/ CheckEnds(c)
             \/ \E cert \in todo[c] : \/ CertSkipped(c, cert)
                                      \/ ManualRenewalNotified(c, cert)
                                      \/ RetriesExhausted(c, cert)
                                      \/ PassCut(c, cert)
      PROVE  NoFailureForgotten'
  <2>1. UNCHANGED <<rows, waits, restarts>> /\ notices \subseteq notices'
    BY <1>1 DEF CheckStarts, CheckLists, CheckRaises, CheckEnds, CertSkipped,
       ManualRenewalNotified, RetriesExhausted, PassCut, bounds
  <2>2. /\ checker[c] # "waiting"
        /\ \/ UNCHANGED checker
           \/ \E place \in {"idle", "listing", "pass"} :
                checker' = [checker EXCEPT ![c] = place]
    BY <1>1 DEF CheckStarts, CheckLists, CheckRaises, CheckEnds, CertSkipped,
       ManualRenewalNotified, RetriesExhausted, PassCut, Taken
  <2>3. \A e \in Checkers : checker[e] = "waiting" => checker'[e] = "waiting"
    BY <1>t, <2>2 DEF TypeOK
  <2> QED
    BY <1>t, <2>1, <2>3, WaitingGoesOn
<1>2. ASSUME NEW c \in Checkers, NEW cert \in todo[c], RenewalAttempted(c, cert)
      PROVE  NoFailureForgotten'
  <2>1. /\ cert.domain \in Domains /\ Opens(cert.domain, "scheduler")
        /\ UNCHANGED <<notices, restarts>> /\ checker[c] = "pass"
    BY <1>2, <1>t DEF RenewalAttempted, Taken, TypeOK, Opens, bounds
  <2>2. \A e \in Checkers : e # c => checker'[e] = checker[e] /\ waits'[e] = waits[e]
    BY <1>2, <1>t DEF RenewalAttempted, TypeOK
  <2>3. checker'[c] = "waiting" /\ waits'[c] = Len(rows) + 1
    BY <1>2, <1>t DEF RenewalAttempted, TypeOK
  <2> QED
    BY <2>1, <2>2, <2>3, OpenedIsNotForgotten DEF Triggers
<1>3. ASSUME NEW d \in Domains, RenewedByPerson(d) PROVE NoFailureForgotten'
  BY <1>3, OpenedIsNotForgotten DEF RenewedByPerson, Opens, Triggers, bounds
<1>4. ASSUME NEW i \in DOMAIN rows, JobStep(i) \/ ConfirmedLate(i) PROVE NoFailureForgotten'
  <2>1. UNCHANGED <<checker, waits, notices, restarts>>
    BY <1>4 DEF bounds, JobStep, ConfirmedLate, CertificateOpened, CertificateSaved, JobDone,
       JobFailed, JobEnds, JobTimesOut, SetFailed, StateRead, RowClosed, OrphanAwaits,
       OrphanRaises, OrphanFinds, RowCorrected, Finish
  <2>2. RowsGo
    BY <1>4, <1>t, JobStepChanges, StepsOfRowsGo
  <2> QED
    BY <1>t, <2>1, <2>2, WaitingGoesOn DEF RowsGo, SameRow
<1>5. CASE Tick \/ UNCHANGED vars
  BY <1>5 DEF Tick, vars, bounds, NoFailureForgotten, Reported
<1>6. CASE Restart
  <2>1. restarts' > 0
    BY <1>6, <1>t, RestartResets DEF TypeOK
  <2> QED
    BY <2>1 DEF NoFailureForgotten
<1> QED
  BY <1>1, <1>2, <1>3, <1>4, <1>5, <1>6, SeenIsNotForgotten DEF Next, CheckStep, PassStep

\* No failure of the scheduler is dropped, however many passes run at once, people
\* renew and writes are refused: until it is notified, somebody waits to do so.
THEOREM NoneIsForgotten == Spec => []NoFailureForgotten
<1>1. Init => NoFailureForgotten
  BY EmptySeq DEF Init, NoFailureForgotten, Unreported
<1> QED
  BY <1>1, NoneForgottenStep, SchedulerInvariant, PTL DEF Spec

------------------------------------------------------------------------------
(* The history as the backoff reads it.                                    *)

\* Rows are never deleted or put on another domain.  A row whose coroutine has ended
\* says for good what it says, or is corrected to done; a success is only taken back
\* by the closing of its own coroutine, which an orphan was faster than.
RowCorrectedOnly(i) ==
  /\ i \in DOMAIN rows' /\ SameRow(rows'[i], rows[i])
  /\ rows[i].task = "ended" =>
       rows'[i].task = "ended" /\ rows'[i].state \in {rows[i].state, "done"}
  /\ rows[i].state = "done" /\ rows'[i].state # "done" =>
       rows[i].task # "ended" /\ rows'[i].task = "ended"

HistoryOnlyCorrected == [][\A i \in DOMAIN rows : RowCorrectedOnly(i)]_vars

LEMMA StepsOfRows ==
  ASSUME IInv, [Next]_vars
  PROVE  \/ UNCHANGED rows
         \/ \E d \in Domains, t \in Triggers : Opens(d, t)
         \/ \E i \in DOMAIN rows : Changes(i)
         \/ AllEnd
<1>1. ASSUME NEW c \in Checkers, NEW cert \in todo[c], RenewalAttempted(c, cert)
      PROVE  \E d \in Domains, t \in Triggers : Opens(d, t)
  BY <1>1 DEF RenewalAttempted, Taken, Opens, Triggers, IInv, TypeOK
<1>2. ASSUME NEW d \in Domains, RenewedByPerson(d) PROVE Opens(d, "manual")
  BY <1>2 DEF RenewedByPerson, Opens
<1>3. ASSUME NEW i \in DOMAIN rows, JobStep(i) \/ ConfirmedLate(i) PROVE Changes(i)
  BY <1>3, JobStepChanges DEF IInv
<1>4. CASE Restart
  BY <1>4, RestartEndsAll DEF IInv
<1>5. CASE \/ Tick \/ UNCHANGED vars
           \/ \E c \in Checkers :
                \/ CheckStarts(c) \/ CheckLists(c) \/ CheckRaises(c) \/ CheckEnds(c)
                \/ AttemptSeen(c)
                \/ \E cert \in todo[c] : \/ CertSkipped(c, cert)
                                         \/ ManualRenewalNotified(c, cert)
                                         \/ RetriesExhausted(c, cert)
                                         \/ PassCut(c, cert)
  BY <1>5 DEF Tick, vars, CheckStarts, CheckLists, CheckRaises, CheckEnds, AttemptSeen,
     CertSkipped, ManualRenewalNotified, RetriesExhausted, PassCut
<1> QED
  BY <1>1, <1>2, <1>3, <1>4, <1>5 DEF Next, CheckStep, PassStep, Triggers

\* attempts_since_last_success counts on it: what a pass has read of a closed row stays
\* true, or becomes a success.
THEOREM HistoryIsOnlyCorrected == Spec => HistoryOnlyCorrected
<1> DEFINE Corrected == \A i \in DOMAIN rows : RowCorrectedOnly(i)
<1>1. ASSUME IInv, [Next]_vars PROVE Corrected
  <2>1. CASE \E d \in Domains, t \in Triggers : Opens(d, t)
    <3>1. DOMAIN rows = 1..Len(rows) /\ Len(rows) \in Nat
      BY <1>1, LenProperties DEF IInv, TypeOK
    <3> QED
      BY <1>1, <2>1, <3>1, RowOpened DEF IInv, SameRow, RowCorrectedOnly
  <2>2. CASE UNCHANGED rows \/ (\E i \in DOMAIN rows : Changes(i)) \/ AllEnd
    <3>1. RowsGo
      BY <1>1, <2>2, StepsOfRowsGo DEF IInv
    <3> QED
      BY <3>1 DEF RowsGo, Becomes, Live, RowCorrectedOnly
  <2> QED
    BY <1>1, <2>1, <2>2, StepsOfRows
<1>2. IInv /\ [Next]_vars => [Corrected]_vars
  BY <1>1
<1> QED
  BY <1>2, SchedulerInvariant, PTL DEF Spec, HistoryOnlyCorrected

------------------------------------------------------------------------------
(* The backoff never shrinks as the attempts grow in number.               *)

LEMMA LeastNatural ==
  ASSUME NEW T \in SUBSET Nat, T # {}
  PROVE  \E n \in T : \A m \in T : n <= m
<1>1. PICK n \in T : \A m \in T : <<m, n>> \notin OpToRel(<, Nat)
  BY NatLessThanWellFounded, WFMin, Zenon
<1>2. \A m \in T : ~(m < n)
  BY <1>1 DEF OpToRel
<1> QED
  BY <1>2

\* f is 2 ** i for every i up to n.
PowersUpTo(f, n) ==
  f \in [0..n -> Nat] /\ f[0] = 1 /\ \A i \in 1..n : f[i] = 2 * f[i - 1]

LEMMA PowersExist == \A n \in Nat : \E f : PowersUpTo(f, n)
<1> DEFINE T == {n \in Nat : ~\E f : PowersUpTo(f, n)}
<1> SUFFICES ASSUME T # {} PROVE FALSE
  OBVIOUS
<1>1. PICK n \in T : \A m \in T : n <= m
  BY LeastNatural
<1>2. CASE n = 0
  <2> DEFINE f == [i \in 0..0 |-> 1]
  <2>1. f \in [0..0 -> Nat] /\ f[0] = 1 /\ 1..0 = {}
    OBVIOUS
  <2>2. PowersUpTo(f, 0)
    BY <2>1 DEF PowersUpTo
  <2> QED
    BY <1>1, <1>2, <2>2
<1>3. CASE n # 0
  <2>1. n \in Nat /\ n - 1 \in Nat /\ n - 1 \notin T
    BY <1>1, <1>3
  <2>2. PICK g : PowersUpTo(g, n - 1)
    BY <2>1
  <2> DEFINE f == [i \in 0..n |-> IF i = n THEN 2 * g[n - 1] ELSE g[i]]
  <2>3. /\ g \in [0..(n - 1) -> Nat] /\ g[0] = 1
        /\ \A i \in 1..(n - 1) : g[i] = 2 * g[i - 1]
    BY <2>2 DEF PowersUpTo
  <2>4. f \in [0..n -> Nat]
    <3>1. n - 1 \in 0..(n - 1) /\ \A i \in 0..n : i # n => i \in 0..(n - 1)
      BY <2>1
    <3> QED
      BY <2>3, <3>1
  <2>5. f[0] = 1 /\ \A i \in 1..n : f[i] = 2 * f[i - 1]
    BY <1>3, <2>1, <2>3
  <2> HIDE DEF f
  <2>6. PowersUpTo(f, n)
    BY <2>4, <2>5 DEF PowersUpTo
  <2> QED
    BY <1>1, <2>6
<1> QED
  BY <1>2, <1>3

LEMMA PowersAgree ==
  ASSUME NEW f, NEW g, NEW m \in Nat, NEW n \in Nat, PowersUpTo(f, m), PowersUpTo(g, n)
  PROVE  \A i \in Nat : i <= m /\ i <= n => f[i] = g[i]
<1> DEFINE T == {i \in Nat : i <= m /\ i <= n /\ f[i] # g[i]}
<1> SUFFICES ASSUME T # {} PROVE FALSE
  OBVIOUS
<1>1. PICK i \in T : \A j \in T : i <= j
  BY LeastNatural
<1>2. f[0] = 1 /\ g[0] = 1
  BY DEF PowersUpTo
<1>3. i \in Nat /\ i # 0 /\ i - 1 \in Nat /\ i - 1 \notin T
  BY <1>1, <1>2
<1>4. f[i - 1] = g[i - 1]
  BY <1>1, <1>3
<1>5. f[i] = 2 * f[i - 1] /\ g[i] = 2 * g[i - 1]
  BY <1>1, <1>3 DEF PowersUpTo
<1> QED
  BY <1>1, <1>4, <1>5

LEMMA TwoToIsPower ==
  /\ TwoTo \in [Nat -> Nat]
  /\ \A n \in Nat : TwoTo[n] <= TwoTo[n + 1]
<1> DEFINE up(n) == CHOOSE f : PowersUpTo(f, n)
           G == [n \in Nat |-> up(n)[n]]
<1>1. ASSUME NEW n \in Nat
      PROVE  PowersUpTo(up(n), n) /\ up(n)[n] \in Nat
  <2>1. PowersUpTo(up(n), n)
    BY PowersExist
  <2>2. n \in 0..n
    OBVIOUS
  <2> HIDE DEF up
  <2> QED
    BY <2>1, <2>2 DEF PowersUpTo
<1>2. ASSUME NEW n \in Nat
      PROVE  up(n)[n] = IF n = 0 THEN 1 ELSE 2 * up(n - 1)[n - 1]
  <2> HIDE DEF up
  <2>1. CASE n = 0
    BY <1>1, <2>1 DEF PowersUpTo
  <2>2. CASE n # 0
    <3>1. n - 1 \in Nat /\ n - 1 <= n - 1 /\ n - 1 <= n /\ n \in 1..n
      BY <2>2
    <3>2. up(n)[n] = 2 * up(n)[n - 1]
      BY <1>1, <3>1 DEF PowersUpTo
    <3>3. up(n)[n - 1] = up(n - 1)[n - 1]
      BY <1>1, <3>1, PowersAgree
    <3> QED
      BY <2>2, <3>2, <3>3
  <2> QED
    BY <2>1, <2>2
<1> HIDE DEF up
<1>3. G = [n \in Nat |-> IF n = 0 THEN 1 ELSE 2 * G[n - 1]]
  BY <1>2
<1>4. TwoTo = CHOOSE f : f = [n \in Nat |-> IF n = 0 THEN 1 ELSE 2 * f[n - 1]]
  BY DEF TwoTo
<1> HIDE DEF G
<1>5. TwoTo = [n \in Nat |-> IF n = 0 THEN 1 ELSE 2 * TwoTo[n - 1]]
  BY <1>3, <1>4, Zenon
<1>6. TwoTo \in [Nat -> Nat]
  <2> DEFINE T == {n \in Nat : TwoTo[n] \notin Nat}
  <2>1. SUFFICES ASSUME T # {} PROVE FALSE
    BY <1>5
  <2>2. PICK n \in T : \A j \in T : n <= j
    BY <2>1, LeastNatural
  <2>3. TwoTo[n] = IF n = 0 THEN 1 ELSE 2 * TwoTo[n - 1]
    BY <1>5
  <2>4. n # 0 => n - 1 \in Nat /\ n - 1 \notin T
    BY <2>2
  <2> QED
    BY <2>2, <2>3, <2>4
<1>7. ASSUME NEW n \in Nat PROVE TwoTo[n] <= TwoTo[n + 1]
  <2>1. TwoTo[n + 1] = 2 * TwoTo[n] /\ TwoTo[n] \in Nat
    BY <1>5, <1>6
  <2> QED
    BY <2>1
<1> QED
  BY <1>6, <1>7

LEMMA TwoToGrows ==
  ASSUME NEW m \in Nat, NEW n \in Nat, m <= n
  PROVE  TwoTo[m] <= TwoTo[n]
<1> DEFINE T == {k \in Nat : m <= k /\ ~(TwoTo[m] <= TwoTo[k])}
<1>1. SUFFICES ASSUME T # {} PROVE FALSE
  OBVIOUS
<1>2. PICK k \in T : \A j \in T : k <= j
  BY <1>1, LeastNatural
<1>3. \A j \in Nat : TwoTo[j] \in Nat /\ TwoTo[j] <= TwoTo[j + 1]
  BY TwoToIsPower
<1>4. k # m
  BY <1>2, <1>3
<1>5. k - 1 \in Nat /\ m <= k - 1 /\ k - 1 \notin T
  BY <1>2, <1>4
<1>6. TwoTo[m] <= TwoTo[k - 1] /\ TwoTo[k - 1] <= TwoTo[k - 1 + 1] /\ k - 1 + 1 = k
  BY <1>2, <1>3, <1>5
<1> QED
  BY <1>2, <1>3, <1>5, <1>6

\* An attempt that is one of more waits no less.
LEMMA BackoffGrows ==
  ASSUME NEW m \in Nat, NEW n \in Nat, 0 < m, m <= n
  PROVE  Backoff(m) \in Nat /\ Backoff(n) \in Nat /\ Backoff(m) <= Backoff(n)
<1>1. m - 1 \in Nat /\ n - 1 \in Nat /\ m - 1 <= n - 1
  OBVIOUS
<1>2. TwoTo[m - 1] \in Nat /\ TwoTo[n - 1] \in Nat /\ TwoTo[m - 1] <= TwoTo[n - 1]
  BY <1>1, TwoToGrows, TwoToIsPower
<1>3. \A a, b, c \in Nat : a <= b => c * a \in Nat /\ c * b \in Nat /\ c * a <= c * b
  OBVIOUS
<1>4. /\ BackoffBase * TwoTo[m - 1] \in Nat /\ BackoffBase * TwoTo[n - 1] \in Nat
      /\ BackoffBase * TwoTo[m - 1] <= BackoffBase * TwoTo[n - 1]
  BY <1>2, <1>3
<1> QED
  BY <1>4 DEF Backoff
------------------------------------------------------------------------------
(* With one checker the attempts of the scheduler are spread.              *)

Rank(d, i) == Cardinality({m \in SinceStanding(d) : m <= i})

Consecutive(d, i, k) == i < k /\ \A m \in SinceStanding(d) : ~(i < m /\ m < k)

\* How the attempt before another one was left.
Spread(d, i, k) ==
  \/ rows[i].state = "failed" /\ rows[k].created - rows[i].finished >= Backoff(Rank(d, i))
  \/ ~Live(rows[i]) /\ rows[i].state \in {"running", "awaiting_dns"}
  \/ /\ rows[i].trigger = "manual"
     /\ \/ Live(rows[i])
        \/ rows[i].state = "failed" /\ rows[i].finished >= rows[k].created

\* No row is from the future.
OpenRows == \A i \in DOMAIN rows : rows[i].created <= now

SpreadInv == IInv /\ OpenRows /\ AttemptsSpread

LEMMA AttemptsSpreadDef ==
  AttemptsSpread <=>
    \A d \in Renewable : \A i, k \in SinceStanding(d) :
      Consecutive(d, i, k) /\ rows[k].trigger = "scheduler" => Spread(d, i, k)
BY DEF AttemptsSpread, Spread, Rank, Consecutive, Live

\* The attempts that are left count no more than before, and lie next to each other
\* only if they did.
LEMMA FewerAreLeft ==
  ASSUME TypeOK, RowsGo, NEW d, NEW i \in SinceStanding(d)', NEW k \in SinceStanding(d)'
  PROVE  /\ i \in SinceStanding(d) /\ k \in SinceStanding(d)
         /\ Consecutive(d, i, k)' => Consecutive(d, i, k)
         /\ Backoff(Rank(d, i)') <= Backoff(Rank(d, i))
         /\ Backoff(Rank(d, i)') \in Nat /\ Backoff(Rank(d, i)) \in Nat
<1>1. \A m \in SinceStanding(d)' : m \in SinceStanding(d)
  <2>1. \A n \in DOMAIN rows : Stands(rows[n]) => Stands(rows'[n])
    BY DEF RowsGo, Becomes, Live, Stands
  <2> QED
    BY <2>1 DEF RowsGo, SinceStanding, SameRow, Stands
<1>2. SinceStanding(d) \subseteq 1..Len(rows) /\ IsFiniteSet(SinceStanding(d)) /\ Len(rows) \in Nat
  BY SinceStandingIsFinite, LenProperties DEF TypeOK
<1>3. ASSUME NEW m \in SinceStanding(d), m >= i
      PROVE  m \in SinceStanding(d)'
  <2>1. m \in DOMAIN rows' /\ rows'[m].domain = d
    BY DEF RowsGo, SinceStanding, SameRow
  <2>2. ASSUME NEW n \in DOMAIN rows', n >= m, rows'[n].domain = d
        PROVE  ~Stands(rows'[n])
    <3>1. m \in Int /\ n \in Int /\ i \in Int /\ n >= i
      BY <1>1, <1>2, <1>3, <2>2, LenProperties DEF RowsGo, TypeOK
    <3> QED
      BY <2>2, <3>1 DEF SinceStanding, Stands
  <2> QED
    BY <2>1, <2>2 DEF SinceStanding, Stands
<1>4. Consecutive(d, i, k)' => Consecutive(d, i, k)
  <2>1. i \in Int /\ \A m \in SinceStanding(d) : m \in Int
    BY <1>1, <1>2
  <2> QED
    BY <1>3, <2>1 DEF Consecutive
<1>5. /\ Backoff(Rank(d, i)') <= Backoff(Rank(d, i))
      /\ Backoff(Rank(d, i)') \in Nat /\ Backoff(Rank(d, i)) \in Nat
  <2> DEFINE A == {m \in SinceStanding(d)' : m <= i}
             B == {m \in SinceStanding(d) : m <= i}
  <2>1. A \in SUBSET B /\ B \in SUBSET SinceStanding(d) /\ i \in A
    BY <1>1, <1>2
  <2>2. IsFiniteSet(B) /\ IsFiniteSet(A) /\ Cardinality(A) <= Cardinality(B)
    BY <1>2, <2>1, FS_Subset
  <2>3. Cardinality(A) \in Nat /\ Cardinality(B) \in Nat /\ Cardinality(A) # 0
    BY <2>1, <2>2, FS_CardinalityType, FS_EmptySet
  <2>4. Rank(d, i)' = Cardinality(A) /\ Rank(d, i) = Cardinality(B)
    BY DEF Rank
  <2> HIDE DEF A, B
  <2>5. 0 < Cardinality(A)
    BY <2>3
  <2>6. /\ Backoff(Cardinality(A)) <= Backoff(Cardinality(B))
        /\ Backoff(Cardinality(A)) \in Nat /\ Backoff(Cardinality(B)) \in Nat
    BY <2>2, <2>3, <2>5, BackoffGrows
  <2> QED
    BY <2>4, <2>6
<1> QED
  BY <1>1, <1>4, <1>5

LEMMA SpreadStays ==
  ASSUME SpreadInv, RowsGo, now' \in Nat, now <= now'
  PROVE  OpenRows' /\ AttemptsSpread'
<1>1. /\ rows \in [1..Len(rows) -> Row] /\ DOMAIN rows = 1..Len(rows) /\ Len(rows) \in Nat
      /\ now \in Nat
  BY LenProperties DEF SpreadInv, IInv, TypeOK
<1>2. \A i \in DOMAIN rows : rows[i].created \in Nat /\ rows[i].finished \in Nat
  BY <1>1 DEF Row
<1>3. ASSUME NEW i \in DOMAIN rows PROVE rows'[i].created <= now'
  <2>1. rows'[i].created = rows[i].created /\ rows[i].created <= now
    BY DEF RowsGo, SameRow, SpreadInv, OpenRows
  <2> QED
    BY <1>1, <1>2, <2>1
<1>4. OpenRows'
  BY <1>3 DEF OpenRows, RowsGo
<1>5. ASSUME NEW d \in Renewable, NEW i \in SinceStanding(d)', NEW k \in SinceStanding(d)',
             Consecutive(d, i, k)', rows'[k].trigger = "scheduler"
      PROVE  Spread(d, i, k)'
  <2>1. /\ i \in SinceStanding(d) /\ k \in SinceStanding(d) /\ Consecutive(d, i, k)
        /\ Backoff(Rank(d, i)') <= Backoff(Rank(d, i))
        /\ Backoff(Rank(d, i)') \in Nat /\ Backoff(Rank(d, i)) \in Nat
    BY <1>5, FewerAreLeft DEF SpreadInv, IInv
  <2>2. i \in DOMAIN rows /\ k \in DOMAIN rows /\ ~Stands(rows'[i])
    <3>1. i \in DOMAIN rows' /\ rows'[i].domain = d
      BY DEF SinceStanding
    <3>2. i >= i
      BY <1>1, <2>1 DEF SinceStanding
    <3> QED
      BY <2>1, <3>1, <3>2 DEF SinceStanding, Stands
  <2>3. /\ SameRow(rows'[i], rows[i]) /\ Becomes(rows[i], rows'[i])
        /\ SameRow(rows'[k], rows[k])
        /\ Live(rows'[i]) => Live(rows[i])
    BY <2>2 DEF RowsGo
  <2>4. Spread(d, i, k)
    BY <1>5, <2>1, <2>3, AttemptsSpreadDef DEF SpreadInv, SameRow
  <2>5. /\ Live(rows[i]) => rows[i].state \in {"running", "done"}
        /\ rows[k].created <= now
        /\ rows[k].created \in Nat /\ rows[i].finished \in Nat
    BY <1>2, <2>2 DEF SpreadInv, OpenRows, IInv, RowsAreSound, Live
  <2>6. /\ rows'[k].created = rows[k].created /\ rows'[i].trigger = rows[i].trigger
    BY <2>3 DEF SameRow
  <2>7. CASE rows'[i].state = rows[i].state /\ rows'[i].finished = rows[i].finished
    <3>1. CASE rows[i].state = "failed"
               /\ rows[k].created - rows[i].finished >= Backoff(Rank(d, i))
      <4>1. rows[k].created - rows[i].finished >= Backoff(Rank(d, i)')
        BY <2>1, <2>5, <3>1
      <4> QED
        BY <2>6, <2>7, <3>1, <4>1 DEF Spread
    <3>2. CASE ~Live(rows[i]) /\ rows[i].state \in {"running", "awaiting_dns"}
      BY <2>3, <2>7, <3>2 DEF Spread
    <3>3. CASE rows[i].trigger = "manual" /\ Live(rows[i])
      <4>1. ~Live(rows'[i]) => rows'[i].state = "running"
        BY <2>2, <2>5, <2>7, <3>3 DEF Live, Stands
      <4> QED
        BY <2>6, <3>3, <4>1 DEF Spread
    <3>4. CASE rows[i].trigger = "manual" /\ rows[i].state = "failed"
               /\ rows[i].finished >= rows[k].created
      BY <2>6, <2>7, <3>4 DEF Spread
    <3> QED
      BY <2>4, <3>1, <3>2, <3>3, <3>4 DEF Spread
  <2>8. CASE Live(rows[i]) /\ rows'[i].state = "failed" /\ rows'[i].finished = now
    <3>1. rows[i].trigger = "manual"
      BY <2>4, <2>5, <2>8 DEF Spread
    <3>2. rows'[i].finished >= rows'[k].created
      BY <1>1, <2>5, <2>6, <2>8
    <3> QED
      BY <2>6, <2>8, <3>1, <3>2 DEF Spread
  <2>9. CASE ~Live(rows'[i]) /\ rows'[i].state = "awaiting_dns"
    BY <2>9 DEF Spread
  <2>10. CASE rows'[i].state = "done"
    <3>1. Live(rows'[i]) /\ Live(rows[i])
      BY <2>2, <2>3, <2>10 DEF Stands, Live
    <3>2. rows'[i].trigger = "manual"
      BY <2>4, <2>5, <2>6, <3>1 DEF Spread
    <3> QED
      BY <3>1, <3>2 DEF Spread
  <2> QED
    BY <2>3, <2>7, <2>8, <2>9, <2>10 DEF Becomes
<1>6. AttemptsSpread'
  BY <1>5 DEF AttemptsSpread, Spread, Rank, Consecutive, Live
<1> QED
  BY <1>4, <1>6

\* The scheduler opens a row only when it does not back off and nothing of its own is at
\* work.
LEMMA SpreadOpened ==
  ASSUME SpreadInv, NEW e \in Domains, NEW t \in Triggers, Opens(e, t), now' = now,
         t = "scheduler" =>
           /\ ~BackingOff(e) /\ SinceSuccess(e) = SinceStanding(e)
           /\ \A i \in DOMAIN rows : Live(rows[i]) => rows[i].trigger = "manual"
  PROVE  OpenRows' /\ AttemptsSpread'
<1> DEFINE n == Len(rows) + 1
<1>1. /\ rows \in [1..Len(rows) -> Row] /\ DOMAIN rows = 1..Len(rows) /\ Len(rows) \in Nat
      /\ now \in Nat
  BY LenProperties DEF SpreadInv, IInv, TypeOK
<1>2. /\ DOMAIN rows' = 1..n /\ \A i \in 1..Len(rows) : rows'[i] = rows[i]
      /\ rows'[n].domain = e /\ rows'[n].trigger = t
      /\ rows'[n].state = "running" /\ rows'[n].created = now
  BY RowOpened DEF SpreadInv, IInv
<1>3. n \in Nat /\ n \notin DOMAIN rows /\ \A i \in 1..n : i \in 1..Len(rows) \/ i = n
  BY <1>1
<1> HIDE DEF n
<1>4. OpenRows'
  BY <1>1, <1>2, <1>3 DEF OpenRows, SpreadInv
<1>5. ASSUME NEW d \in Renewable
      PROVE  /\ \A i \in SinceStanding(d)' : i \in SinceStanding(d) \/ (i = n /\ d = e)
             /\ \A i \in SinceStanding(d) : i \in SinceStanding(d)' /\ i \in 1..Len(rows)
             /\ \A i \in SinceStanding(d) : i < n
  <2>1. ASSUME NEW i \in SinceStanding(d)', ~(i = n /\ d = e) PROVE i \in SinceStanding(d)
    <3>1. i \in 1..Len(rows) /\ rows[i].domain = d
      BY <1>2, <1>3, <2>1 DEF SinceStanding
    <3>2. ASSUME NEW m \in 1..Len(rows), m >= i, rows[m].domain = d
          PROVE  ~Stands(rows[m])
      <4>1. m \in DOMAIN rows' /\ rows'[m] = rows[m]
        BY <1>2, <1>3, <3>2 DEF n
      <4> QED
        BY <3>2, <4>1 DEF SinceStanding, Stands
    <3> QED
      BY <1>1, <3>1, <3>2 DEF SinceStanding, Stands
  <2>2. ASSUME NEW i \in SinceStanding(d)
        PROVE  i \in SinceStanding(d)' /\ i \in 1..Len(rows)
    <3>1. i \in 1..Len(rows) /\ i \in DOMAIN rows' /\ rows'[i].domain = d
      BY <1>1, <1>2, <1>3 DEF SinceStanding, n
    <3>2. ASSUME NEW m \in DOMAIN rows', m >= i, rows'[m].domain = d
          PROVE  ~Stands(rows'[m])
      BY <1>1, <1>2, <1>3, <3>2 DEF SinceStanding, Stands
    <3> QED
      BY <3>1, <3>2 DEF SinceStanding, Stands
  <2>3. \A i \in 1..Len(rows) : i < n
    BY <1>1 DEF n
  <2> QED
    BY <2>1, <2>2, <2>3
<1>6. ASSUME NEW d \in Renewable, NEW i \in SinceStanding(d)', NEW k \in SinceStanding(d)',
             Consecutive(d, i, k)', rows'[k].trigger = "scheduler"
      PROVE  Spread(d, i, k)'
  <2>1. i < k /\ \A m \in SinceStanding(d)' : ~(i < m /\ m < k)
    BY <1>6 DEF Consecutive
  <2>2. i \in SinceStanding(d) /\ i \in 1..Len(rows) /\ i # n
    BY <1>1, <1>3, <1>5, <2>1 DEF n
  <2>3. rows'[i] = rows[i] /\ rows[i] \in Row
    BY <1>1, <1>2, <2>2
  <2>4. CASE k # n
    <3>1. k \in SinceStanding(d) /\ rows'[k] = rows[k]
      BY <1>2, <1>5, <2>4
    <3>2. Consecutive(d, i, k)
      BY <1>5, <2>1 DEF Consecutive
    <3>3. Spread(d, i, k)
      BY <1>6, <2>2, <3>1, <3>2, AttemptsSpreadDef DEF SpreadInv
    <3>4. {m \in SinceStanding(d)' : m <= i} = {m \in SinceStanding(d) : m <= i}
      <4>1. ~(n <= i)
        BY <1>1, <2>2 DEF n
      <4> QED
        BY <1>5, <4>1
    <3>5. Rank(d, i)' = Rank(d, i)
      BY <3>4 DEF Rank
    <3> QED
      BY <2>3, <3>1, <3>3, <3>5 DEF Spread
  <2>5. CASE k = n
    <3>1. d = e /\ t = "scheduler"
      BY <1>2, <1>3, <1>5, <1>6, <2>5
    <3>2. \A m \in SinceStanding(d) : m <= i /\ m \in Int
      BY <1>1, <1>5, <2>1, <2>2, <2>5 DEF n
    <3>3. LastOf(SinceStanding(d)) = i
      <4>1. \A j \in SinceStanding(d) : (\A m \in SinceStanding(d) : m <= j) => j = i
        BY <2>2, <3>2
      <4>2. i \in SinceStanding(d) /\ \A m \in SinceStanding(d) : m <= i
        BY <2>2, <3>2
      <4> QED
        BY <4>1, <4>2 DEF LastOf
    <3>4. Rank(d, i)' = Cardinality(SinceStanding(d))
      <4>1. {m \in SinceStanding(d)' : m <= i} = SinceStanding(d)
        <5>1. ~(n <= i)
          BY <1>1, <2>2 DEF n
        <5> QED
          BY <1>5, <3>2, <5>1
      <4> QED
        BY <4>1 DEF Rank
    <3>5. \/ rows[i].state = "failed"
          \/ ~Live(rows[i]) /\ rows[i].state \in {"running", "awaiting_dns"}
          \/ Live(rows[i])
      <4>1. ~(rows[i].state = "done" /\ rows[i].task = "ended")
        BY <2>2 DEF SinceStanding
      <4> QED
        BY <2>3, <4>1 DEF Row, RowStates, Closings, Live
    <3>6. CASE rows[i].state = "failed"
      <4>1. ~(now - rows[i].finished < Backoff(Cardinality(SinceStanding(d))))
        BY <2>2, <3>1, <3>3, <3>6 DEF BackingOff
      <4>2. Backoff(Cardinality(SinceStanding(d))) \in Nat
        <5>1. Cardinality(SinceStanding(d)) \in Nat /\ Cardinality(SinceStanding(d)) # 0
          BY <2>2, SinceStandingIsFinite, FS_EmptySet DEF SpreadInv, IInv
        <5> QED
          BY <5>1, BackoffGrows
      <4>3. now - rows[i].finished >= Backoff(Cardinality(SinceStanding(d)))
        BY <1>1, <2>3, <4>1, <4>2 DEF Row
      <4> QED
        BY <1>2, <2>3, <2>5, <3>4, <3>6, <4>3 DEF Spread
    <3>7. CASE ~Live(rows[i]) /\ rows[i].state \in {"running", "awaiting_dns"}
      BY <2>3, <3>7 DEF Spread
    <3>8. CASE Live(rows[i])
      BY <1>1, <2>2, <2>3, <3>1, <3>8 DEF Spread
    <3> QED
      BY <3>5, <3>6, <3>7, <3>8
  <2> QED
    BY <2>4, <2>5
<1>7. AttemptsSpread'
  BY <1>6 DEF AttemptsSpread, Spread, Rank, Consecutive, Live
<1> QED
  BY <1>4, <1>7

LEMMA SpreadStep ==
  ASSUME \A c, f \in Checkers : c = f, SpreadInv, [Next]_vars
  PROVE  SpreadInv'
<1>1. IInv'
  BY NextKeeps DEF SpreadInv
<1>2. TypeOK /\ RowsAreSound /\ now \in Nat
  BY DEF SpreadInv, IInv, TypeOK
<1>3. CASE Tick
  BY <1>1, <1>2, <1>3, StepsOfRowsGo, SpreadStays DEF Tick, SpreadInv
<1>4. CASE Restart
  <2>1. AllEnd /\ now' = now
    BY <1>2, <1>4, RestartEndsAll, RestartResets
  <2> QED
    BY <1>1, <1>2, <2>1, StepsOfRowsGo, SpreadStays DEF SpreadInv
<1>5. ASSUME NEW i \in DOMAIN rows, JobStep(i) \/ ConfirmedLate(i) PROVE SpreadInv'
  <2>1. now' = now
    BY <1>5 DEF JobStep, ConfirmedLate, CertificateOpened, CertificateSaved, JobDone,
       JobFailed, JobEnds, JobTimesOut, SetFailed, StateRead, RowClosed, OrphanAwaits,
       OrphanRaises, OrphanFinds, RowCorrected, Finish
  <2> QED
    BY <1>1, <1>2, <1>5, <2>1, JobStepChanges, StepsOfRowsGo, SpreadStays DEF SpreadInv
<1>6. ASSUME NEW d \in Domains, RenewedByPerson(d) PROVE SpreadInv'
  BY <1>1, <1>6, SpreadOpened DEF RenewedByPerson, Opens, Triggers, SpreadInv
<1>7. ASSUME NEW c \in Checkers, NEW cert \in todo[c], RenewalAttempted(c, cert)
      PROVE  SpreadInv'
  <2>1. /\ cert.domain \in Domains /\ checker[c] = "pass" /\ now' = now
        /\ Opens(cert.domain, "scheduler") /\ ~BackingOff(cert.domain)
    BY <1>7 DEF RenewalAttempted, Taken, Opens, SpreadInv, IInv, TypeOK
  <2>2. ASSUME NEW i \in DOMAIN rows, Live(rows[i])
        PROVE  rows[i].trigger = "manual"
    <3>1. rows[i].trigger \in Triggers
      <4>1. rows \in [1..Len(rows) -> Row] /\ DOMAIN rows = 1..Len(rows)
        BY <1>2, LenProperties DEF TypeOK
      <4> QED
        BY <4>1 DEF Row
    <3>2. rows[i].trigger # "scheduler"
      BY <2>1, <2>2 DEF SpreadInv, IInv, RunningIsWatched, Live
    <3> QED
      BY <3>1, <3>2 DEF Triggers
  <2>3. SinceSuccess(cert.domain) = SinceStanding(cert.domain)
    BY <2>1, PassReadsWhatStands DEF SpreadInv, IInv
  <2> QED
    BY <1>1, <2>1, <2>2, <2>3, SpreadOpened DEF SpreadInv, Triggers
<1>8. CASE \/ UNCHANGED vars
           \/ \E c \in Checkers :
                \/ CheckStarts(c) \/ CheckLists(c) \/ CheckRaises(c) \/ CheckEnds(c)
                \/ AttemptSeen(c)
                \/ \E cert \in todo[c] : \/ CertSkipped(c, cert)
                                         \/ ManualRenewalNotified(c, cert)
                                         \/ RetriesExhausted(c, cert)
                                         \/ PassCut(c, cert)
  <2>1. rows' = rows /\ now' = now
    BY <1>8 DEF vars, CheckStarts, CheckLists, CheckRaises, CheckEnds, AttemptSeen,
       CertSkipped, ManualRenewalNotified, RetriesExhausted, PassCut
  <2> QED
    BY <1>1, <1>2, <2>1, StepsOfRowsGo, SpreadStays DEF SpreadInv
<1> QED
  BY <1>3, <1>4, <1>5, <1>6, <1>7, <1>8 DEF Next, CheckStep, PassStep

\* With one checker, be it the loop or the button, attempts of the scheduler on a domain
\* come ever further apart, whatever fails, dies, comes late or is started by hand.
THEOREM AttemptsAreSpread ==
  ASSUME \A c, f \in Checkers : c = f
  PROVE  Spec => []AttemptsSpread
<1>1. Init => SpreadInv
  <2> SUFFICES ASSUME Init PROVE SpreadInv
    OBVIOUS
  <2>1. IInv
    BY InitIsSound
  <2>2. DOMAIN rows = {}
    BY EmptySeq DEF Init
  <2> QED
    BY <2>1, <2>2 DEF SpreadInv, OpenRows, AttemptsSpread, SinceStanding
<1>2. SpreadInv => AttemptsSpread
  BY DEF SpreadInv
<1>3. SpreadInv /\ [Next]_vars => SpreadInv'
  BY SpreadStep
<1> QED
  BY <1>1, <1>2, <1>3, PTL DEF Spec
=============================================================================
