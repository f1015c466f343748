------------------------ MODULE RenewalManagerProofs ------------------------
(***************************************************************************)
(* Proofs about RenewalManager, for every set of jobs, pool size, set of   *)
(* modes in use and number of confirmations in flight.  Every step of the  *)
(* loop, of a thread or of the environment preserves IInv; the safety      *)
(* properties and the refinement of RenewalLedger follow from it.          *)
(***************************************************************************)
EXTENDS RenewalManager, TLAPS

USE ModesAssumption, MaxLookupsAssumption
    DEF DnsModes, EventBased, JobStates, Terminal, Working, ThreadOver,
        ThreadPlaces, Closing, Active, RunnerPlaces, RowStates, Rows, NoRow

------------------------------------------------------------------------------
(* IInv is inductive.                                                      *)

LEMMA InitInvariant == Init => IInv
  BY DEF Init, IInv, TypeOK, Coherent, Unstarted, IssuedInOrder, ClosingArguments,
         RecordBeforeAwaiting, ConfirmedInOrder, MarkedInTime, DirectUntouched

\* create, on the loop: the new job starts from nothing, whether or not its
\* row could be inserted.
LEMMA CreatePreserves ==
  ASSUME IInv, NEW j \in Jobs, NEW m \in Modes, NEW gone \in SUBSET known,
         Create(j, m, gone) \/ CreateFails(j, m, gone), NEW k \in Jobs
  PROVE  TypeOK' /\ Coherent(k)'
<1>t. TypeOK BY DEF IInv
<1>c. Coherent(j) /\ Coherent(k) BY DEF IInv
<1> USE DEF TypeOK, Coherent, Unstarted, IssuedInOrder, ClosingArguments,
            RecordBeforeAwaiting, ConfirmedInOrder, MarkedInTime,
            DirectUntouched, SetState, RunnerAt, ThreadAt, job, events, disk
<1>1. CASE Create(j, m, gone) BY <1>t, <1>c, <1>1 DEF Create, JobEntered
<1>2. CASE CreateFails(j, m, gone) BY <1>t, <1>c, <1>2 DEF CreateFails, JobEntered
<1> QED BY <1>1, <1>2

\* The steps of the coroutine _run.
LEMMA RunnerPreserves ==
  ASSUME IInv, NEW j \in Jobs, RunnerStep(j), NEW k \in Jobs
  PROVE  TypeOK' /\ Coherent(k)'
<1>t. TypeOK BY DEF IInv
<1>c. Coherent(j) /\ Coherent(k) BY DEF IInv
<1> USE DEF TypeOK, Coherent, Unstarted, IssuedInOrder, ClosingArguments,
            RecordBeforeAwaiting, ConfirmedInOrder, MarkedInTime,
            DirectUntouched, SetState, RunnerAt, ThreadAt, job, events, disk
<1>1. CASE RunnerStarts(j) BY <1>t, <1>c, <1>1 DEF RunnerStarts
<1>2. CASE RunnerSucceeds(j) BY <1>t, <1>c, <1>2 DEF RunnerSucceeds
<1>3. CASE RunnerFails(j) BY <1>t, <1>c, <1>3 DEF RunnerFails
<1>4. CASE RunnerTimesOut(j) BY <1>t, <1>c, <1>4 DEF RunnerTimesOut
<1>5. CASE RunnerGivesUp(j) BY <1>t, <1>c, <1>5 DEF RunnerGivesUp
<1>6. CASE RunnerPops(j) BY <1>t, <1>c, <1>6 DEF RunnerPops
<1>7. CASE RunnerReadsState(j) BY <1>t, <1>c, <1>7 DEF RunnerReadsState
<1>8. CASE RunnerReadsCertificate(j) BY <1>t, <1>c, <1>8 DEF RunnerReadsCertificate
<1>9. CASE RunnerCloses(j) BY <1>t, <1>c, <1>9 DEF RunnerCloses
<1>10. CASE RunnerCannotClose(j) BY <1>t, <1>c, <1>10 DEF RunnerCannotClose
<1> QED BY <1>1, <1>2, <1>3, <1>4, <1>5, <1>6, <1>7, <1>8, <1>9, <1>10 DEF RunnerStep

\* The steps of the thread _issue_sync.
LEMMA ThreadPreserves ==
  ASSUME IInv, NEW j \in Jobs, ThreadStep(j), NEW k \in Jobs
  PROVE  TypeOK' /\ Coherent(k)'
<1>t. TypeOK BY DEF IInv
<1>c. Coherent(j) /\ Coherent(k) BY DEF IInv
<1> USE DEF TypeOK, Coherent, Unstarted, IssuedInOrder, ClosingArguments,
            RecordBeforeAwaiting, ConfirmedInOrder, MarkedInTime,
            DirectUntouched, SetState, RunnerAt, ThreadAt, job, events, disk
<1>1. CASE ThreadStarts(j) BY <1>t, <1>c, <1>1 DEF ThreadStarts
<1>2. CASE ThreadFindsDelegation(j) BY <1>t, <1>c, <1>2 DEF ThreadFindsDelegation
<1>3. CASE ThreadSetsRecord(j)
  <2>1. TypeOK' BY <1>t, <1>3 DEF ThreadSetsRecord
  <2>2. Coherent(k)' BY <1>t, <1>c, <1>3 DEF ThreadSetsRecord
  <2> QED BY <2>1, <2>2
<1>4. CASE ThreadAsksForDns(j) BY <1>t, <1>c, <1>4 DEF ThreadAsksForDns
<1>5. CASE ThreadBlocks(j)
  <2>1. TypeOK' BY <1>t, <1>5 DEF ThreadBlocks
  <2>2. Coherent(k)' BY <1>t, <1>c, <1>5 DEF ThreadBlocks
  <2> QED BY <2>1, <2>2
<1>6. CASE ThreadConfirmed(j)
  <2>1. TypeOK' BY <1>t, <1>6 DEF ThreadConfirmed
  <2>2. Coherent(k)' BY <1>t, <1>c, <1>6 DEF ThreadConfirmed
  <2> QED BY <2>1, <2>2
<1>7. CASE ThreadWaitExpires(j) BY <1>t, <1>c, <1>7 DEF ThreadWaitExpires
<1>8. CASE ThreadPublishes(j) BY <1>t, <1>c, <1>8 DEF ThreadPublishes
<1>9. CASE ThreadValidated(j) BY <1>t, <1>c, <1>9 DEF ThreadValidated
<1>10. CASE ThreadRaises(j) BY <1>t, <1>c, <1>10 DEF ThreadRaises
<1>11. CASE ThreadSaves(j) BY <1>t, <1>c, <1>11 DEF ThreadSaves
<1>12. CASE ThreadIdentifies(j) BY <1>t, <1>c, <1>12 DEF ThreadIdentifies
<1>13. CASE ThreadChecks(j)
  <2>1. TypeOK' BY <1>t, <1>13 DEF ThreadChecks
  <2>2. Coherent(k)' BY <1>t, <1>c, <1>13 DEF ThreadChecks
  <2> QED BY <2>1, <2>2
<1>14. CASE ThreadCorrects(j) BY <1>t, <1>c, <1>14 DEF ThreadCorrects
<1>15. CASE ThreadRewrites(j) BY <1>t, <1>c, <1>15 DEF ThreadRewrites
<1>16. CASE ThreadCannotRewrite(j) BY <1>t, <1>c, <1>16 DEF ThreadCannotRewrite
<1> QED BY <1>1, <1>2, <1>3, <1>4, <1>5, <1>6, <1>7, <1>8, <1>9, <1>10, <1>11,
           <1>12, <1>13, <1>14, <1>15, <1>16 DEF ThreadStep

\* confirm_dns, and the person who publishes the record.
LEMMA ConfirmPreserves ==
  ASSUME IInv, NEW j \in Jobs, LookupStarts(j) \/ LookupFails(j) \/ LookupFinds(j) \/ Publish(j), NEW k \in Jobs
  PROVE  TypeOK' /\ Coherent(k)'
<1>t. TypeOK BY DEF IInv
<1>c. Coherent(j) /\ Coherent(k) BY DEF IInv
<1> USE DEF TypeOK, Coherent, Unstarted, IssuedInOrder, ClosingArguments,
            RecordBeforeAwaiting, ConfirmedInOrder, MarkedInTime,
            DirectUntouched, SetState, RunnerAt, ThreadAt, job, events, disk
<1>1. CASE LookupStarts(j) BY <1>t, <1>c, <1>1 DEF LookupStarts
<1>2. CASE LookupFails(j) BY <1>t, <1>c, <1>2 DEF LookupFails
<1>3. CASE LookupFinds(j)
  <2>1. TypeOK' BY <1>t, <1>3 DEF LookupFinds
  <2>2. Coherent(k)' BY <1>t, <1>c, <1>3 DEF LookupFinds, LoopFree
  <2> QED BY <2>1, <2>2
<1>4. CASE Publish(j) BY <1>t, <1>c, <1>4 DEF Publish
<1> QED BY <1>1, <1>2, <1>3, <1>4

\* The death of the process forgets everything but the disk.
LEMMA RestartPreserves ==
  ASSUME IInv, Restart, NEW k \in Jobs
  PROVE  TypeOK' /\ Coherent(k)'
<1>t. TypeOK BY DEF IInv
<1>c. Coherent(k) BY DEF IInv
<1> USE DEF TypeOK, Coherent, Unstarted, IssuedInOrder, ClosingArguments,
            RecordBeforeAwaiting, ConfirmedInOrder, MarkedInTime,
            DirectUntouched, SetState, RunnerAt, ThreadAt, job, events, disk
<1> QED BY <1>t, <1>c DEF Restart

LEMMA StepInvariant == IInv /\ [Next]_vars => IInv'
<1> SUFFICES ASSUME IInv, [Next]_vars PROVE IInv'
  OBVIOUS
<1>1. ASSUME NEW j \in Jobs, NEW m \in Modes, NEW gone \in SUBSET known,
             Create(j, m, gone) \/ CreateFails(j, m, gone)
      PROVE  IInv'
  BY <1>1, CreatePreserves DEF IInv
<1>2. ASSUME NEW j \in Jobs, RunnerStep(j) PROVE IInv'
  BY <1>2, RunnerPreserves DEF IInv
<1>3. ASSUME NEW j \in Jobs, ThreadStep(j) PROVE IInv'
  BY <1>3, ThreadPreserves DEF IInv
<1>4. ASSUME NEW j \in Jobs,
             LookupStarts(j) \/ LookupFails(j) \/ LookupFinds(j) \/ Publish(j)
      PROVE  IInv'
  BY <1>4, ConfirmPreserves DEF IInv
<1>5. ASSUME Restart PROVE IInv'
  <2>1. PICK j \in Jobs : runner[j] \notin {"none", "lost"}
    BY <1>5 DEF Restart
  <2> QED BY <1>5, <2>1, RestartPreserves DEF IInv
<1>6. CASE UNCHANGED vars
  BY <1>6 DEF vars, job, events, disk, IInv, TypeOK, Coherent, Unstarted,
              IssuedInOrder, ClosingArguments, RecordBeforeAwaiting,
              ConfirmedInOrder, MarkedInTime, DirectUntouched
<1> QED BY <1>1, <1>2, <1>3, <1>4, <1>5, <1>6 DEF Next

\* Every reachable state is typed and coherent.
THEOREM Invariance == Spec => []IInv
  BY InitInvariant, StepInvariant, PTL DEF Spec

------------------------------------------------------------------------------
(* The safety properties.                                                  *)

\* The state of the manager always has its type.
THEOREM TypeCorrect == Spec => []TypeOK
<1>1. IInv => TypeOK BY DEF IInv
<1> QED BY <1>1, Invariance, PTL

\* A job or a row that says done has its certificate stored and names it,
\* whatever the orphans of timed-out attempts do and whenever the process dies.
THEOREM DoneIsIssued == Spec => []DoneMeansIssued
<1>1. IInv => DoneMeansIssued
  BY DEF IInv, Coherent, IssuedInOrder, DoneMeansIssued
<1> QED BY <1>1, Invariance, PTL

\* confirm_dns never looks up a record that is not set: awaiting_dns is
\* announced after the record.
THEOREM AwaitingIsShown == Spec => []AwaitingShowsRecord
<1>1. IInv => AwaitingShowsRecord
  BY DEF IInv, Coherent, RecordBeforeAwaiting, AwaitingShowsRecord
<1> QED BY <1>1, Invariance, PTL

\* No validation is spent on a record that a lookup has not seen.
THEOREM ValidationIsConfirmed == Spec => []ConfirmedBeforeValidation
<1>1. IInv => ConfirmedBeforeValidation
  BY DEF IInv, Coherent, ConfirmedInOrder, ConfirmedBeforeValidation
<1> QED BY <1>1, Invariance, PTL

\* A thread that outlives its coroutine finds the abandoned mark.
THEOREM OrphansAreMarked == Spec => []OrphanIsMarked
<1>1. IInv => OrphanIsMarked
  BY DEF IInv, Coherent, MarkedInTime, OrphanIsMarked
<1> QED BY <1>1, Invariance, PTL

\* A direct job is in a terminal state once its coroutine has ended.
THEOREM DirectSettles == Spec => []DirectJobsSettle
<1>1. IInv => DirectJobsSettle
  BY DEF IInv, Coherent, DirectUntouched, DirectJobsSettle
<1> QED BY <1>1, Invariance, PTL

\* Once the coroutine is over, the row of a job changes only to done, and
\* only if its certificate is stored.
THEOREM ClosedRowsStay == Spec => ClosedRowOnlyCorrected
<1>1. ASSUME IInv, [Next]_vars, NEW k \in Jobs,
             runner[k] \in {"ended", "lost"}, history'[k] # history[k]
      PROVE  history'[k].state = "done" /\ k \in certs
  <2>t. TypeOK BY <1>1 DEF IInv
  <2> USE DEF TypeOK, RunnerAt, ThreadAt, SetState, job, events, disk
  <2>1. CASE \E j \in Jobs, m \in Modes, gone \in SUBSET known :
               Create(j, m, gone) \/ CreateFails(j, m, gone)
    BY <2>t, <2>1, <1>1 DEF Create, CreateFails, JobEntered
  <2>2. CASE \E j \in Jobs : RunnerStep(j)
    BY <2>t, <2>2, <1>1
       DEF RunnerStep, RunnerStarts, RunnerSucceeds, RunnerFails, RunnerTimesOut,
           RunnerGivesUp, RunnerPops, RunnerReadsState, RunnerReadsCertificate,
           RunnerCloses, RunnerCannotClose
  <2>3. ASSUME NEW j \in Jobs, ThreadStep(j)
        PROVE  history'[k].state = "done" /\ k \in certs
    <3>1. CASE ThreadRewrites(j)
      <4>1. IssuedInOrder(j) BY <1>1 DEF IInv, Coherent
      <4> QED BY <2>t, <3>1, <4>1, <1>1 DEF ThreadRewrites, IssuedInOrder
    <3>2. CASE ~ThreadRewrites(j)
      <4>1. UNCHANGED history
        BY <2>3, <3>2
           DEF ThreadStep, ThreadStarts, ThreadFindsDelegation, ThreadSetsRecord,
               ThreadAsksForDns, ThreadBlocks, ThreadConfirmed, ThreadWaitExpires,
               ThreadPublishes, ThreadValidated, ThreadRaises, ThreadSaves,
               ThreadIdentifies, ThreadChecks, ThreadCorrects, ThreadCannotRewrite
      <4> QED BY <4>1, <1>1
    <3> QED BY <3>1, <3>2
  <2>4. CASE \/ \E j \in Jobs : LookupStarts(j) \/ LookupFails(j) \/ LookupFinds(j)
             \/ \E j \in Jobs : Publish(j)
             \/ Restart
             \/ UNCHANGED vars
    BY <2>4, <1>1 DEF LookupStarts, LookupFails, LookupFinds, Publish, Restart, vars
  <2> QED BY <1>1, <2>1, <2>2, <2>3, <2>4 DEF Next
<1>2. IInv /\ [Next]_vars
        => [\A j \in Jobs :
              /\ runner[j] \in {"ended", "lost"}
              /\ history'[j] # history[j]
              => history'[j].state = "done" /\ j \in certs]_vars
  BY <1>1
<1> QED BY <1>2, Invariance, PTL DEF Spec, ClosedRowOnlyCorrected

------------------------------------------------------------------------------
(***************************************************************************)
(* How a job may be left behind.  NeverStuckInProgress and                 *)
(* IssuedIsRecognised, which comments of the code claim, do not hold; what *)
(* is true instead needs to know where the two places can stand together.  *)
(***************************************************************************)

\* A thread goes through its places once: before save_certificate nothing is
\* stored, and after it only a refused write makes it raise.
OnePass(j) ==
  /\ runner[j] # "none" => mode[j] # "none"
  /\ thread[j] \in {"none", "queued", "prepare", "order", "shown", "block", "blocked",
                    "validate", "save", "cancelled"} => j \notin certs
  /\ thread[j] = "raised" /\ j \in certs => j \in Refusable

\* The job is out of "running" when _run closes it; afterwards only a
\* confirmation puts it back.
AtRest(j) ==
  /\ runner[j] \in {"pop", "read_state", "read_cert", "write"}
       => state[j] \in {"done", "failed", "awaiting_dns"}
  /\ runner[j] = "ended" =>
       \/ state[j] \in {"done", "failed", "awaiting_dns"}
       \/ state[j] = "running" /\ dns[j] /\ mode[j] # "direct"

\* Without a timeout _run closes what the thread left: a thread that returned
\* is done on the job, then in the arguments, then in the row.
InTime(j) ==
  /\ runner[j] = "timed_out" => abandoned[j]
  /\ runner[j] \in {"pop", "read_state", "read_cert", "write", "ended"} /\ ~abandoned[j] =>
       /\ thread[j] \in {"returned", "raised"}
       /\ thread[j] = "returned" =>
            /\ runner[j] \in {"pop", "read_state"} => state[j] = "done"
            /\ runner[j] \in {"read_cert", "write"} => args[j].state = "done"
            /\ runner[j] = "ended" /\ j \notin Refusable => history[j].state = "done"

LeftBehind(j) == OnePass(j) /\ AtRest(j) /\ InTime(j)

LInv == IInv /\ \A j \in Jobs : LeftBehind(j)

LEMMA LeftBehindInit == Init => \A j \in Jobs : LeftBehind(j)
  BY DEF Init, LeftBehind, OnePass, AtRest, InTime

LEMMA LeftBehindRunner ==
  ASSUME LInv, NEW j \in Jobs, RunnerStep(j), NEW k \in Jobs
  PROVE  LeftBehind(k)'
<1>t. TypeOK BY DEF LInv, IInv
<1>c. Coherent(j) /\ LeftBehind(j) /\ LeftBehind(k) BY DEF LInv, IInv
<1> USE DEF TypeOK, Coherent, Unstarted, ClosingArguments, IssuedInOrder,
            LeftBehind, OnePass, AtRest, InTime, SetState, RunnerAt, ThreadAt,
            job, events, disk
<1>1. CASE RunnerStarts(j) BY <1>t, <1>c, <1>1 DEF RunnerStarts
<1>2. CASE RunnerSucceeds(j) BY <1>t, <1>c, <1>2 DEF RunnerSucceeds
<1>3. CASE RunnerFails(j) BY <1>t, <1>c, <1>3 DEF RunnerFails
<1>4. CASE RunnerTimesOut(j) BY <1>t, <1>c, <1>4 DEF RunnerTimesOut
<1>5. CASE RunnerGivesUp(j) BY <1>t, <1>c, <1>5 DEF RunnerGivesUp
<1>6. CASE RunnerPops(j) BY <1>t, <1>c, <1>6 DEF RunnerPops
<1>7. CASE RunnerReadsState(j) BY <1>t, <1>c, <1>7 DEF RunnerReadsState
<1>8. CASE RunnerReadsCertificate(j) BY <1>t, <1>c, <1>8 DEF RunnerReadsCertificate
<1>9. CASE RunnerCloses(j) BY <1>t, <1>c, <1>9 DEF RunnerCloses
<1>10. CASE RunnerCannotClose(j) BY <1>t, <1>c, <1>10 DEF RunnerCannotClose
<1> QED BY <1>1, <1>2, <1>3, <1>4, <1>5, <1>6, <1>7, <1>8, <1>9, <1>10 DEF RunnerStep

LEMMA LeftBehindThread ==
  ASSUME LInv, NEW j \in Jobs, ThreadStep(j), NEW k \in Jobs
  PROVE  LeftBehind(k)'
<1>t. TypeOK BY DEF LInv, IInv
<1>c. Coherent(j) /\ LeftBehind(j) /\ LeftBehind(k) BY DEF LInv, IInv
<1> USE DEF TypeOK, Coherent, Unstarted, ConfirmedInOrder, IssuedInOrder,
            LeftBehind, OnePass, AtRest, InTime, SetState, RunnerAt, ThreadAt,
            job, events, disk
<1>1. CASE ThreadStarts(j) BY <1>t, <1>c, <1>1 DEF ThreadStarts
<1>2. CASE ThreadFindsDelegation(j) BY <1>t, <1>c, <1>2 DEF ThreadFindsDelegation
<1>3. CASE ThreadSetsRecord(j) BY <1>t, <1>c, <1>3 DEF ThreadSetsRecord
<1>4. CASE ThreadAsksForDns(j) BY <1>t, <1>c, <1>4 DEF ThreadAsksForDns
<1>5. CASE ThreadBlocks(j) BY <1>t, <1>c, <1>5 DEF ThreadBlocks
<1>6. CASE ThreadConfirmed(j) BY <1>t, <1>c, <1>6 DEF ThreadConfirmed
<1>7. CASE ThreadWaitExpires(j) BY <1>t, <1>c, <1>7 DEF ThreadWaitExpires
<1>8. CASE ThreadPublishes(j) BY <1>t, <1>c, <1>8 DEF ThreadPublishes
<1>9. CASE ThreadValidated(j) BY <1>t, <1>c, <1>9 DEF ThreadValidated
<1>10. CASE ThreadRaises(j) BY <1>t, <1>c, <1>10 DEF ThreadRaises
<1>11. CASE ThreadSaves(j) BY <1>t, <1>c, <1>11 DEF ThreadSaves
<1>12. CASE ThreadIdentifies(j) BY <1>t, <1>c, <1>12 DEF ThreadIdentifies
<1>13. CASE ThreadChecks(j) BY <1>t, <1>c, <1>13 DEF ThreadChecks
<1>14. CASE ThreadCorrects(j) BY <1>t, <1>c, <1>14 DEF ThreadCorrects
<1>15. CASE ThreadRewrites(j) BY <1>t, <1>c, <1>15 DEF ThreadRewrites
<1>16. CASE ThreadCannotRewrite(j) BY <1>t, <1>c, <1>16 DEF ThreadCannotRewrite
<1> QED BY <1>1, <1>2, <1>3, <1>4, <1>5, <1>6, <1>7, <1>8, <1>9, <1>10, <1>11,
           <1>12, <1>13, <1>14, <1>15, <1>16 DEF ThreadStep

\* What is neither of the coroutine nor of the thread.  A lookup answers
\* between two callbacks of the loop (LoopFree), so not while _run closes.
LEMMA LeftBehindOthers ==
  ASSUME LInv, Next, NEW k \in Jobs, \A j \in Jobs : ~RunnerStep(j) /\ ~ThreadStep(j)
  PROVE  LeftBehind(k)'
<1>t. TypeOK /\ \A j \in Jobs : Coherent(j) /\ LeftBehind(j) BY DEF LInv, IInv
<1> USE DEF TypeOK, Coherent, Unstarted, LeftBehind, OnePass, AtRest, InTime,
            SetState, job, events, disk
<1>1. ASSUME NEW j \in Jobs, NEW m \in Modes, NEW gone \in SUBSET known,
             Create(j, m, gone) \/ CreateFails(j, m, gone)
      PROVE  LeftBehind(k)'
  <2>1. m # "none" OBVIOUS
  <2>2. CASE k = j BY <1>t, <1>1, <2>1, <2>2 DEF Create, CreateFails, JobEntered
  <2>3. CASE k # j BY <1>t, <1>1, <2>3 DEF Create, CreateFails, JobEntered
  <2> QED BY <2>2, <2>3
<1>2. ASSUME NEW j \in Jobs, LookupStarts(j) \/ LookupFails(j) \/ Publish(j)
      PROVE  LeftBehind(k)'
  BY <1>t, <1>2 DEF LookupStarts, LookupFails, Publish
<1>3. ASSUME NEW j \in Jobs, LookupFinds(j) PROVE LeftBehind(k)'
  <2>1. mode[j] # "direct" BY <1>t, <1>3 DEF LookupFinds, DirectUntouched
  <2> QED BY <1>t, <1>3, <2>1 DEF LookupFinds, LoopFree
<1>4. CASE Restart BY <1>t, <1>4 DEF Restart
<1> QED BY <1>1, <1>2, <1>3, <1>4 DEF Next

LEMMA LeftBehindStep == LInv /\ [Next]_vars => LInv'
<1> SUFFICES ASSUME LInv, [Next]_vars PROVE LInv'
  OBVIOUS
<1>1. IInv' BY StepInvariant DEF LInv
<1>2. ASSUME NEW k \in Jobs PROVE LeftBehind(k)'
  <2>1. CASE \E j \in Jobs : RunnerStep(j) BY <2>1, LeftBehindRunner
  <2>2. CASE \E j \in Jobs : ThreadStep(j) BY <2>2, LeftBehindThread
  <2>3. CASE Next /\ \A j \in Jobs : ~RunnerStep(j) /\ ~ThreadStep(j)
    BY <2>3, LeftBehindOthers
  <2>4. CASE UNCHANGED vars
    BY <2>4 DEF LInv, LeftBehind, OnePass, AtRest, InTime, vars, job, events, disk
  <2> QED BY <2>1, <2>2, <2>3, <2>4
<1> QED BY <1>1, <1>2 DEF LInv

LEMMA LeftBehindInvariance == Spec => []LInv
<1>1. Init => LInv BY InitInvariant, LeftBehindInit DEF LInv
<1> QED BY <1>1, LeftBehindStep, PTL DEF Spec

\* The one way to stay in progress for good, that of confirm_dns: as running, with
\* the record published, in a mode that waits for a person.
StuckOnlyByConfirming ==
  \A j \in Jobs :
    Quiet(j) /\ state[j] \in {"pending", "running"} =>
      state[j] = "running" /\ dns[j] /\ mode[j] \in EventBased

\* A stored certificate whose row does not say done belongs to an attempt that
\* timed out, or to one whose row the database refused to write.
MissedOnlyByTimeout ==
  \A j \in Jobs :
    Quiet(j) /\ j \in certs /\ history[j].state # "done" =>
      abandoned[j] \/ j \in Refusable

\* A job nobody works on any more is never pending, and it is running only as a late
\* confirmation leaves it: no error, timeout or refused write of _run does that.
THEOREM StuckOnlyWhenConfirmed == Spec => []StuckOnlyByConfirming
<1>1. LInv => StuckOnlyByConfirming
  BY DEF LInv, IInv, TypeOK, LeftBehind, OnePass, AtRest, StuckOnlyByConfirming, Quiet
<1> QED BY <1>1, LeftBehindInvariance, PTL

\* An issued certificate is missing from the history only when wait_for gave
\* its thread up, or when history.finish could not write.
THEOREM RecognisedInTime == Spec => []MissedOnlyByTimeout
<1>1. LInv => MissedOnlyByTimeout
  BY DEF LInv, IInv, LeftBehind, OnePass, InTime, MissedOnlyByTimeout, Quiet
<1> QED BY <1>1, LeftBehindInvariance, PTL

------------------------------------------------------------------------------
(* The refinement: the rows behave as RenewalLedger says.  Its fairness is *)
(* left to the model checker.                                              *)

LEMMA LedgerInit == Init => Ledger!Init
  BY DEF Init, Ledger!Init

\* A change of places within Active leaves the ledger where it is.
LEMMA LedgerStutters ==
  ASSUME UNCHANGED <<history, certs>>,
         \A j \in Jobs : runner'[j] \in Active <=> runner[j] \in Active
  PROVE  UNCHANGED Ledger!vars
  BY DEF Ledger!vars

LEMMA LedgerStep == IInv /\ [Next]_vars => [Ledger!Next]_(Ledger!vars)
<1> SUFFICES ASSUME IInv, [Next]_vars PROVE [Ledger!Next]_(Ledger!vars)
  OBVIOUS
<1>t. TypeOK /\ \A j \in Jobs : Coherent(j) BY DEF IInv
<1> USE DEF RunnerAt, ThreadAt, SetState, job, events, disk, Ledger!Next, Ledger!vars
<1>1. ASSUME NEW j \in Jobs, NEW m \in Modes, NEW gone \in SUBSET known,
             Create(j, m, gone)
      PROVE  Ledger!Start(j)
  <2>1. history[j].state = "none"
    BY <1>1, <1>t DEF Create, JobEntered, Coherent, Unstarted
  <2>2. history'[j].state = "running" /\ \A k \in Jobs \ {j} : history'[k] = history[k]
    BY <1>1, <1>t DEF Create, JobEntered, TypeOK
  <2>3. [k \in Jobs |-> history[k].state]'
          = [[k \in Jobs |-> history[k].state] EXCEPT ![j] = "running"]
    BY <2>2
  <2>4. {k \in Jobs : runner[k] \in Active}' = {k \in Jobs : runner[k] \in Active} \union {j}
    BY <1>1, <1>t DEF Create, JobEntered, TypeOK
  <2>5. UNCHANGED certs
    BY <1>1 DEF Create, JobEntered
  <2> QED BY <2>1, <2>3, <2>4, <2>5 DEF Ledger!Start
<1>2. ASSUME NEW j \in Jobs, RunnerStep(j)
      PROVE  [Ledger!Next]_(Ledger!vars)
  <2>1. CASE RunnerCloses(j)
    <3>1. args[j].state \in Ledger!Outcomes
      BY <2>1, <1>t DEF RunnerCloses, Ledger!Outcomes, Coherent, ClosingArguments
    <3>2. PICK s \in Ledger!Outcomes : s = args[j].state
      BY <3>1
    <3>3. s = "done" => j \in certs
      BY <2>1, <3>2, <1>t
         DEF RunnerCloses, Coherent, ClosingArguments, IssuedInOrder
    <3>4. history' = [history EXCEPT ![j] = args[j]]
      BY <2>1 DEF RunnerCloses
    <3>5. [k \in Jobs |-> history[k].state]'
            = [[k \in Jobs |-> history[k].state] EXCEPT ![j] = s]
      BY <3>2, <3>4, <1>t DEF TypeOK
    <3>6. Ledger!Close(j, s)
      BY <2>1, <3>3, <3>5, <1>t DEF RunnerCloses, Ledger!Close, TypeOK
    <3> QED BY <3>6
  <2>2. CASE RunnerCannotClose(j)
    <3>1. Ledger!Forsake(j)
      BY <2>2, <1>t DEF RunnerCannotClose, Ledger!Forsake, TypeOK
    <3> QED BY <3>1
  <2>3. CASE ~RunnerCloses(j) /\ ~RunnerCannotClose(j)
    BY <1>2, <2>3, <1>t, LedgerStutters
       DEF RunnerStep, RunnerStarts, RunnerSucceeds, RunnerFails, RunnerTimesOut,
           RunnerGivesUp, RunnerPops, RunnerReadsState, RunnerReadsCertificate, TypeOK
  <2> QED BY <2>1, <2>2, <2>3
<1>3. ASSUME NEW j \in Jobs, ThreadStep(j)
      PROVE  [Ledger!Next]_(Ledger!vars)
  <2>0. thread[j] \in Working => history[j].state # "none"
    BY <1>t DEF Coherent, Unstarted, TypeOK
  <2>1. CASE ThreadSaves(j)
    <3>1. CASE j \in certs
      BY <2>1, <3>1, LedgerStutters DEF ThreadSaves
    <3>2. CASE j \notin certs
      <4>1. Ledger!Issue(j)
        BY <2>0, <2>1, <3>2 DEF ThreadSaves, Ledger!Issue
      <4> QED BY <4>1
    <3> QED BY <3>1, <3>2
  <2>2. CASE ThreadRewrites(j)
    <3>1. Ledger!Correct(j)
      BY <2>2, <1>t DEF ThreadRewrites, Ledger!Correct, Coherent, IssuedInOrder, TypeOK
    <3> QED BY <3>1
  <2>3. CASE ~ThreadSaves(j) /\ ~ThreadRewrites(j)
    BY <1>3, <2>3, LedgerStutters
       DEF ThreadStep, ThreadStarts, ThreadFindsDelegation, ThreadSetsRecord,
           ThreadAsksForDns, ThreadBlocks, ThreadConfirmed, ThreadWaitExpires,
           ThreadPublishes, ThreadValidated, ThreadRaises, ThreadIdentifies,
           ThreadChecks, ThreadCorrects, ThreadCannotRewrite
  <2> QED BY <2>1, <2>2, <2>3
<1>4. ASSUME NEW j \in Jobs,
             LookupStarts(j) \/ LookupFails(j) \/ LookupFinds(j) \/ Publish(j)
      PROVE  UNCHANGED Ledger!vars
  BY <1>4, LedgerStutters DEF LookupStarts, LookupFails, LookupFinds, Publish
<1>5. ASSUME Restart PROVE Ledger!Crash
  BY <1>5, <1>t DEF Restart, Ledger!Crash, TypeOK
<1>6. CASE UNCHANGED vars
  BY <1>6, LedgerStutters DEF vars
<1>7. ASSUME NEW j \in Jobs, NEW m \in Modes, NEW gone \in SUBSET known,
             CreateFails(j, m, gone)
      PROVE  UNCHANGED Ledger!vars
  BY <1>7, <1>t, LedgerStutters DEF CreateFails, JobEntered, TypeOK
<1> QED BY <1>1, <1>2, <1>3, <1>4, <1>5, <1>6, <1>7 DEF Next

\* create, _run and the issuing thread implement the ledger's steps: a row
\* closes once, as done only for a stored certificate, and is afterwards only
\* corrected.
THEOREM RefinesLedger == Spec => Ledger!Init /\ [][Ledger!Next]_(Ledger!vars)
  BY LedgerInit, LedgerStep, Invariance, PTL DEF Spec
=============================================================================
