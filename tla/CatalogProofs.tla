--------------------------- MODULE CatalogProofs ---------------------------
(***************************************************************************)
(* A register over the audit log.  To the log the handlers are one more    *)
(* caller, so that what is proved of it holds here as well; and what the   *)
(* handlers recorded explains the table, for every number of entries and   *)
(* callers and whatever the clock does.                                    *)
(***************************************************************************)
EXTENDS Catalog, AuditLogProofs, SequenceTheorems

\* Every step of the handlers and of their surroundings is one of the log.
LEMMA StepIsOfTheLog == [CatalogNext]_system => [Next]_vars
<1> SUFFICES ASSUME [CatalogNext]_system PROVE [Next]_vars
  OBVIOUS
<1> USE LoopAssumption
<1>1. ASSUME NEW e \in Entries, CreateEntry(e) \/ UpdateEntry(e) \/ DeleteEntry(e)
      PROVE  UNCHANGED vars
  BY <1>1 DEF CreateEntry, UpdateEntry, DeleteEntry, Asked
<1>2. CASE HandlerStep
  <2>1. Closes => CallStep(Loop)
    BY DEF Closes, CallStep
  <2>2. CallStep(Loop)
    BY <1>2, <2>1 DEF HandlerStep, Connects, CannotConnect, HandlerRaises, ChangeCommits,
       ChangeRefused, BeginsRecord, ChangeRecorded, ChangeUnrecorded, Reloaded, CallStep
  <2> QED
    BY <2>2 DEF Next
<1>3. CASE OthersStep
  BY <1>3 DEF OthersStep, Next
<1>4. CASE ProcessDies
  BY <1>4 DEF ProcessDies, Next
<1>5. CASE UNCHANGED system
  BY <1>5 DEF system
<1> QED
  BY <1>1, <1>2, <1>3, <1>4, <1>5 DEF CatalogNext

\* The composition implements the log that AuditLog specifies.
THEOREM CatalogKeepsTheLog == CatalogSpec => Spec
<1>1. CatalogInit => Init
  BY DEF CatalogInit
<1> QED
  BY <1>1, StepIsOfTheLog, PTL DEF CatalogSpec, Spec

\* The log verifies also when half of its callers are handlers whose own
\* connections migrate it.
THEOREM CatalogLogVerifies == CatalogSpec => []UntouchedVerifies
BY CatalogKeepsTheLog, LogVerifies, PTL

\* No row of an untouched log is changed or lost while handlers record.
THEOREM CatalogLogOnlyGrows == CatalogSpec => RecordedRowsStay
BY CatalogKeepsTheLog, LogOnlyGrows, PTL

\* So is tampering seen, whatever the handlers record after it.
THEOREM CatalogTamperingIsSeen == CatalogSpec => []TamperingShows
BY CatalogKeepsTheLog, TamperingIsSeen, PTL

------------------------------------------------------------------------------
(* The table and what was recorded of it.                                  *)

Change == [op : Ops, entry : Entries]

CatalogTypes ==
  /\ entries \subseteq Entries
  /\ drawn \subseteq Entries
  /\ request \in [at : {"none", "change", "record", "reload"},
                  op : Ops \union {"none"}, entry : Entries \union {None}]
  /\ trail \in Seq(Change)
  /\ missed \subseteq Entries

\* Nothing is in the table or the trail whose id was not drawn.
DrawnFirst ==
  /\ entries \subseteq drawn
  /\ \A i \in 1..Len(trail) : trail[i].entry \in drawn

\* An entry said to be deleted is gone, and nothing is told of it afterwards.
DeletedIsGone ==
  /\ \A i \in 1..Len(trail) : trail[i].op = "deleted" => trail[i].entry \notin entries
  /\ \A i, k \in 1..Len(trail) :
       i < k /\ trail[i].entry = trail[k].entry
         => trail[i].op # "deleted" /\ trail[k].op # "created"

\* A handler knows its entry; until it has recorded, nothing was told of one it
\* creates, nor that one was deleted which it has found.
HandlerKnows ==
  /\ request.at \in {"change", "record"} =>
       /\ request.op \in Ops
       /\ request.entry \in Entries
       /\ request.op = "created" =>
            /\ request.entry \in drawn
            /\ \A i \in 1..Len(trail) : trail[i].entry # request.entry
  /\ request.at = "change" /\ request.op = "created" => request.entry \notin entries
  /\ request.at = "record" =>
       /\ request.entry \in drawn
       /\ request.op = "deleted" <=> request.entry \notin entries
       /\ \A i \in 1..Len(trail) :
            trail[i].entry = request.entry => trail[i].op # "deleted"

\* The last told of an entry, by position.
LastTold(e, i) ==
  /\ i \in 1..Len(trail)
  /\ trail[i].entry = e
  /\ \A k \in 1..Len(trail) : trail[k].entry = e => k <= i

\* The table is as it was last told, but for the entry at work and the missed.
TableAsTold ==
  \A e \in Entries \ missed :
    ~(request.at = "record" /\ request.entry = e) =>
      (e \in entries <=> \E i \in 1..Len(trail) : LastTold(e, i) /\ trail[i].op # "deleted")

CInv == CatalogTypes /\ DrawnFirst /\ DeletedIsGone /\ HandlerKnows /\ TableAsTold

LEMMA CInvInit == CatalogInit => CInv
<1> SUFFICES ASSUME CatalogInit PROVE CInv
  OBVIOUS
<1>1. trail \in Seq(Change) /\ Len(trail) = 0 /\ 1..Len(trail) = {}
  BY EmptySeq DEF CatalogInit
<1>2. request.at = "none"
  BY DEF CatalogInit, NoRequest
<1>3. entries = {} /\ drawn = {} /\ missed = {} /\ request = NoRequest
  BY DEF CatalogInit
<1>4. CatalogTypes
  BY <1>1, <1>3 DEF CatalogTypes, NoRequest
<1>5. DrawnFirst /\ DeletedIsGone /\ HandlerKnows
  BY <1>1, <1>2, <1>3 DEF DrawnFirst, DeletedIsGone, HandlerKnows
<1>6. TableAsTold
  BY <1>1, <1>3 DEF TableAsTold
<1> QED
  BY <1>4, <1>5, <1>6 DEF CInv

\* The parts of the invariant that do not look at the handler only change with
\* the table and the trail.
LEMMA TrailUnchanged ==
  ASSUME CInv, UNCHANGED <<entries, trail>>,
         drawn \subseteq drawn', drawn' \subseteq Entries
  PROVE  DrawnFirst' /\ DeletedIsGone' /\ \A e, i : LastTold(e, i)' <=> LastTold(e, i)
BY DEF CInv, DrawnFirst, DeletedIsGone, LastTold

\* A handler that ends, answered or dead, leaves the invariant as it is once its
\* entry counts as missed if it had not recorded.
LEMMA HandlerEnds ==
  ASSUME CInv, entries' = entries, drawn' = drawn, trail' = trail, missed' = LeavesOut,
         request' = NoRequest \/ (request' = AfterRecord /\ At("record"))
  PROVE  CInv'
<1>1. /\ request' \in [at : {"none", "change", "record", "reload"},
                       op : Ops \union {"none"}, entry : Entries \union {None}]
      /\ request'.at \in {"none", "reload"}
  BY DEF CInv, CatalogTypes, NoRequest, AfterRecord
<1>2. missed' \subseteq Entries /\ missed \subseteq missed'
  BY DEF CInv, CatalogTypes, HandlerKnows, LeavesOut, At
<1>3. CatalogTypes'
  BY <1>1, <1>2 DEF CInv, CatalogTypes
<1>4. DrawnFirst' /\ DeletedIsGone' /\ \A e, i : LastTold(e, i)' <=> LastTold(e, i)
  BY TrailUnchanged DEF CInv, CatalogTypes
<1>5. HandlerKnows'
  BY <1>1 DEF HandlerKnows
<1>6. TableAsTold'
  <2> SUFFICES ASSUME NEW e \in Entries \ missed'
               PROVE  e \in entries' <=>
                        \E i \in 1..Len(trail') : LastTold(e, i)' /\ trail'[i].op # "deleted"
    BY DEF TableAsTold
  <2>1. e \in Entries \ missed /\ ~(request.at = "record" /\ request.entry = e)
    BY <1>2 DEF LeavesOut, At
  <2> QED
    BY <1>4, <2>1 DEF CInv, TableAsTold
<1> QED
  BY <1>3, <1>4, <1>5, <1>6 DEF CInv

------------------------------------------------------------------------------
LEMMA AskedKeeps ==
  ASSUME CInv, NEW e \in Entries, CreateEntry(e) \/ UpdateEntry(e) \/ DeleteEntry(e)
  PROVE  CInv'
<1>1. PICK op \in Ops :
        /\ request' = [at |-> "change", op |-> op, entry |-> e]
        /\ op = "created" => e \notin drawn /\ e \in drawn'
        /\ drawn \subseteq drawn' /\ drawn' \subseteq Entries
  BY DEF CreateEntry, UpdateEntry, DeleteEntry, Asked, Ops, CInv, CatalogTypes
<1>2. UNCHANGED <<entries, trail, missed>> /\ request.at = "none"
  BY DEF CreateEntry, UpdateEntry, DeleteEntry, Asked, At
<1>3. CatalogTypes'
  BY <1>1, <1>2 DEF CInv, CatalogTypes
<1>4. DrawnFirst' /\ DeletedIsGone' /\ \A f, i : LastTold(f, i)' <=> LastTold(f, i)
  BY <1>1, <1>2, TrailUnchanged
<1>5. HandlerKnows'
  BY <1>1, <1>2 DEF HandlerKnows, CInv, DrawnFirst
<1>6. TableAsTold'
  BY <1>1, <1>2, <1>4 DEF CInv, TableAsTold
<1> QED
  BY <1>3, <1>4, <1>5, <1>6 DEF CInv

LEMMA CommitKeeps ==
  ASSUME CInv, ChangeCommits
  PROVE  CInv'
<1>1. /\ request.at = "change" /\ Found
      /\ entries' = IF request.op = "deleted" THEN entries \ {request.entry}
                                              ELSE entries \union {request.entry}
      /\ request' = [request EXCEPT !.at = "record"]
      /\ UNCHANGED <<drawn, trail, missed>>
  BY DEF ChangeCommits, At
<1>2. /\ request.entry \in Entries /\ request.op \in Ops
      /\ request' \in [at : {"none", "change", "record", "reload"},
                       op : Ops \union {"none"}, entry : Entries \union {None}]
      /\ request'.at = "record" /\ request'.op = request.op
      /\ request'.entry = request.entry
  BY <1>1 DEF CInv, CatalogTypes, HandlerKnows
<1>3. CatalogTypes'
  BY <1>1, <1>2 DEF CInv, CatalogTypes
<1>4. request.entry \in drawn
  BY <1>1 DEF CInv, HandlerKnows, Found, DrawnFirst
<1>5. \A i \in 1..Len(trail) : trail[i].entry = request.entry => trail[i].op # "deleted"
  BY <1>1 DEF CInv, HandlerKnows, Found, DeletedIsGone
<1>6. DrawnFirst' /\ DeletedIsGone'
  BY <1>1, <1>4, <1>5 DEF CInv, DrawnFirst, DeletedIsGone
<1>7. HandlerKnows'
  BY <1>1, <1>2, <1>4, <1>5 DEF CInv, HandlerKnows
<1>8. TableAsTold'
  BY <1>1, <1>2 DEF CInv, TableAsTold, LastTold
<1> QED
  BY <1>3, <1>6, <1>7, <1>8 DEF CInv

LEMMA RecordedKeeps ==
  ASSUME CInv, ChangeRecorded
  PROVE  CInv'
<1> DEFINE new == [op |-> request.op, entry |-> request.entry]
<1>0. PICK n : n = Len(trail)
  OBVIOUS
<1>1. /\ request.at = "record"
      /\ trail' = Append(trail, new)
      /\ request' = AfterRecord
      /\ UNCHANGED <<entries, drawn, missed>>
  BY DEF ChangeRecorded, At
<1>2. /\ trail \in Seq(Change) /\ n \in Nat
      /\ new \in Change /\ new.op = request.op /\ new.entry = request.entry
  BY <1>0, <1>1, LenProperties DEF CInv, CatalogTypes, HandlerKnows, Change
<1>3. /\ trail' \in Seq(Change) /\ Len(trail') = n + 1
      /\ \A i \in 1..n : trail'[i] = trail[i]
      /\ trail'[n + 1] = new
  BY <1>0, <1>1, <1>2, AppendProperties
<1> HIDE DEF new
<1>4. /\ request' \in [at : {"none", "change", "record", "reload"},
                       op : Ops \union {"none"}, entry : Entries \union {None}]
      /\ request'.at \in {"none", "reload"}
  BY <1>1 DEF CInv, CatalogTypes, NoRequest, AfterRecord
<1>5. CatalogTypes'
  BY <1>1, <1>3, <1>4 DEF CInv, CatalogTypes
<1>6. \A i \in 1..Len(trail') : i \in 1..n \/ i = n + 1
  BY <1>2, <1>3
<1>7. DrawnFirst'
  BY <1>0, <1>1, <1>2, <1>3, <1>6 DEF CInv, DrawnFirst, HandlerKnows
<1>8. DeletedIsGone'
  <2>1. \A i \in 1..Len(trail') : trail'[i].op = "deleted" => trail'[i].entry \notin entries
    BY <1>0, <1>1, <1>2, <1>3, <1>6 DEF CInv, DeletedIsGone, HandlerKnows
  <2>2. ASSUME NEW i \in 1..Len(trail'), NEW k \in 1..Len(trail'), i < k,
               trail'[i].entry = trail'[k].entry
        PROVE  trail'[i].op # "deleted" /\ trail'[k].op # "created"
    <3>1. i \in 1..n
      BY <1>2, <1>3, <2>2
    <3>2. CASE k \in 1..n
      BY <1>0, <1>3, <2>2, <3>1, <3>2 DEF CInv, DeletedIsGone
    <3>3. CASE k = n + 1
      <4>1. trail[i].entry = request.entry /\ trail'[k].op = request.op
        BY <1>2, <1>3, <2>2, <3>1, <3>3
      <4> QED
        BY <1>0, <1>1, <1>3, <3>1, <4>1 DEF CInv, HandlerKnows
    <3> QED
      BY <1>6, <3>2, <3>3
  <2> QED
    BY <1>1, <2>1, <2>2 DEF DeletedIsGone
<1>9. HandlerKnows'
  BY <1>4 DEF HandlerKnows
<1>10. TableAsTold'
  <2> SUFFICES ASSUME NEW e \in Entries \ missed
               PROVE  e \in entries <=>
                        \E i \in 1..Len(trail') : LastTold(e, i)' /\ trail'[i].op # "deleted"
    BY <1>1 DEF TableAsTold
  <2>1. CASE e = request.entry
    <3>1. n + 1 \in 1..Len(trail')
      BY <1>2, <1>3
    <3>2. LastTold(e, n + 1)'
      BY <1>2, <1>3, <2>1, <3>1 DEF LastTold
    <3>3. \A i \in 1..Len(trail') : LastTold(e, i)' => i = n + 1
      BY <1>2, <1>3, <2>1, <3>1 DEF LastTold
    <3>4. trail'[n + 1].op # "deleted" <=> e \in entries
      BY <1>1, <1>2, <1>3, <2>1 DEF CInv, HandlerKnows
    <3> QED
      BY <3>1, <3>2, <3>3, <3>4
  <2>2. CASE e # request.entry
    <3>1. \A i \in 1..Len(trail') : trail'[i].entry = e => i \in 1..n
      BY <1>2, <1>3, <1>6, <2>2
    <3>2. \A i \in 1..n : LastTold(e, i)' <=> LastTold(e, i)
      BY <1>0, <1>2, <1>3, <3>1 DEF LastTold
    <3>3. \A i \in 1..n : i \in 1..Len(trail')
      BY <1>2, <1>3
    <3>4. \A i \in 1..Len(trail') : LastTold(e, i)' => i \in 1..n
      BY <3>1 DEF LastTold
    <3>5. e \in entries <=> \E i \in 1..n : LastTold(e, i) /\ trail[i].op # "deleted"
      BY <1>0, <2>2 DEF CInv, TableAsTold
    <3> QED
      BY <1>3, <3>2, <3>3, <3>4, <3>5
  <2> QED
    BY <2>1, <2>2
<1> QED
  BY <1>5, <1>7, <1>8, <1>9, <1>10 DEF CInv

LEMMA CInvNext == CInv /\ [CatalogNext]_system => CInv'
<1> SUFFICES ASSUME CInv, [CatalogNext]_system PROVE CInv'
  OBVIOUS
<1>1. ASSUME NEW e \in Entries, CreateEntry(e) \/ UpdateEntry(e) \/ DeleteEntry(e)
      PROVE  CInv'
  BY <1>1, AskedKeeps
<1>2. CASE UNCHANGED catalog
  BY <1>2 DEF catalog, CInv, CatalogTypes, DrawnFirst, DeletedIsGone, HandlerKnows,
     TableAsTold, LastTold
<1>3. CASE ChangeCommits
  BY <1>3, CommitKeeps
<1>4. CASE ChangeRecorded
  BY <1>4, RecordedKeeps
<1>5. CASE HandlerRaises \/ ChangeUnrecorded \/ ProcessDies
  <2>1. /\ missed' = LeavesOut /\ entries' = entries /\ drawn' = drawn /\ trail' = trail
        /\ request' = NoRequest \/ (request' = AfterRecord /\ At("record"))
    BY <1>5 DEF HandlerRaises, ChangeUnrecorded, ProcessDies
  <2> QED
    BY <2>1, HandlerEnds
<1>6. CASE ChangeRefused \/ Reloaded
  <2>1. /\ missed' = LeavesOut /\ entries' = entries /\ drawn' = drawn /\ trail' = trail
        /\ request' = NoRequest \/ (request' = AfterRecord /\ At("record"))
    BY <1>6 DEF ChangeRefused, Reloaded, LeavesOut, At
  <2> QED
    BY <2>1, HandlerEnds
<1>7. CASE Connects \/ CannotConnect \/ BeginsRecord \/ OthersStep \/ UNCHANGED system
  <2>1. UNCHANGED catalog
    BY <1>7 DEF Connects, CannotConnect, BeginsRecord, OthersStep, system
  <2> QED
    BY <1>2, <2>1
<1> QED
  BY <1>1, <1>3, <1>4, <1>5, <1>6, <1>7 DEF CatalogNext, HandlerStep

THEOREM CatalogInvariant == CatalogSpec => []CInv
<1>1. CatalogInit => CInv
  BY CInvInit
<1>2. CInv /\ [CatalogNext]_system => CInv'
  BY CInvNext
<1> QED
  BY <1>1, <1>2, PTL DEF CatalogSpec

\* Whatever fails or dies between a change and its record, what was recorded is
\* true, in order, and explains every entry none of whose records was lost.
THEOREM TrailIsTrue == CatalogSpec => []TrailExplainsCatalog
<1>1. CInv => TrailExplainsCatalog
  <2> SUFFICES ASSUME CInv PROVE TrailExplainsCatalog
    OBVIOUS
  <2>1. DOMAIN trail = 1..Len(trail)
    BY LenProperties DEF CInv, CatalogTypes
  <2>2. \A e : SaidToExist(e) <=>
                 \E i \in 1..Len(trail) : LastTold(e, i) /\ trail[i].op # "deleted"
    BY <2>1 DEF SaidToExist, Told, LastTold
  <2> QED
    BY <2>1, <2>2 DEF CInv, TableAsTold, DeletedIsGone, TrailExplainsCatalog, At
<1> QED
  BY <1>1, CatalogInvariant, PTL

\* The table, its requests and the log keep their types.
THEOREM CatalogTypeCorrect == CatalogSpec => []CatalogTypeOK
<1>1. CInv /\ TypeOK => CatalogTypeOK
  BY DEF CInv, CatalogTypes, Change, CatalogTypeOK
<1> QED
  BY <1>1, CatalogInvariant, CatalogKeepsTheLog, TypeCorrect, PTL
=============================================================================
