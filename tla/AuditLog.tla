------------------------------ MODULE AuditLog ------------------------------
(***************************************************************************)
(* AuditLogStore (app/audit/log.py) and the migration of its table         *)
(* (app/core/db.py): an append-only log in SQLite whose rows are chained   *)
(* by hashes.  Every call of record opens a connection of its own, on the  *)
(* loop or on a thread, perhaps while another call, or another process at  *)
(* start, is still migrating the table; the order of the chain is that of  *)
(* the wall clock, with the rowid between equal times.                     *)
(*                                                                         *)
(* A hash is the sequence of everything it was computed from: HMAC-SHA256  *)
(* is taken to be free of collisions and the master key to be the same.    *)
(* What it is computed from is the text _compute_hash joins out of the     *)
(* fields of a row, which rows that differ may share.                      *)
(***************************************************************************)
EXTENDS Naturals, Sequences, FiniteSets

CONSTANTS
  Callers,    \* the calls of record that may run at the same time
  MaxLegacy,  \* bound: rows from before the chain
  MaxRows,    \* bound: rows ever written
  MaxTime,    \* bound: the clock stops here
  StepsBack   \* whether the wall clock may be set back

ASSUME BoundsAssumption ==
  MaxLegacy \in Nat /\ MaxRows \in Nat /\ MaxTime \in Nat \ {0}
ASSUME StepsBackAssumption == StepsBack \in BOOLEAN

VARIABLES
  clock,     \* datetime.now
  rows,      \* audit_log, by rowid
  made,      \* ids drawn by uuid4
  marked,    \* the migration is in schema_migrations
  lock,      \* the call inside a BEGIN IMMEDIATE, if any
  place,     \* where each call is
  read,      \* the rows its migration selected
  prev,      \* the prev_hash it is about to write
  tampered   \* somebody deleted a row from outside, or changed its joined text

vars == <<clock, rows, made, marked, lock, place, read, prev, tampered>>

------------------------------------------------------------------------------
\* username, action and detail.  rejoined: a "|" of the text went from one of them
\* to another, or a NULL became an empty name.
Texts == {"recorded", "rejoined", "edited"}

\* "|".join([..., username or "", action, detail, ...]) does not tell the two apart.
Joined(text) == IF text = "rejoined" THEN "recorded" ELSE text

Contents == (0..(MaxLegacy + MaxRows)) \X (0..MaxTime) \X Texts
Genesis == <<>>
\* entry_hash and prev_hash of a row from before the chain; no id is 0.
Empty == <<<<0, 0, "recorded">>>>

\* What _compute_hash is given of a row besides prev_hash.
Content(row) == <<row.id, row.at, Joined(row.text)>>
HashOf(p, row) == Append(p, Content(row))

Row == [id : 1..(MaxLegacy + MaxRows), at : 0..MaxTime, text : Texts,
        prev : Seq(Contents), hash : Seq(Contents) \ {Genesis}]

\* ORDER BY created_at ASC, rowid ASC
Before(s, i, k) == s[i].at < s[k].at \/ (s[i].at = s[k].at /\ i < k)
Rank(s, i) == 1 + Cardinality({k \in DOMAIN s : Before(s, k, i)})
Nth(s, r) == CHOOSE i \in DOMAIN s : Rank(s, i) = r

\* The clock was not set back from one row to the next.
Ordered(s) == \A i, k \in DOMAIN s : i < k => s[i].at <= s[k].at

\* What the first r rows hash to, one after the other.
Chain(s, r) == [k \in 1..r |-> Content(s[Nth(s, k)])]

\* The hash a new row is chained to.
LastHash(s) ==
  IF s = <<>> \/ s[Nth(s, Len(s))].hash = Empty THEN Genesis
                                                ELSE s[Nth(s, Len(s))].hash

LegacyRows(at) ==
  [i \in DOMAIN at |-> [id |-> i, at |-> at[i], text |-> "recorded",
                        prev |-> Empty, hash |-> Empty]]

Init ==
  /\ clock = 1
  /\ \E n \in 0..MaxLegacy : \E at \in [1..n -> {0, 1}] :
       /\ StepsBack \/ \A i, k \in 1..n : i < k => at[i] <= at[k]
       /\ rows = LegacyRows(at)
       /\ made = n
  /\ marked = FALSE
  /\ lock = {}
  /\ place = [c \in Callers |-> "idle"]
  /\ read = [c \in Callers |-> <<>>]
  /\ prev = [c \in Callers |-> Genesis]
  /\ tampered = FALSE

Moves(c, from, to) == place[c] = from /\ place' = [place EXCEPT ![c] = to]

------------------------------------------------------------------------------
(* get_connection: the schema and, unless it is marked, the migration.     *)

Opens(c) ==
  /\ Moves(c, "idle", IF marked THEN "begin" ELSE "migrate")
  /\ UNCHANGED <<clock, rows, made, marked, lock, read, prev, tampered>>

\* The SELECT of _rebuild_audit_chain is outside its transaction.
Selects(c) ==
  /\ Moves(c, "migrate", "rebuild")
  /\ read' = [read EXCEPT ![c] = rows]
  /\ UNCHANGED <<clock, rows, made, marked, lock, prev, tampered>>

\* Fault: the table is written back as it was read.
FaultWritesBack(s, old) ==
  [i \in DOMAIN old |->
    [old[i] EXCEPT !.prev = Chain(old, Rank(old, i) - 1),
                   !.hash = Chain(old, Rank(old, i))]]

\* Its UPDATEs and their commit: they take the write lock at the first one.
Rechained(s, old) ==
  [i \in DOMAIN s |->
    IF \E k \in DOMAIN old : old[k].id = s[i].id
      THEN LET k == CHOOSE k \in DOMAIN old : old[k].id = s[i].id IN
           [s[i] EXCEPT !.prev = Chain(old, Rank(old, k) - 1),
                        !.hash = Chain(old, Rank(old, k))]
      ELSE s[i]]

Rebuilds(c) ==
  /\ lock = {}
  /\ Moves(c, "rebuild", "mark")
  /\ rows' = Rechained(rows, read[c])
  /\ UNCHANGED <<clock, made, marked, lock, read, prev, tampered>>

Marks(c) ==
  /\ lock = {}
  /\ Moves(c, "mark", "begin")
  /\ marked' = TRUE
  /\ read' = [read EXCEPT ![c] = <<>>]
  /\ UNCHANGED <<clock, rows, made, lock, prev, tampered>>

\* The file cannot be opened, or is locked for more than five seconds: this
\* is outside the try of record.
OpenFails(c) ==
  /\ \E p \in {"idle", "migrate", "rebuild", "mark"} : Moves(c, p, "raised")
  /\ read' = [read EXCEPT ![c] = <<>>]
  /\ UNCHANGED <<clock, rows, made, marked, lock, prev, tampered>>

CallerGoesOn(c) ==
  /\ Moves(c, "raised", "idle")
  /\ UNCHANGED <<clock, rows, made, marked, lock, read, prev, tampered>>

------------------------------------------------------------------------------
(* record, from BEGIN IMMEDIATE to the commit.                             *)

\* Fault: BEGIN without IMMEDIATE, so that two calls read the same last row.
FaultDeferred(c) ==
  /\ Moves(c, "begin", "insert")
  /\ prev' = [prev EXCEPT ![c] = LastHash(rows)]
  /\ lock' = {c}
  /\ UNCHANGED <<clock, rows, made, marked, read, tampered>>

RecordBegins(c) ==
  /\ lock = {}
  /\ Moves(c, "begin", "insert")
  /\ lock' = {c}
  /\ prev' = [prev EXCEPT ![c] = LastHash(rows)]
  /\ UNCHANGED <<clock, rows, made, marked, read, tampered>>

\* Fault: the hash of the previous row is stored as the row's own.
FaultOwnHash(id, p) ==
  [id |-> id, at |-> clock, text |-> "recorded", prev |-> p, hash |-> p]

NewRow(id, p) ==
  [id |-> id, at |-> clock, text |-> "recorded", prev |-> p,
   hash |-> Append(p, <<id, clock, "recorded">>)]

RecordInserts(c) ==
  /\ made < MaxRows
  /\ Moves(c, "insert", "idle")
  /\ made' = made + 1
  /\ rows' = Append(rows, NewRow(made + 1, prev[c]))
  /\ lock' = lock \ {c}
  /\ prev' = [prev EXCEPT ![c] = Genesis]
  /\ UNCHANGED <<clock, marked, read, tampered>>

\* An exception is swallowed and the transaction rolled back.
RecordFails(c) ==
  /\ \E p \in {"begin", "insert"} : Moves(c, p, "idle")
  /\ lock' = lock \ {c}
  /\ prev' = [prev EXCEPT ![c] = Genesis]
  /\ UNCHANGED <<clock, rows, made, marked, read, tampered>>

CallStep(c) ==
  \/ Opens(c)
  \/ Selects(c)
  \/ Rebuilds(c)
  \/ Marks(c)
  \/ OpenFails(c)
  \/ CallerGoesOn(c)
  \/ RecordBegins(c)
  \/ RecordInserts(c)
  \/ RecordFails(c)

------------------------------------------------------------------------------
Tick ==
  /\ clock < MaxTime
  /\ clock' = clock + 1
  /\ UNCHANGED <<rows, made, marked, lock, place, read, prev, tampered>>

ClockSetBack ==
  /\ StepsBack
  /\ clock > 0
  /\ clock' = clock - 1
  /\ UNCHANGED <<rows, made, marked, lock, place, read, prev, tampered>>

\* The process dies: an open transaction is undone, a committed one stays.
Restart ==
  /\ lock' = {}
  /\ place' = [c \in Callers |-> "idle"]
  /\ read' = [c \in Callers |-> <<>>]
  /\ prev' = [c \in Callers |-> Genesis]
  /\ UNCHANGED <<clock, rows, made, marked, tampered>>

\* Somebody with the SQLite file changes a row, or deletes one that is not
\* the newest.  A change made while a migration is pending becomes part of
\* its baseline, and is not claimed to be seen; nor is a change of a log that
\* does not verify anyway, because the clock has been set back.
Settled ==
  /\ marked
  /\ Ordered(rows)
  /\ lock = {}
  /\ \A c \in Callers : place[c] \notin {"migrate", "rebuild", "mark"}

RowEdited ==
  /\ Settled
  /\ \E i \in DOMAIN rows :
       rows[i].text # "edited" /\ rows' = [rows EXCEPT ![i].text = "edited"]
  /\ tampered' = TRUE
  /\ UNCHANGED <<clock, made, marked, lock, place, read, prev>>

\* Somebody changes the fields of a row so that they join to the same text.
RowRejoined ==
  /\ Settled
  /\ \E i \in DOMAIN rows, text \in Texts :
       /\ text # rows[i].text /\ Joined(text) = Joined(rows[i].text)
       /\ rows' = [rows EXCEPT ![i].text = text]
  /\ UNCHANGED <<clock, made, marked, lock, place, read, prev, tampered>>

RowDeleted ==
  /\ Settled
  /\ \E i \in DOMAIN rows :
       /\ Rank(rows, i) < Len(rows)
       /\ rows' = SubSeq(rows, 1, i - 1) \o SubSeq(rows, i + 1, Len(rows))
  /\ tampered' = TRUE
  /\ UNCHANGED <<clock, made, marked, lock, place, read, prev>>

Next ==
  \/ \E c \in Callers : CallStep(c)
  \/ Tick
  \/ ClockSetBack
  \/ Restart
  \/ RowEdited
  \/ RowRejoined
  \/ RowDeleted

Spec == Init /\ [][Next]_vars

------------------------------------------------------------------------------
TypeOK ==
  /\ clock \in 0..MaxTime
  /\ rows \in Seq(Row)
  /\ made \in 0..(MaxLegacy + MaxRows)
  /\ marked \in BOOLEAN
  /\ lock \in SUBSET Callers
  /\ place \in [Callers -> {"idle", "migrate", "rebuild", "mark", "begin",
                            "insert", "raised"}]
  /\ read \in [Callers -> Seq(Row)]
  /\ prev \in [Callers -> Seq(Contents)]
  /\ tampered \in BOOLEAN

\* Fault: a row is recomputed from the prev_hash stored in it.
FaultOwnPrev(s) ==
  \A i \in DOMAIN s : s[i].hash = HashOf(s[i].prev, s[i])

\* verify_chain answers (True, None).
Intact(s) ==
  \A r \in 1..Len(s) :
    LET row == s[Nth(s, r)]
        expected == IF r = 1 THEN Genesis ELSE s[Nth(s, r - 1)].hash
    IN row.prev = expected /\ row.hash = HashOf(expected, row)

\* A log nobody touched verifies from the moment the migration is marked,
\* however many calls record, migrate again or die in the middle, as long as the
\* clock was not set back from one row to the next.  So does one in which fields
\* were changed that join to the text they joined to before.
UntouchedVerifies == marked /\ ~tampered /\ Ordered(rows) => Intact(rows)

\* A row whose joined text was edited, or that was deleted from before the end,
\* is seen by every later verification, whatever is recorded after it.
TamperingShows == tampered => ~Intact(rows)

\* Once the migration is marked the log only grows: a call that still holds
\* the rows of before rewrites them as they are, and loses none, as long as the
\* clock was not set back from one row to the next.  Nothing changes what a row
\* joins to, nor its links.
RecordedRowsStay ==
  [][marked /\ ~tampered' /\ Ordered(rows)
       => /\ Len(rows') >= Len(rows)
          /\ \A i \in DOMAIN rows :
               /\ Content(rows'[i]) = Content(rows[i])
               /\ rows'[i].prev = rows[i].prev /\ rows'[i].hash = rows[i].hash]_vars

------------------------------------------------------------------------------
(***************************************************************************)
(* The inductive invariant, whatever the clock does.  While the rows are   *)
(* in order of time, rowid order is the order of the chain; once they are  *)
(* not, they never are again, and the links are not spoken of any more.    *)
(***************************************************************************)
\* What the first n rows hash to when they are taken by rowid.
Prefix(s, n) == [k \in 1..n |-> Content(s[k])]

Linked(s) ==
  \A i \in DOMAIN s : s[i].prev = Prefix(s, i - 1) /\ s[i].hash = Prefix(s, i)

\* Nothing was taken out: the i-th row has the i-th id.
Complete == ~tampered => made = Len(rows) /\ \A i \in DOMAIN rows : rows[i].id = i

Untouched == ~tampered /\ Ordered(rows)

LinkedOnceRebuilt ==
  Untouched /\ (marked \/ \E c \in Callers : place[c] = "mark") => Linked(rows)

MarkedBeforeRecord ==
  /\ tampered => marked /\ \A c \in Callers : place[c] \notin {"migrate", "rebuild", "mark"}
  /\ \A c \in Callers : place[c] \in {"begin", "insert"} => marked

\* What a migration selected are the first rows of the log, and all of them
\* until one migration has been marked.
SelectedRows(c) ==
  place[c] = "rebuild" =>
    /\ Len(read[c]) <= Len(rows)
    /\ ~marked => Len(read[c]) = Len(rows)
    /\ \A i \in DOMAIN read[c] : Content(read[c][i]) = Content(rows[i])

\* The call between BEGIN IMMEDIATE and its INSERT is alone, and holds the
\* hash of the last row.
HoldsLastHash(c) ==
  place[c] = "insert" =>
    /\ lock = {c}
    /\ Untouched => prev[c] = Prefix(rows, Len(rows))

Coherent ==
  /\ Complete
  /\ LinkedOnceRebuilt
  /\ MarkedBeforeRecord
  /\ \A c \in Callers : SelectedRows(c) /\ HoldsLastHash(c)

IInv == TypeOK /\ Coherent

\* With a clock that is not set back, the rows are always in order of time.
InOrder == Ordered(rows) /\ \A i \in DOMAIN rows : rows[i].at <= clock

------------------------------------------------------------------------------
\* log.py: verify_chain answers "(True, None) se intacta, ou (False, id ...) se
\* algo foi adulterado": whatever the wall clock does.
OnlyTamperingShows == marked /\ ~tampered => Intact(rows)
=============================================================================
