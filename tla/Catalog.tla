------------------------------ MODULE Catalog ------------------------------
(***************************************************************************)
(* One of the registers of organizations, systems and projects             *)
(* (app/catalog/store.py, app/api/routes_catalog.py), which differ in      *)
(* their columns only, over the audit log its handlers record into.        *)
(*                                                                         *)
(* A handler runs on the event loop and does not await: no other handler   *)
(* comes in between.  Threads and other processes do, and every access of  *)
(* the handler opens a connection of its own, which may have the migration *)
(* of the log to do first, may fail, and is all there is of atomicity: the *)
(* change is committed before it is recorded.                              *)
(***************************************************************************)
EXTENDS AuditLog

CONSTANTS
  Loop,     \* the caller of record that is the event loop
  Entries,  \* ids of entries
  None      \* no entry

ASSUME LoopAssumption == Loop \in Callers
ASSUME EntriesAssumption == None \notin Entries

VARIABLES
  entries,  \* ids in the table
  drawn,    \* ids drawn for new entries
  request,  \* the handler at work and how far it is
  trail,    \* history: the changes that were recorded, in order
  missed    \* history: entries of which a change was not recorded

catalog == <<entries, drawn, request, trail, missed>>
system == <<vars, catalog>>

------------------------------------------------------------------------------
Ops == {"created", "updated", "deleted"}
NoRequest == [at |-> "none", op |-> "none", entry |-> None]

At(stage) == request.at = stage

CatalogInit ==
  /\ Init
  /\ entries = {}
  /\ drawn = {}
  /\ request = NoRequest
  /\ trail = <<>>
  /\ missed = {}

------------------------------------------------------------------------------
(* The routes, which answer 400 before anything else is touched.           *)

Asked(op, e) ==
  /\ At("none") /\ place[Loop] = "idle"
  /\ request' = [at |-> "change", op |-> op, entry |-> e]
  /\ UNCHANGED <<vars, entries, trail, missed>>

CreateEntry(e) ==
  /\ e \notin drawn
  /\ drawn' = drawn \union {e}
  /\ Asked("created", e)

UpdateEntry(e) == Asked("updated", e) /\ UNCHANGED drawn

DeleteEntry(e) == Asked("deleted", e) /\ UNCHANGED drawn

------------------------------------------------------------------------------
(* The connections of a handler, one after the other.                      *)

Connects ==
  /\ ~At("none")
  /\ Opens(Loop) \/ Selects(Loop) \/ Rebuilds(Loop) \/ Marks(Loop)
  /\ UNCHANGED catalog

CannotConnect ==
  /\ ~At("none")
  /\ OpenFails(Loop)
  /\ UNCHANGED catalog

\* To the log, a connection of the store is one that records nothing.
Closes == place[Loop] = "begin" /\ RecordFails(Loop)

\* A handler that ends now leaves its change unrecorded.
LeavesOut == IF At("record") THEN missed \union {request.entry} ELSE missed

\* get_connection has raised, be it in record: the answer is 500.
HandlerRaises ==
  /\ ~At("none")
  /\ CallerGoesOn(Loop)
  /\ request' = NoRequest
  /\ missed' = LeavesOut
  /\ UNCHANGED <<entries, drawn, trail>>

\* Fault: nobody looks whether the entry is there.
FaultFindsAll == TRUE

Found == request.op = "created" \/ request.entry \in entries

\* load, the INSERT, UPDATE or DELETE, and its commit: nobody else writes the table.
ChangeCommits ==
  /\ At("change")
  /\ Found
  /\ lock = {}
  /\ Closes
  /\ entries' = IF request.op = "deleted" THEN entries \ {request.entry}
                                          ELSE entries \union {request.entry}
  /\ request' = [request EXCEPT !.at = "record"]
  /\ UNCHANGED <<drawn, trail, missed>>

\* There is no such entry, or the file is locked for too long: 404 or 500.
ChangeRefused ==
  /\ At("change")
  /\ Closes
  /\ request' = NoRequest
  /\ UNCHANGED <<entries, drawn, trail, missed>>

\* An updated entry is loaded once more for the answer.
AfterRecord ==
  IF request.op = "updated" THEN [request EXCEPT !.at = "reload"] ELSE NoRequest

BeginsRecord ==
  /\ At("record")
  /\ RecordBegins(Loop)
  /\ UNCHANGED catalog

ChangeRecorded ==
  /\ At("record")
  /\ RecordInserts(Loop)
  /\ trail' = Append(trail, [op |-> request.op, entry |-> request.entry])
  /\ request' = AfterRecord
  /\ UNCHANGED <<entries, drawn, missed>>

ChangeUnrecorded ==
  /\ At("record")
  /\ RecordFails(Loop)
  /\ missed' = LeavesOut
  /\ request' = AfterRecord
  /\ UNCHANGED <<entries, drawn, trail>>

Reloaded ==
  /\ At("reload")
  /\ Closes
  /\ request' = NoRequest
  /\ UNCHANGED <<entries, drawn, trail, missed>>

HandlerStep ==
  \/ Connects \/ CannotConnect \/ HandlerRaises
  \/ ChangeCommits \/ ChangeRefused
  \/ BeginsRecord \/ ChangeRecorded \/ ChangeUnrecorded
  \/ Reloaded

------------------------------------------------------------------------------
\* Threads, the clock and whoever has the SQLite file.  Of the other routes of the
\* loop the log cannot tell whether they are threads that leave the handlers alone.
OthersStep ==
  /\ \/ \E c \in Callers \ {Loop} : CallStep(c)
     \/ Tick \/ ClockSetBack \/ RowEdited \/ RowRejoined \/ RowDeleted
  /\ UNCHANGED catalog

ProcessDies ==
  /\ Restart
  /\ request' = NoRequest
  /\ missed' = LeavesOut
  /\ UNCHANGED <<entries, drawn, trail>>

CatalogNext ==
  \/ \E e \in Entries : CreateEntry(e) \/ UpdateEntry(e) \/ DeleteEntry(e)
  \/ HandlerStep
  \/ OthersStep
  \/ ProcessDies

CatalogSpec == CatalogInit /\ [][CatalogNext]_system

------------------------------------------------------------------------------
CatalogTypeOK ==
  /\ TypeOK
  /\ entries \subseteq Entries
  /\ drawn \subseteq Entries
  /\ request \in [at : {"none", "change", "record", "reload"},
                  op : Ops \union {"none"}, entry : Entries \union {None}]
  /\ trail \in Seq([op : Ops, entry : Entries])
  /\ missed \subseteq Entries

\* The last that was recorded of an entry.
Told(e) == {i \in DOMAIN trail : trail[i].entry = e}
SaidToExist(e) ==
  \E i \in Told(e) : trail[i].op # "deleted" /\ \A k \in Told(e) : k <= i

\* What the routes recorded tells which entries there are, but for those whose
\* record failed, raised or died with the process after the change had been
\* committed; and whatever failed, it tells nothing that was not so: nothing is
\* told of an entry before its creation or after its deletion, and an entry said
\* to be deleted is gone.
TrailExplainsCatalog ==
  /\ \A e \in Entries \ missed :
       \/ At("record") /\ request.entry = e
       \/ e \in entries <=> SaidToExist(e)
  /\ \A i, k \in DOMAIN trail :
       i < k /\ trail[i].entry = trail[k].entry
         => trail[i].op # "deleted" /\ trail[k].op # "created"
  /\ \A i \in DOMAIN trail : trail[i].op = "deleted" => trail[i].entry \notin entries
=============================================================================
