---------------------------- MODULE RenewalLedger ----------------------------
(***************************************************************************)
(* What the renewal history promises of every issuance attempt, whatever   *)
(* threads and callbacks run behind it: a row opens as running, a          *)
(* certificate may be stored for it, the row closes once, unless the       *)
(* database refuses the write, and a row that says done is the row of a    *)
(* stored certificate.  After it closed, a row may only be corrected to    *)
(* done.                                                                   *)
(*                                                                         *)
(* This is the abstract side of RenewalManager (app/acme/renewal.py,       *)
(* app/acme/history.py).                                                   *)
(***************************************************************************)
CONSTANTS
  Attempts,
  Refusable  \* attempts of which the database may refuse a write

VARIABLES
  row,     \* state column of the attempt's row, "none" before the INSERT
  issued,  \* attempts whose certificate is on disk
  open     \* attempts whose coroutine has not written its closing UPDATE

vars == <<row, issued, open>>

\* What a closing UPDATE may write.  awaiting_dns is there because the value
\* is read from a job that an abandoned thread may still be moving.
Outcomes == {"done", "failed", "awaiting_dns"}
RowStates == Outcomes \union {"none", "running"}

Init ==
  /\ row = [a \in Attempts |-> "none"]
  /\ issued = {}
  /\ open = {}

Start(a) ==
  /\ row[a] = "none"
  /\ row' = [row EXCEPT ![a] = "running"]
  /\ open' = open \union {a}
  /\ UNCHANGED issued

Issue(a) ==
  /\ row[a] # "none"
  /\ a \notin issued
  /\ issued' = issued \union {a}
  /\ UNCHANGED <<row, open>>

Close(a, s) ==
  /\ a \in open
  /\ s = "done" => a \in issued
  /\ open' = open \ {a}
  /\ row' = [row EXCEPT ![a] = s]
  /\ UNCHANGED issued

\* The closing UPDATE is refused: the row stays open and nobody will close it.
Forsake(a) ==
  /\ a \in Refusable
  /\ a \in open
  /\ open' = open \ {a}
  /\ UNCHANGED <<row, issued>>

\* A late success is written over whatever the row says.
Correct(a) ==
  /\ a \in issued
  /\ row' = [row EXCEPT ![a] = "done"]
  /\ UNCHANGED <<issued, open>>

\* The process dies: nobody is left to close the open rows.
Crash ==
  /\ open' = {}
  /\ UNCHANGED <<row, issued>>

Next ==
  \/ \E a \in Attempts : Start(a) \/ Issue(a) \/ Forsake(a) \/ Correct(a)
  \/ \E a \in Attempts, s \in Outcomes : Close(a, s)
  \/ Crash

\* Every attempt comes to its end, written or not.
Fairness ==
  \A a \in Attempts : WF_vars(Forsake(a) \/ \E s \in Outcomes : Close(a, s))

Spec == Init /\ [][Next]_vars /\ Fairness

------------------------------------------------------------------------------
TypeOK ==
  /\ row \in [Attempts -> RowStates]
  /\ issued \subseteq Attempts
  /\ open \subseteq Attempts

\* A row says done only when the certificate of that attempt is stored.
DoneRowsIssued == \A a \in Attempts : row[a] = "done" => a \in issued
=============================================================================
