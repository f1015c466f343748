------------------------------ MODULE Issuance ------------------------------
(***************************************************************************)
(* What issuances and manual CSRs leave behind: the ACME accounts          *)
(* (acme_accounts.json), the certificates with their keys                  *)
(* (acme_certificates/), the pending CSRs (pending_csrs/) and the          *)
(* challenges, in the embedded DNS responder (selfdns.py), at Cloudflare   *)
(* (cloudflare.py) or in Azure DNS (azure_dns.py), directly or in a zone   *)
(* the domain delegates to.                                                *)
(*                                                                         *)
(* issue_certificate (app/acme/issuance.py) runs in threads that do not    *)
(* know of one another.  The routes of CSRs, imports and deletions run on  *)
(* the event loop, one at a time.  Files are rewritten in place: opened,   *)
(* which empties them, and then written.  The process may die in between,  *)
(* and what the providers were told stays with them.                       *)
(***************************************************************************)
EXTENDS Naturals, FiniteSets

CONSTANTS
  Issuances,     \* threads; each is also the id of what it registers and stores
  Csrs,          \* ids of manual CSRs
  Imports,       \* ids of imported certificates
  Environments,  \* keys of acme_accounts.json
  Domains,       \* the names challenges are set for: a wildcard has that of its domain
  Providers,     \* where challenges may be set
  None           \* no account

ASSUME IdsAssumption ==
  /\ Issuances \intersect (Csrs \union Imports) = {}
  /\ Csrs \intersect Imports = {}
  /\ None \notin Issuances
ASSUME ProvidersAssumption == Providers \subseteq {"selfdns", "cloudflare", "azure"}

VARIABLES
  place,       \* where each issuance is
  environment, \* its environment
  domain,      \* its domain
  provider,    \* where it sets its challenge
  account,     \* the account it uses
  raw,         \* what save_account read
  valid,       \* the CA has validated the order
  accounts,    \* acme_accounts.json, when it can be read
  file,        \* whether it can
  registered,  \* accounts the CA knows
  challenges,  \* the orders whose values are answered, by provider and domain
  handler,     \* the route at work on the loop, and on which id
  certs,       \* files of acme_certificates/
  pending,     \* files of pending_csrs/
  kept,        \* history: keys the system has accepted or made
  given_up,    \* history: keys a person has thrown away
  saved,       \* history: accounts whose save_account has returned
  overlapped,  \* history: two save_account have overlapped
  alone,       \* history: pending orders that had their name to themselves
  left         \* history: orders whose challenge nobody will clear

threads == <<place, environment, domain, provider, account, raw, valid>>
accounting == <<accounts, file, registered, saved, overlapped>>
dns == <<challenges, alone, left>>
keys == <<handler, certs, pending, kept, given_up>>
vars == <<threads, accounting, dns, keys>>

------------------------------------------------------------------------------
Ids == Issuances \union Csrs \union Imports
FileStates == {"none", "torn", "whole"}
Idle == [op |-> "none", id |-> None]

NoAccounts == [e \in Environments |-> None]

\* How long the text of a file of accounts is, but for the length of their names.
Size(a) == Cardinality({e \in Environments : a[e] # None})

\* The order has its challenge set and not yet cleared.
Pending(t) == place[t] \in {"wait", "clear"}

Init ==
  /\ place = [t \in Issuances |-> "none"]
  /\ environment \in [Issuances -> Environments]
  /\ domain \in [Issuances -> Domains]
  /\ provider \in [Issuances -> Providers]
  /\ account = [t \in Issuances |-> None]
  /\ raw = [t \in Issuances |-> NoAccounts]
  /\ valid = {}
  /\ accounts = NoAccounts
  /\ file = "whole"
  /\ registered = {}
  /\ challenges = [p \in Providers |-> [d \in Domains |-> {}]]
  /\ handler = Idle
  /\ certs = [i \in Ids |-> "none"]
  /\ pending = [c \in Csrs |-> "none"]
  /\ kept = {}
  /\ given_up = {}
  /\ saved = {}
  /\ overlapped = FALSE
  /\ alone = {}
  /\ left = {}

Goes(t, from, to) ==
  /\ place[t] = from
  /\ place' = [place EXCEPT ![t] = to]

------------------------------------------------------------------------------
(* The account: load_account, new_account, save_account.                   *)

Starts(t) ==
  /\ Goes(t, "none", "load")
  /\ UNCHANGED <<environment, domain, provider, account, raw, valid, accounting, dns, keys>>

\* Fault: the key of the account is taken for the account.
FaultReturnsEnvironment(t) ==
  /\ file = "whole"
  /\ accounts[environment[t]] # None
  /\ Goes(t, "load", "order")
  /\ account' = [account EXCEPT ![t] = environment[t]]
  /\ UNCHANGED <<environment, domain, provider, raw, valid, accounting, dns, keys>>

AccountLoaded(t) ==
  /\ file = "whole"
  /\ accounts[environment[t]] # None
  /\ Goes(t, "load", "order")
  /\ account' = [account EXCEPT ![t] = accounts[environment[t]]]
  /\ UNCHANGED <<environment, domain, provider, raw, valid, accounting, dns, keys>>

NoAccountYet(t) ==
  /\ file = "whole"
  /\ accounts[environment[t]] = None
  /\ Goes(t, "load", "register")
  /\ UNCHANGED <<environment, domain, provider, account, raw, valid, accounting, dns, keys>>

\* Fault: the account is saved before the CA has accepted it.
FaultSavesFirst(t) ==
  /\ Goes(t, "register", "read")
  /\ account' = [account EXCEPT ![t] = t]
  /\ UNCHANGED <<environment, domain, provider, raw, valid, accounting, dns, keys>>

AccountRegistered(t) ==
  /\ Goes(t, "register", "read")
  /\ registered' = registered \union {t}
  /\ account' = [account EXCEPT ![t] = t]
  /\ UNCHANGED <<environment, domain, provider, raw, valid, accounts, file, saved, overlapped,
                 dns, keys>>

\* Fault: save_account starts from an empty file.
FaultForgetsOthers(t) ==
  /\ file = "whole"
  /\ Goes(t, "read", "open")
  /\ raw' = [raw EXCEPT ![t] = NoAccounts]
  /\ overlapped' = (overlapped \/ \E u \in Issuances : place[u] = "open")
  /\ UNCHANGED <<environment, domain, provider, account, valid, accounts, file, registered,
                 saved, dns, keys>>

SaveReads(t) ==
  /\ file = "whole"
  /\ Goes(t, "read", "open")
  /\ raw' = [raw EXCEPT ![t] = accounts]
  /\ overlapped' = (overlapped \/ \E u \in Issuances : place[u] = "open")
  /\ UNCHANGED <<environment, domain, provider, account, valid, accounts, file, registered,
                 saved, dns, keys>>

SaveOpens(t) ==
  /\ Goes(t, "open", "write")
  /\ file' = "empty"
  /\ accounts' = NoAccounts
  /\ UNCHANGED <<environment, domain, provider, account, raw, valid, registered, saved,
                 overlapped, dns, keys>>

\* Another thread may have written since the file was opened: a text that is not
\* longer may then leave the end of the other behind it.
SaveWrites(t) ==
  /\ Goes(t, "write", "order")
  /\ LET text == [raw[t] EXCEPT ![environment[t]] = t]
     IN  \/ /\ file = "whole" => Size(text) >= Size(accounts)
            /\ file' = "whole"
            /\ accounts' = text
         \/ /\ file # "empty"
            /\ file = "whole" => Size(text) <= Size(accounts)
            /\ file' = "garbage"
            /\ accounts' = NoAccounts
  /\ saved' = saved \union {t}
  /\ UNCHANGED <<environment, domain, provider, account, raw, valid, registered, overlapped,
                 dns, keys>>

------------------------------------------------------------------------------
(* The order, its challenge and its certificate.                           *)

OrderCreated(t) ==
  /\ Goes(t, "order", "set")
  /\ UNCHANGED <<environment, domain, provider, account, raw, valid, accounting, dns, keys>>

\* The responder and Azure replace what a name had; Cloudflare adds a record.
Replaces(t) == provider[t] # "cloudflare"

SharesName(t, u) == provider[t] = provider[u] /\ domain[t] = domain[u]

Published(t) ==
  [challenges EXCEPT ![provider[t]][domain[t]] = IF Replaces(t) THEN {t} ELSE @ \union {t}]

\* The orders that have a challenge under the same name.
Others(t) == {u \in Issuances \ {t} : Pending(u) /\ SharesName(t, u)}

SetChallenge(t) ==
  /\ Goes(t, "set", "wait")
  /\ challenges' = Published(t)
  /\ alone' = (alone \ Others(t)) \union (IF Others(t) = {} THEN {t} ELSE {})
  /\ UNCHANGED <<environment, domain, provider, account, raw, valid, left, accounting, keys>>

\* The provider has done it, but its answer is lost: there is no handle to clear.
SetUnanswered(t) ==
  /\ provider[t] # "selfdns"
  /\ Goes(t, "set", "over")
  /\ challenges' = Published(t)
  /\ alone' = alone \ Others(t)
  /\ left' = left \union {t}
  /\ UNCHANGED <<environment, domain, provider, account, raw, valid, accounting, keys>>

\* The CA asks and gets the value of this order among those of the name.
Validated(t) ==
  /\ Goes(t, "wait", "clear")
  /\ t \in challenges[provider[t]][domain[t]]
  /\ valid' = valid \union {t}
  /\ UNCHANGED <<environment, domain, provider, account, raw, accounting, dns, keys>>

\* Fault: a refused order is not cleaned up.
FaultNoFinally(t) ==
  /\ Goes(t, "wait", "over")
  /\ UNCHANGED <<environment, domain, provider, account, raw, valid, accounting, dns, keys>>

\* For whatever reason: another value, no value, an error of the CA.
Refused(t) ==
  /\ Goes(t, "wait", "clear")
  /\ UNCHANGED <<environment, domain, provider, account, raw, valid, accounting, dns, keys>>

\* Fault: everything under the name is removed, at whatever provider.
FaultClearsName(t) ==
  [challenges EXCEPT ![provider[t]][domain[t]] = {}]

\* A name is cleared, whatever it has by now; at Cloudflare a record.
Cleared(t) ==
  [challenges EXCEPT ![provider[t]][domain[t]] = IF Replaces(t) THEN {} ELSE @ \ {t}]

\* The finally of issue_certificate.
ClearChallenge(t) ==
  /\ Goes(t, "clear", IF t \in valid THEN "save" ELSE "over")
  /\ challenges' = Cleared(t)
  /\ alone' = alone \ {t}
  /\ UNCHANGED <<environment, domain, provider, account, raw, valid, left,
                 accounting, keys>>

\* The provider does not answer or refuses: that is swallowed.
ClearFails(t) ==
  /\ provider[t] # "selfdns"
  /\ Goes(t, "clear", IF t \in valid THEN "save" ELSE "over")
  /\ left' = left \union {t}
  /\ alone' = alone \ {t}
  /\ UNCHANGED <<environment, domain, provider, account, raw, valid, challenges,
                 accounting, keys>>

CertificateOpened(t) ==
  /\ Goes(t, "save", "store")
  /\ certs' = [certs EXCEPT ![t] = "torn"]
  /\ UNCHANGED <<environment, domain, provider, account, raw, valid, accounting, dns,
                 handler, pending, kept, given_up>>

CertificateStored(t) ==
  /\ Goes(t, "store", "over")
  /\ certs' = [certs EXCEPT ![t] = "whole"]
  /\ kept' = kept \union {t}
  /\ UNCHANGED <<environment, domain, provider, account, raw, valid, accounting, dns,
                 handler, pending, given_up>>

\* A file that cannot be read, or a CA that does not answer, refuses, offers no
\* challenge of this kind or returns no certificate.
Raises(t) ==
  /\ \/ place[t] \in {"load", "read"} /\ file # "whole"
     \/ place[t] \in {"register", "order", "set", "save"}
     \/ place[t] = "load" /\ accounts[environment[t]] # None
  /\ place' = [place EXCEPT ![t] = "over"]
  /\ UNCHANGED <<environment, domain, provider, account, raw, valid, accounting, dns, keys>>

ThreadStep(t) ==
  \/ AccountLoaded(t) \/ NoAccountYet(t) \/ AccountRegistered(t)
  \/ SaveReads(t) \/ SaveOpens(t) \/ SaveWrites(t)
  \/ OrderCreated(t) \/ SetChallenge(t) \/ SetUnanswered(t) \/ Validated(t) \/ Refused(t)
  \/ ClearChallenge(t) \/ ClearFails(t) \/ CertificateOpened(t) \/ CertificateStored(t)
  \/ Raises(t)

------------------------------------------------------------------------------
(* The routes, on the loop: each writes its files without awaiting.        *)

Begins(op, i) ==
  /\ handler = Idle
  /\ handler' = [op |-> op, id |-> i]

Ends(op, i) ==
  /\ handler = [op |-> op, id |-> i]
  /\ handler' = Idle

CreateCsr(c) ==
  /\ pending[c] = "none" /\ c \notin kept \union given_up
  /\ Begins("create", c)
  /\ pending' = [pending EXCEPT ![c] = "torn"]
  /\ UNCHANGED <<threads, accounting, dns, certs, kept, given_up>>

CsrCreated(c) ==
  /\ Ends("create", c)
  /\ pending' = [pending EXCEPT ![c] = "whole"]
  /\ kept' = kept \union {c}
  /\ UNCHANGED <<threads, accounting, dns, certs, given_up>>

\* The certificate is that of the pending key, still valid, for its domains.
CompleteCsr(c) ==
  /\ pending[c] = "whole"
  /\ Begins("complete", c)
  /\ certs' = [certs EXCEPT ![c] = "torn"]
  /\ UNCHANGED <<threads, accounting, dns, pending, kept, given_up>>

\* Fault: the pending key goes first.
FaultDeletesFirst(c) ==
  /\ handler = [op |-> "complete", id |-> c]
  /\ handler' = [op |-> "delete", id |-> c]
  /\ pending' = [pending EXCEPT ![c] = "none"]
  /\ UNCHANGED <<threads, accounting, dns, certs, kept, given_up>>

CertificateOfCsrStored(c) ==
  /\ handler = [op |-> "complete", id |-> c]
  /\ handler' = [op |-> "delete", id |-> c]
  /\ certs' = [certs EXCEPT ![c] = "whole"]
  /\ UNCHANGED <<threads, accounting, dns, pending, kept, given_up>>

CsrCompleted(c) ==
  /\ Ends("delete", c)
  /\ pending' = [pending EXCEPT ![c] = "none"]
  /\ UNCHANGED <<threads, accounting, dns, certs, kept, given_up>>

\* A key that is also in a certificate is not given up with its CSR.
DiscardCsr(c) ==
  /\ handler = Idle
  /\ pending[c] # "none"
  /\ pending' = [pending EXCEPT ![c] = "none"]
  /\ given_up' = given_up \union (IF certs[c] = "whole" THEN {} ELSE {c})
  /\ UNCHANGED <<threads, accounting, dns, handler, certs, kept>>

ImportCertificate(i) ==
  /\ certs[i] = "none" /\ i \notin kept \union given_up
  /\ Begins("import", i)
  /\ certs' = [certs EXCEPT ![i] = "torn"]
  /\ UNCHANGED <<threads, accounting, dns, pending, kept, given_up>>

CertificateImported(i) ==
  /\ Ends("import", i)
  /\ certs' = [certs EXCEPT ![i] = "whole"]
  /\ kept' = kept \union {i}
  /\ UNCHANGED <<threads, accounting, dns, pending, given_up>>

\* A torn file cannot be loaded, and so cannot be deleted.
DeleteCertificate(i) ==
  /\ handler = Idle
  /\ certs[i] = "whole"
  /\ certs' = [certs EXCEPT ![i] = "none"]
  /\ given_up' = given_up \union
                   (IF i \in Csrs /\ pending[i] = "whole" THEN {} ELSE {i})
  /\ UNCHANGED <<threads, accounting, dns, handler, pending, kept>>

RouteStep ==
  \/ \E c \in Csrs :
       \/ CreateCsr(c) \/ CsrCreated(c)
       \/ CompleteCsr(c) \/ CertificateOfCsrStored(c) \/ CsrCompleted(c)
       \/ DiscardCsr(c)
  \/ \E i \in Imports : ImportCertificate(i) \/ CertificateImported(i)
  \/ \E i \in Ids : DeleteCertificate(i)

------------------------------------------------------------------------------
\* The process dies and starts again: files and providers stay as they are.
Restart ==
  /\ place' = [t \in Issuances |-> IF place[t] = "none" THEN "none" ELSE "over"]
  /\ challenges' = [p \in Providers |-> IF p = "selfdns" THEN [d \in Domains |-> {}]
                                                        ELSE challenges[p]]
  /\ alone' = {}
  /\ left' = left \union {t \in Issuances : Pending(t) /\ provider[t] # "selfdns"}
  /\ handler' = Idle
  /\ UNCHANGED <<environment, domain, provider, account, raw, valid, accounting,
                 certs, pending, kept, given_up>>

Next ==
  \/ \E t \in Issuances : Starts(t) \/ ThreadStep(t)
  \/ RouteStep
  \/ Restart

Spec == Init /\ [][Next]_vars

------------------------------------------------------------------------------
Places == {"none", "load", "register", "read", "open", "write", "order", "set",
           "wait", "clear", "save", "store", "over"}
WithAccount == {"order", "set", "wait", "clear", "save", "store"}

TypeOK ==
  /\ place \in [Issuances -> Places]
  /\ environment \in [Issuances -> Environments]
  /\ domain \in [Issuances -> Domains]
  /\ provider \in [Issuances -> Providers]
  /\ account \in [Issuances -> Issuances \union {None}]
  /\ raw \in [Issuances -> [Environments -> Issuances \union {None}]]
  /\ valid \subseteq Issuances
  /\ accounts \in [Environments -> Issuances \union {None}]
  /\ file \in {"whole", "empty", "garbage"}
  /\ registered \subseteq Issuances
  /\ challenges \in [Providers -> [Domains -> SUBSET Issuances]]
  /\ handler \in [op : {"none", "create", "complete", "delete", "import"},
                  id : Csrs \union Imports \union {None}]
  /\ certs \in [Ids -> FileStates]
  /\ pending \in [Csrs -> FileStates]
  /\ kept \subseteq Ids
  /\ given_up \subseteq Ids
  /\ saved \subseteq Issuances
  /\ overlapped \in BOOLEAN
  /\ alone \subseteq Issuances
  /\ left \subseteq Issuances

\* Every order is placed with an account the CA knows, of the environment of the
\* order, however many issuances registered one at the same time.
OrdersHaveAccounts ==
  \A t \in Issuances : place[t] \in WithAccount =>
    /\ account[t] \in registered
    /\ environment[account[t]] = environment[t]

\* As long as no two save_account overlapped, an environment whose account was
\* once saved has one in the file; or the file is empty, and a save has not ended:
\* one that will write all of them, or one in which the process died.
SavedAccountsStay ==
  ~overlapped =>
    IF file = "whole" THEN \A t \in saved : accounts[environment[t]] # None
    ELSE /\ file = "empty"
         /\ \E t \in registered \ saved :
              \/ place[t] = "write" /\ \A u \in saved : raw[t][environment[u]] # None
              \/ place[t] = "over"

\* A challenge exists only while its order is pending: what is answered under a
\* name was set there by an order of that domain, and stays after the order only
\* at a provider that did not answer or when the process died.  The responder
\* never answers for an order that is over.
ChallengeOnlyWhilePending ==
  \A p \in Providers, d \in Domains : \A t \in challenges[p][d] :
    /\ provider[t] = p /\ domain[t] = d
    /\ Pending(t) \/ (t \in left /\ p # "selfdns")

\* An order is answered until it clears its challenge: always at Cloudflare, whose
\* records do not disturb one another, and elsewhere when it had its name to
\* itself since it set it, whatever orders of other names or providers do and
\* whatever was left behind.
LoneOrderAnswered ==
  \A t \in Issuances :
    place[t] = "wait" /\ (t \in alone \/ ~Replaces(t))
      => t \in challenges[provider[t]][domain[t]]

\* No key is lost that was made or taken in and nobody threw away: not by a
\* process that dies between two files or in one, nor by completing again.  A
\* key counts from the end of the write that first stores it: one that a thread
\* was issued may be lost in that write.
KeyNotLost ==
  \A i \in kept \ given_up :
    certs[i] = "whole" \/ (i \in Csrs /\ pending[i] = "whole")
=============================================================================
