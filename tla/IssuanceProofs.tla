--------------------------- MODULE IssuanceProofs ---------------------------
(***************************************************************************)
(* What issuances and CSRs leave behind, for every number of threads,      *)
(* CSRs, environments and domains.  The accounts, the file they are saved  *)
(* in, the challenges and the keys have an invariant each, none of which   *)
(* needs another.                                                          *)
(***************************************************************************)
EXTENDS Issuance, TLAPS

\* The steps of a thread by what they are about.
Walks(t) ==
  Starts(t) \/ NoAccountYet(t) \/ OrderCreated(t) \/ Refused(t) \/ Raises(t)

LEMMA Steps ==
  ASSUME [Next]_vars
  PROVE  \/ \E t \in Issuances :
              \/ Walks(t) \/ AccountLoaded(t) \/ AccountRegistered(t)
              \/ SaveReads(t) \/ SaveOpens(t) \/ SaveWrites(t)
              \/ SetChallenge(t) \/ SetUnanswered(t) \/ Validated(t)
              \/ ClearChallenge(t) \/ ClearFails(t)
              \/ CertificateOpened(t) \/ CertificateStored(t)
         \/ RouteStep
         \/ Restart
         \/ UNCHANGED vars
BY DEF Next, ThreadStep, Walks

------------------------------------------------------------------------------
(* Types.                                                                  *)

LEMMA TypeInit == Init => TypeOK
<1> SUFFICES ASSUME Init PROVE TypeOK
  OBVIOUS
<1>1. handler \in [op : {"none", "create", "complete", "delete", "import"},
                  id : Csrs \union Imports \union {None}]
  BY DEF Init, Idle
<1>2. /\ certs \in [Ids -> FileStates]
      /\ pending \in [Csrs -> FileStates]
  BY DEF Init, FileStates
<1>3. /\ place \in [Issuances -> Places]
      /\ account \in [Issuances -> Issuances \union {None}]
      /\ accounts \in [Environments -> Issuances \union {None}]
  BY DEF Init, NoAccounts, Places
<1>4. /\ raw \in [Issuances -> [Environments -> Issuances \union {None}]]
      /\ challenges \in [Providers -> [Domains -> SUBSET Issuances]]
  BY DEF Init, NoAccounts
<1> QED
  BY <1>1, <1>2, <1>3, <1>4 DEF Init, TypeOK

LEMMA ThreadKeepsTypes ==
  ASSUME TypeOK, NEW t \in Issuances,
         Walks(t) \/ AccountLoaded(t) \/ AccountRegistered(t)
           \/ SaveReads(t) \/ SaveOpens(t) \/ SaveWrites(t)
           \/ CertificateOpened(t) \/ CertificateStored(t)
  PROVE  TypeOK'
<1> USE DEF TypeOK, Places, Goes
<1>1. CASE Walks(t)
  <2>1. /\ UNCHANGED <<environment, domain, provider, account, raw, valid, accounting,
                        dns, keys>>
        /\ \E p \in Places : place' = [place EXCEPT ![t] = p]
    BY <1>1 DEF Walks, Starts, NoAccountYet, OrderCreated, Refused, Raises
  <2> QED
    BY <2>1 DEF accounting, dns, keys
<1>2. CASE AccountLoaded(t)
  BY <1>2 DEF AccountLoaded, accounting, dns, keys
<1>3. CASE AccountRegistered(t)
  BY <1>3 DEF AccountRegistered, dns, keys
<1>4. CASE SaveReads(t)
  BY <1>4 DEF SaveReads, dns, keys
<1>5. CASE SaveOpens(t)
  BY <1>5 DEF SaveOpens, NoAccounts, dns, keys
<1>6. CASE SaveWrites(t)
  <2>1. /\ [raw[t] EXCEPT ![environment[t]] = t] \in [Environments -> Issuances \union {None}]
        /\ NoAccounts \in [Environments -> Issuances \union {None}]
    BY DEF NoAccounts
  <2>2. /\ accounts' \in [Environments -> Issuances \union {None}]
        /\ file' \in {"whole", "garbage"}
    BY <1>6, <2>1, Zenon DEF SaveWrites
  <2>3. /\ place' = [place EXCEPT ![t] = "order"] /\ saved' = saved \union {t}
        /\ UNCHANGED <<environment, domain, provider, account, raw, valid, registered,
                       overlapped, dns, keys>>
    BY <1>6 DEF SaveWrites
  <2> QED
    BY <2>2, <2>3 DEF dns, keys
<1>7. CASE CertificateOpened(t)
  BY <1>7 DEF CertificateOpened, Ids, FileStates, accounting, dns
<1>8. CASE CertificateStored(t)
  BY <1>8 DEF CertificateStored, Ids, FileStates, accounting, dns
<1> QED
  BY <1>1, <1>2, <1>3, <1>4, <1>5, <1>6, <1>7, <1>8

LEMMA ChallengeKeepsTypes ==
  ASSUME TypeOK, NEW t \in Issuances,
         SetChallenge(t) \/ SetUnanswered(t) \/ Validated(t)
           \/ ClearChallenge(t) \/ ClearFails(t)
  PROVE  TypeOK'
<1> USE DEF TypeOK, Places, Goes
<1>1. Published(t) \in [Providers -> [Domains -> SUBSET Issuances]]
  BY DEF Published
<1>2. Cleared(t) \in [Providers -> [Domains -> SUBSET Issuances]]
  BY DEF Cleared
<1>3. CASE SetChallenge(t)
  BY <1>1, <1>3 DEF SetChallenge, accounting, keys
<1>4. CASE SetUnanswered(t)
  BY <1>1, <1>4 DEF SetUnanswered, accounting, keys
<1>5. CASE Validated(t)
  BY <1>5 DEF Validated, accounting, dns, keys
<1>6. CASE ClearChallenge(t)
  BY <1>2, <1>6 DEF ClearChallenge, accounting, keys
<1>7. CASE ClearFails(t)
  BY <1>7 DEF ClearFails, accounting, keys
<1> QED
  BY <1>3, <1>4, <1>5, <1>6, <1>7

\* A route does not touch what threads, files of accounts and providers keep.
LEMMA RouteLeavesThreads ==
  ASSUME RouteStep
  PROVE  UNCHANGED <<threads, accounting, dns>>
BY DEF RouteStep, CreateCsr, CsrCreated, CompleteCsr, CertificateOfCsrStored, CsrCompleted,
   DiscardCsr, ImportCertificate, CertificateImported, DeleteCertificate,
   threads, accounting, dns

KeyTypes ==
  /\ handler \in [op : {"none", "create", "complete", "delete", "import"},
                  id : Csrs \union Imports \union {None}]
  /\ certs \in [Ids -> FileStates]
  /\ pending \in [Csrs -> FileStates]
  /\ kept \subseteq Ids
  /\ given_up \subseteq Ids

LEMMA RouteKeepsKeyTypes ==
  ASSUME KeyTypes, RouteStep
  PROVE  KeyTypes'
<1> USE DEF KeyTypes, Ids, FileStates, Begins, Ends, Idle
<1>1. ASSUME NEW c \in Csrs, CreateCsr(c) PROVE KeyTypes'
  BY <1>1 DEF CreateCsr
<1>2. ASSUME NEW c \in Csrs, CsrCreated(c) PROVE KeyTypes'
  BY <1>2 DEF CsrCreated
<1>3. ASSUME NEW c \in Csrs, CompleteCsr(c) PROVE KeyTypes'
  BY <1>3 DEF CompleteCsr
<1>4. ASSUME NEW c \in Csrs, CertificateOfCsrStored(c) PROVE KeyTypes'
  BY <1>4 DEF CertificateOfCsrStored
<1>5. ASSUME NEW c \in Csrs, CsrCompleted(c) PROVE KeyTypes'
  BY <1>5 DEF CsrCompleted
<1>6. ASSUME NEW c \in Csrs, DiscardCsr(c) PROVE KeyTypes'
  BY <1>6 DEF DiscardCsr
<1>7. ASSUME NEW i \in Imports, ImportCertificate(i) PROVE KeyTypes'
  BY <1>7 DEF ImportCertificate
<1>8. ASSUME NEW i \in Imports, CertificateImported(i) PROVE KeyTypes'
  BY <1>8 DEF CertificateImported
<1>9. ASSUME NEW i \in Ids, DeleteCertificate(i) PROVE KeyTypes'
  BY <1>9 DEF DeleteCertificate
<1> QED
  BY <1>1, <1>2, <1>3, <1>4, <1>5, <1>6, <1>7, <1>8, <1>9 DEF RouteStep

LEMMA RouteKeepsTypes ==
  ASSUME TypeOK, RouteStep
  PROVE  TypeOK'
<1>1. KeyTypes'
  BY RouteKeepsKeyTypes DEF TypeOK, KeyTypes
<1> QED
  BY <1>1, RouteLeavesThreads DEF TypeOK, KeyTypes, threads, accounting, dns

LEMMA TypeNext == TypeOK /\ [Next]_vars => TypeOK'
<1> SUFFICES ASSUME TypeOK, [Next]_vars PROVE TypeOK'
  OBVIOUS
<1>1. CASE Restart
  BY <1>1 DEF Restart, TypeOK, Places, Idle, accounting
<1>2. CASE UNCHANGED vars
  BY <1>2 DEF vars, threads, accounting, dns, keys, TypeOK
<1> QED
  BY <1>1, <1>2, Steps, ThreadKeepsTypes, ChallengeKeepsTypes, RouteKeepsTypes

\* Every variable keeps its type, for any number of threads and ids.
THEOREM IssuanceTypeCorrect == Spec => []TypeOK
BY TypeInit, TypeNext, PTL DEF Spec

------------------------------------------------------------------------------
(* The accounts: an account is one the CA knows, of its own environment,   *)
(* wherever it is kept.                                                    *)

Sound(a, e) == a \in registered /\ environment[a] = e

KnownAccounts ==
  /\ \A e \in Environments : accounts[e] # None => Sound(accounts[e], e)
  /\ \A t \in Issuances, e \in Environments : raw[t][e] # None => Sound(raw[t][e], e)
  /\ \A t \in Issuances :
       /\ place[t] \in WithAccount => Sound(account[t], environment[t])
       /\ place[t] \in {"read", "open", "write"} => account[t] = t /\ t \in registered

LEMMA KnownInit == Init => KnownAccounts
BY DEF Init, KnownAccounts, NoAccounts, WithAccount

\* A step that leaves the accounts alone and places an order only with an account.
LEMMA KnownElsewhere ==
  ASSUME TypeOK, KnownAccounts,
         UNCHANGED <<accounts, raw, account, environment, registered>>,
         \A t \in Issuances :
           /\ place'[t] \in WithAccount => place[t] \in WithAccount
           /\ place'[t] \in {"read", "open", "write"} => place'[t] = place[t]
  PROVE  KnownAccounts'
BY DEF KnownAccounts, Sound, TypeOK

LEMMA KnownNext == TypeOK /\ TypeOK' /\ KnownAccounts /\ [Next]_vars => KnownAccounts'
<1> SUFFICES ASSUME TypeOK, TypeOK', KnownAccounts, [Next]_vars PROVE KnownAccounts'
  OBVIOUS
<1>1. ASSUME NEW t \in Issuances, Walks(t) PROVE KnownAccounts'
  <2>1. /\ UNCHANGED <<accounts, raw, account, environment, registered>>
        /\ \E p \in {"load", "register", "set", "clear", "over"} :
             /\ place' = [place EXCEPT ![t] = p]
             /\ p \in WithAccount => place[t] \in WithAccount
    BY <1>1 DEF Walks, Starts, NoAccountYet, OrderCreated, Refused, Raises, Goes, accounting,
       WithAccount
  <2> QED
    BY <2>1, KnownElsewhere DEF TypeOK
<1>2. ASSUME NEW t \in Issuances,
             SetChallenge(t) \/ SetUnanswered(t) \/ Validated(t) \/ ClearChallenge(t)
               \/ ClearFails(t) \/ CertificateOpened(t) \/ CertificateStored(t)
      PROVE  KnownAccounts'
  <2>1. /\ UNCHANGED <<accounts, raw, account, environment, registered>>
        /\ \E p \in {"wait", "clear", "save", "store", "over"} :
             /\ place' = [place EXCEPT ![t] = p]
             /\ place[t] \in WithAccount
    BY <1>2 DEF SetChallenge, SetUnanswered, Validated, ClearChallenge, ClearFails,
       CertificateOpened, CertificateStored, Goes, accounting, WithAccount
  <2> QED
    BY <2>1, KnownElsewhere DEF TypeOK
<1>3. ASSUME NEW t \in Issuances, AccountLoaded(t) PROVE KnownAccounts'
  BY <1>3 DEF AccountLoaded, Goes, accounting, KnownAccounts, Sound, TypeOK, WithAccount
<1>4. ASSUME NEW t \in Issuances, AccountRegistered(t) PROVE KnownAccounts'
  BY <1>4 DEF AccountRegistered, Goes, KnownAccounts, Sound, TypeOK, WithAccount
<1>5. ASSUME NEW t \in Issuances, SaveReads(t) PROVE KnownAccounts'
  BY <1>5 DEF SaveReads, Goes, KnownAccounts, Sound, TypeOK, WithAccount
<1>6. ASSUME NEW t \in Issuances, SaveOpens(t) PROVE KnownAccounts'
  BY <1>6 DEF SaveOpens, Goes, KnownAccounts, Sound, TypeOK, WithAccount, NoAccounts
<1>7. ASSUME NEW t \in Issuances, SaveWrites(t) PROVE KnownAccounts'
  <2> DEFINE text == [raw[t] EXCEPT ![environment[t]] = t]
  <2>1. /\ accounts' = text \/ accounts' = NoAccounts
        /\ place[t] = "write" /\ place' = [place EXCEPT ![t] = "order"]
        /\ UNCHANGED <<raw, account, environment, registered>>
    BY <1>7, Zenon DEF SaveWrites, Goes
  <2>2. account[t] = t /\ t \in registered
    BY <2>1 DEF KnownAccounts
  <2>3. \A e \in Environments : text[e] # None => Sound(text[e], e)
    BY <2>2 DEF KnownAccounts, Sound, TypeOK
  <2>4. \A e \in Environments : accounts'[e] # None => Sound(accounts'[e], e)
    BY <2>1, <2>3 DEF NoAccounts
  <2>5. \A u \in Issuances : u # t => place'[u] = place[u]
    BY <2>1 DEF TypeOK
  <2>6. place'[t] = "order"
    BY <2>1 DEF TypeOK
  <2>7. Sound(account[t], environment[t])
    BY <2>2 DEF Sound
  <2> HIDE DEF text
  <2> QED
    BY <2>1, <2>4, <2>5, <2>6, <2>7 DEF KnownAccounts, Sound
<1>8. CASE RouteStep
  BY <1>8, RouteLeavesThreads, KnownElsewhere DEF threads, accounting
<1>9. CASE Restart
  <2>1. /\ UNCHANGED <<accounts, raw, account, environment, registered>>
        /\ \A t \in Issuances : place'[t] \in {"none", "over"}
    BY <1>9 DEF Restart, accounting
  <2> QED
    BY <2>1, KnownElsewhere DEF WithAccount
<1>10. CASE UNCHANGED vars
  BY <1>10, KnownElsewhere DEF vars, threads, accounting
<1> QED
  BY <1>1, <1>2, <1>3, <1>4, <1>5, <1>6, <1>7, <1>8, <1>9, <1>10, Steps

THEOREM KnownInvariant == Spec => []KnownAccounts
<1>1. Init => KnownAccounts
  BY KnownInit
<1>2. TypeOK /\ TypeOK' /\ KnownAccounts /\ [Next]_vars => KnownAccounts'
  BY KnownNext
<1> QED
  BY <1>1, <1>2, IssuanceTypeCorrect, PTL DEF Spec

\* However many threads register an account, load one and save one at the same
\* time, and wherever they die: no order is placed with an account the CA does not
\* know, or with one of another environment.
THEOREM OrdersAreBacked == Spec => []OrdersHaveAccounts
<1>1. TypeOK /\ KnownAccounts => OrdersHaveAccounts
  BY DEF KnownAccounts, OrdersHaveAccounts, Sound
<1> QED
  BY <1>1, KnownInvariant, IssuanceTypeCorrect, PTL

------------------------------------------------------------------------------
(* The file of accounts: as long as no two saves have overlapped, at most  *)
(* one thread is between its read and its write, and knows what was saved. *)
(* The file is empty only inside such a save, or after a death in it.      *)

\* An issuance is saved once, on its way to its order.
Unsaved == {"none", "load", "register", "read", "open", "write"}

SavesApart ==
  ~overlapped =>
    /\ \A t, u \in Issuances :
         place[t] \in {"open", "write"} /\ place[u] \in {"open", "write"} => t = u
    /\ \A t \in Issuances :
         /\ place[t] = "open" => file = "whole" /\ raw[t] = accounts
         /\ place[t] = "write" =>
              file = "empty" /\ \A u \in saved : raw[t][environment[u]] # None
         /\ place[t] \in {"open", "write"} => t \in registered
         /\ place[t] \in Unsaved => t \notin saved
    /\ file = "whole" => \A t \in saved : accounts[environment[t]] # None
    /\ file # "whole" =>
         /\ file = "empty"
         /\ \E t \in registered \ saved : place[t] \in {"write", "over"}

LEMMA ApartInit == Init => SavesApart
BY DEF Init, SavesApart

\* A step that begins no save and touches nothing of it.
LEMMA ApartElsewhere ==
  ASSUME TypeOK, SavesApart,
         UNCHANGED <<accounts, file, raw, environment, saved, overlapped>>,
         registered \subseteq registered',
         \A t \in Issuances :
           /\ place'[t] \in {"open", "write"} => place'[t] = place[t]
           /\ place'[t] \in Unsaved => place[t] \in Unsaved
           /\ place[t] \in {"write", "over"} => place'[t] \in {place[t], "over"}
  PROVE  SavesApart'
<1> SUFFICES ASSUME ~overlapped PROVE SavesApart'
  BY DEF SavesApart
<1>1. /\ file = "whole" => \A t \in saved : accounts[environment[t]] # None
      /\ file # "whole" => file = "empty"
  BY DEF SavesApart
<1>2. ASSUME file # "whole"
      PROVE  \E t \in registered' \ saved : place'[t] \in {"write", "over"}
  <2>1. PICK t \in registered \ saved : place[t] \in {"write", "over"}
    BY <1>2 DEF SavesApart
  <2> QED
    BY <2>1 DEF TypeOK
<1>3. \A t, u \in Issuances :
        place'[t] \in {"open", "write"} /\ place'[u] \in {"open", "write"} => t = u
  BY DEF SavesApart
<1>4. \A t \in Issuances :
        /\ place'[t] = "open" => file = "whole" /\ raw[t] = accounts
        /\ place'[t] = "write" =>
             file = "empty" /\ \A u \in saved : raw[t][environment[u]] # None
        /\ place'[t] \in {"open", "write"} => t \in registered'
        /\ place'[t] \in Unsaved => t \notin saved
  BY DEF SavesApart
<1> QED
  BY <1>1, <1>2, <1>3, <1>4 DEF SavesApart

LEMMA ApartNext == TypeOK /\ KnownAccounts /\ SavesApart /\ [Next]_vars => SavesApart'
<1> SUFFICES ASSUME TypeOK, KnownAccounts, SavesApart, [Next]_vars PROVE SavesApart'
  OBVIOUS
<1>1. ASSUME NEW t \in Issuances,
             Walks(t) \/ AccountLoaded(t) \/ AccountRegistered(t) \/ SetChallenge(t)
               \/ SetUnanswered(t) \/ Validated(t) \/ ClearChallenge(t) \/ ClearFails(t)
               \/ CertificateOpened(t) \/ CertificateStored(t)
      PROVE  SavesApart'
  <2>1. /\ UNCHANGED <<accounts, file, raw, environment, saved, overlapped>>
        /\ registered \subseteq registered'
    BY <1>1 DEF Walks, Starts, NoAccountYet, OrderCreated, Refused, Raises, AccountLoaded,
       AccountRegistered, SetChallenge, SetUnanswered, Validated, ClearChallenge, ClearFails,
       CertificateOpened, CertificateStored, accounting
  <2>2. /\ place[t] \notin {"write", "over"}
        /\ \E p \in Places \ {"open", "write"} :
             place' = [place EXCEPT ![t] = p] /\ (p \in Unsaved => place[t] \in Unsaved)
    BY <1>1 DEF Walks, Starts, NoAccountYet, OrderCreated, Refused, Raises, AccountLoaded,
       AccountRegistered, SetChallenge, SetUnanswered, Validated, ClearChallenge, ClearFails,
       CertificateOpened, CertificateStored, Goes, Places, Unsaved
  <2> QED
    BY <2>1, <2>2, ApartElsewhere DEF TypeOK
<1>2. ASSUME NEW t \in Issuances, SaveReads(t) PROVE SavesApart'
  <2>1. /\ file = "whole" /\ place' = [place EXCEPT ![t] = "open"]
        /\ raw' = [raw EXCEPT ![t] = accounts] /\ place[t] = "read"
        /\ UNCHANGED <<environment, accounts, file, saved, registered>>
    BY <1>2 DEF SaveReads, Goes
  <2>4. t \in registered
    BY <2>1 DEF KnownAccounts
  <2>2. ASSUME ~overlapped' PROVE ~overlapped /\ \A u \in Issuances : place[u] # "open"
    BY <1>2, <2>2 DEF SaveReads
  <2>3. ASSUME ~overlapped' PROVE \A u \in Issuances : place[u] # "write"
    BY <2>1, <2>2, <2>3 DEF SavesApart
  <2> QED
    BY <2>1, <2>2, <2>3, <2>4 DEF SavesApart, TypeOK, Unsaved
<1>3. ASSUME NEW t \in Issuances, SaveOpens(t) PROVE SavesApart'
  <2>1. /\ place[t] = "open" /\ place' = [place EXCEPT ![t] = "write"]
        /\ file' = "empty"
        /\ UNCHANGED <<environment, raw, saved, overlapped, registered>>
    BY <1>3 DEF SaveOpens, Goes
  <2>2. ASSUME ~overlapped PROVE t \in registered \ saved
    BY <2>1, <2>2 DEF SavesApart, Unsaved
  <2> QED
    BY <2>1, <2>2 DEF SavesApart, TypeOK, Unsaved
<1>4. ASSUME NEW t \in Issuances, SaveWrites(t) PROVE SavesApart'
  <2> DEFINE text == [raw[t] EXCEPT ![environment[t]] = t]
  <2>1. /\ place[t] = "write" /\ place' = [place EXCEPT ![t] = "order"]
        /\ (file' = "whole" /\ accounts' = text) \/ file # "empty"
        /\ saved' = saved \union {t}
        /\ UNCHANGED <<environment, raw, overlapped, registered>>
    BY <1>4, Zenon DEF SaveWrites, Goes
  <2>2. SUFFICES ASSUME ~overlapped PROVE SavesApart'
    BY <2>1 DEF SavesApart
  <2>3. file = "empty" /\ \A u \in saved : raw[t][environment[u]] # None
    BY <2>1, <2>2 DEF SavesApart
  <2>4. \A u \in Issuances : place'[u] \notin {"open", "write"}
    BY <2>1, <2>2 DEF SavesApart, TypeOK
  <2>5. \A u \in saved' : text[environment[u]] # None
    BY <2>1, <2>3, IdsAssumption DEF TypeOK
  <2>6. accounts' = text
    BY <2>1, <2>3
  <2>7. file' = "whole"
    BY <2>1, <2>3
  <2>8. \A u \in Issuances : place'[u] \in Unsaved => u # t /\ place[u] \in Unsaved
    BY <2>1 DEF TypeOK, Unsaved
  <2> HIDE DEF text
  <2> QED
    BY <2>1, <2>2, <2>4, <2>5, <2>6, <2>7, <2>8 DEF SavesApart
<1>5. CASE RouteStep
  BY <1>5, RouteLeavesThreads, ApartElsewhere DEF threads, accounting
<1>6. CASE Restart
  <2>1. /\ UNCHANGED <<accounts, file, raw, environment, saved, overlapped>>
        /\ registered' = registered
        /\ \A t \in Issuances : place'[t] = IF place[t] = "none" THEN "none" ELSE "over"
    BY <1>6 DEF Restart, accounting
  <2> QED
    BY <2>1, ApartElsewhere DEF Unsaved
<1>7. CASE UNCHANGED vars
  BY <1>7, ApartElsewhere DEF vars, threads, accounting
<1> QED
  BY <1>1, <1>2, <1>3, <1>4, <1>5, <1>6, <1>7, Steps

\* Unless two threads save at the same time, an account that was saved stays in the
\* file, or in what the one thread that has emptied the file is about to write; it
\* is lost only to the death of the process inside a save, which leaves the file
\* empty.
THEOREM SavedAccountsAreKept == Spec => []SavedAccountsStay
<1>1. Init => SavesApart
  BY ApartInit
<1>2. TypeOK /\ KnownAccounts /\ SavesApart /\ [Next]_vars => SavesApart'
  BY ApartNext
<1>3. TypeOK /\ SavesApart => SavedAccountsStay
  BY DEF SavesApart, SavedAccountsStay, TypeOK
<1> QED
  BY <1>1, <1>2, <1>3, IssuanceTypeCorrect, KnownInvariant, PTL DEF Spec

------------------------------------------------------------------------------
(* The challenges: an order that is alone shares its name with no other    *)
(* pending order, so that none can clear what it has set.                  *)

AloneUnderName ==
  \A t \in alone :
    /\ Pending(t)
    /\ \A u \in Issuances \ {t} : Pending(u) => ~SharesName(t, u)

ChallengesInv == ChallengeOnlyWhilePending /\ LoneOrderAnswered /\ AloneUnderName

LEMMA ChallengesInit == Init => ChallengesInv
BY DEF Init, ChallengesInv, ChallengeOnlyWhilePending, LoneOrderAnswered, AloneUnderName

\* A step that leaves the challenges alone, and which orders are pending.
LEMMA ChallengesElsewhere ==
  ASSUME TypeOK, ChallengesInv, UNCHANGED <<domain, provider, dns>>,
         \A t \in Issuances : /\ Pending(t)' <=> Pending(t)
                              /\ place'[t] = "wait" => place[t] = "wait"
  PROVE  ChallengesInv'
BY DEF ChallengesInv, ChallengeOnlyWhilePending, LoneOrderAnswered, AloneUnderName,
   TypeOK, SharesName, Replaces, dns

LEMMA PublishedAnswers ==
  ASSUME TypeOK, NEW t \in Issuances, NEW p \in Providers, NEW d \in Domains, NEW u
  PROVE  /\ u \in Published(t)[p][d] => u = t \/ u \in challenges[p][d]
         /\ u = t /\ p = provider[t] /\ d = domain[t] => u \in Published(t)[p][d]
         /\ u = t /\ u \in Published(t)[p][d]
              => (p = provider[t] /\ d = domain[t]) \/ u \in challenges[p][d]
         /\ u \in challenges[p][d] /\ (p # provider[t] \/ d # domain[t] \/ ~Replaces(t))
              => u \in Published(t)[p][d]
BY DEF Published, TypeOK

LEMMA ClearedAnswers ==
  ASSUME TypeOK, NEW t \in Issuances, NEW p \in Providers, NEW d \in Domains, NEW u
  PROVE  /\ u \in Cleared(t)[p][d] => u \in challenges[p][d]
         /\ t \in Cleared(t)[p][d] => p # provider[t] \/ d # domain[t]
         /\ u \in challenges[p][d] /\ (p # provider[t] \/ d # domain[t])
              => u \in Cleared(t)[p][d]
         /\ u \in challenges[p][d] /\ u # t /\ ~Replaces(t) => u \in Cleared(t)[p][d]
BY DEF Cleared, TypeOK

\* Setting a challenge, whether the order goes on or hears no answer.
LEMMA SetKeeps ==
  ASSUME TypeOK, ChallengesInv, NEW t \in Issuances, SetChallenge(t) \/ SetUnanswered(t)
  PROVE  ChallengesInv'
<1>1. /\ challenges' = Published(t)
      /\ place[t] = "set" /\ ~Pending(t)
      /\ UNCHANGED <<domain, provider>>
      /\ \A u \in Issuances \ {t} : place'[u] = place[u]
  BY DEF SetChallenge, SetUnanswered, Goes, Pending, TypeOK
<1>2. \/ place'[t] = "wait" /\ left' = left
         /\ alone' = (alone \ Others(t)) \union (IF Others(t) = {} THEN {t} ELSE {})
      \/ place'[t] = "over" /\ left' = left \union {t} /\ provider[t] # "selfdns"
         /\ alone' = alone \ Others(t)
  BY DEF SetChallenge, SetUnanswered, Goes, TypeOK
<1>3. \A u \in Issuances \ {t} : Pending(u)' <=> Pending(u)
  BY <1>1 DEF Pending
<1>4. Pending(t)' <=> place'[t] = "wait"
  BY <1>2 DEF Pending
<1>5. \A u, v : SharesName(u, v)' <=> SharesName(u, v)
  BY <1>1 DEF SharesName
<1>6. ChallengeOnlyWhilePending'
  <2> SUFFICES ASSUME NEW p \in Providers, NEW d \in Domains, NEW u \in Published(t)[p][d]
               PROVE  /\ provider[u] = p /\ domain[u] = d
                      /\ Pending(u)' \/ (u \in left' /\ p # "selfdns")
    BY <1>1 DEF ChallengeOnlyWhilePending
  <2>1. CASE u = t
    <3>1. provider[t] = p /\ domain[t] = d
      BY <2>1, PublishedAnswers DEF ChallengesInv, ChallengeOnlyWhilePending
    <3> QED
      BY <1>2, <1>4, <2>1, <3>1
  <2>2. CASE u # t
    <3>1. u \in challenges[p][d] /\ u \in Issuances
      BY <2>2, PublishedAnswers DEF TypeOK
    <3> QED
      BY <1>2, <1>3, <2>2, <3>1 DEF ChallengesInv, ChallengeOnlyWhilePending
  <2> QED
    BY <2>1, <2>2
<1>7. AloneUnderName'
  <2>1. t \notin alone
    BY <1>1 DEF ChallengesInv, AloneUnderName
  <2>2. ASSUME NEW u \in alone', u # t
        PROVE  /\ Pending(u)'
               /\ \A v \in Issuances \ {u} : Pending(v)' => ~SharesName(u, v)'
    <3>1. u \in alone /\ u \in Issuances /\ u \notin Others(t)
      BY <1>2, <2>2 DEF TypeOK
    <3>2. Pending(u) /\ ~SharesName(t, u)
      BY <2>2, <3>1 DEF ChallengesInv, AloneUnderName, Others
    <3>3. ~SharesName(u, t)
      BY <3>2 DEF SharesName
    <3> QED
      BY <1>3, <1>5, <2>2, <3>1, <3>2, <3>3 DEF ChallengesInv, AloneUnderName
  <2>3. ASSUME t \in alone'
        PROVE  /\ Pending(t)'
               /\ \A v \in Issuances \ {t} : Pending(v)' => ~SharesName(t, v)'
    <3>1. place'[t] = "wait" /\ Others(t) = {}
      BY <1>2, <2>1, <2>3
    <3> QED
      BY <1>3, <1>4, <1>5, <3>1 DEF Others
  <2> QED
    BY <2>2, <2>3 DEF AloneUnderName
<1>8. LoneOrderAnswered'
  <2> SUFFICES ASSUME NEW u \in Issuances, place'[u] = "wait", u \in alone' \/ ~Replaces(u)
               PROVE  u \in Published(t)[provider[u]][domain[u]]
    BY <1>1 DEF LoneOrderAnswered, Replaces
  <2>1. provider[u] \in Providers /\ domain[u] \in Domains
    BY DEF TypeOK
  <2>2. CASE u = t
    BY <2>1, <2>2, PublishedAnswers
  <2>3. CASE u # t
    <3>1. place[u] = "wait" /\ Pending(u)
      BY <1>1, <2>3 DEF Pending
    <3>2. CASE ~Replaces(u)
      <4>1. u \in challenges[provider[u]][domain[u]]
        BY <3>1, <3>2 DEF ChallengesInv, LoneOrderAnswered
      <4>2. provider[u] # provider[t] \/ ~Replaces(t)
        BY <3>2 DEF Replaces
      <4> QED
        BY <2>1, <4>1, <4>2, PublishedAnswers
    <3>3. CASE Replaces(u)
      <4>1. u \in alone /\ u \notin Others(t)
        BY <1>2, <2>3, <3>3
      <4>2. u \in challenges[provider[u]][domain[u]]
        BY <3>1, <4>1 DEF ChallengesInv, LoneOrderAnswered
      <4>3. provider[u] # provider[t] \/ domain[u] # domain[t]
        BY <2>3, <3>1, <4>1 DEF Others, SharesName
      <4> QED
        BY <2>1, <4>2, <4>3, PublishedAnswers
    <3> QED
      BY <3>2, <3>3
  <2> QED
    BY <2>2, <2>3
<1> QED
  BY <1>6, <1>7, <1>8 DEF ChallengesInv

\* Clearing one, or failing to.
LEMMA ClearKeeps ==
  ASSUME TypeOK, ChallengesInv, NEW t \in Issuances, ClearChallenge(t) \/ ClearFails(t)
  PROVE  ChallengesInv'
<1>1. /\ place[t] = "clear" /\ Pending(t)
      /\ place'[t] \in {"save", "over"} /\ ~Pending(t)'
      /\ UNCHANGED <<domain, provider>>
      /\ alone' = alone \ {t}
      /\ \A u \in Issuances \ {t} : place'[u] = place[u]
  BY DEF ClearChallenge, ClearFails, Goes, Pending, TypeOK
<1>2. \/ challenges' = Cleared(t) /\ left' = left
      \/ challenges' = challenges /\ left' = left \union {t} /\ provider[t] # "selfdns"
  BY DEF ClearChallenge, ClearFails
<1>3. \A u \in Issuances \ {t} : Pending(u)' <=> Pending(u)
  BY <1>1 DEF Pending
<1>4. ChallengeOnlyWhilePending'
  <2> SUFFICES ASSUME NEW p \in Providers, NEW d \in Domains, NEW u \in challenges'[p][d]
               PROVE  /\ provider[u] = p /\ domain[u] = d
                      /\ Pending(u)' \/ (u \in left' /\ p # "selfdns")
    BY <1>1 DEF ChallengeOnlyWhilePending
  <2>1. u \in challenges[p][d] /\ u \in Issuances
    BY <1>2, ClearedAnswers DEF TypeOK
  <2>2. provider[u] = p /\ domain[u] = d /\ (Pending(u) \/ (u \in left /\ p # "selfdns"))
    BY <2>1 DEF ChallengesInv, ChallengeOnlyWhilePending
  <2>3. CASE u = t
    BY <1>2, <2>2, <2>3, ClearedAnswers
  <2>4. CASE u # t
    BY <1>2, <1>3, <2>1, <2>2, <2>4
  <2> QED
    BY <2>3, <2>4
<1>5. AloneUnderName'
  <2> SUFFICES ASSUME NEW u \in alone'
               PROVE  /\ Pending(u)'
                      /\ \A v \in Issuances \ {u} : Pending(v)' => ~SharesName(u, v)'
    BY DEF AloneUnderName
  <2>1. u \in alone /\ u # t /\ u \in Issuances
    BY <1>1 DEF TypeOK
  <2> QED
    BY <1>1, <1>3, <2>1 DEF ChallengesInv, AloneUnderName, SharesName
<1>6. LoneOrderAnswered'
  <2> SUFFICES ASSUME NEW u \in Issuances, place'[u] = "wait", u \in alone' \/ ~Replaces(u)
               PROVE  u \in challenges'[provider[u]][domain[u]]
    BY <1>1 DEF LoneOrderAnswered, Replaces
  <2>1. provider[u] \in Providers /\ domain[u] \in Domains /\ u # t
    BY <1>1 DEF TypeOK
  <2>2. place[u] = "wait" /\ (u \in alone \/ ~Replaces(u))
    BY <1>1, <2>1
  <2>3. u \in challenges[provider[u]][domain[u]]
    BY <2>2 DEF ChallengesInv, LoneOrderAnswered
  <2>4. provider[u] # provider[t] \/ domain[u] # domain[t] \/ ~Replaces(t)
    <3>1. CASE u \in alone
      BY <1>1, <2>1, <3>1 DEF ChallengesInv, AloneUnderName, SharesName
    <3>2. CASE ~Replaces(u)
      BY <3>2 DEF Replaces
    <3> QED
      BY <2>2, <3>1, <3>2
  <2> QED
    BY <1>2, <2>1, <2>3, <2>4, ClearedAnswers
<1> QED
  BY <1>4, <1>5, <1>6 DEF ChallengesInv

LEMMA ChallengesNext == TypeOK /\ ChallengesInv /\ [Next]_vars => ChallengesInv'
<1> SUFFICES ASSUME TypeOK, ChallengesInv, [Next]_vars PROVE ChallengesInv'
  OBVIOUS
<1>1. ASSUME NEW t \in Issuances,
             Walks(t) \/ AccountLoaded(t) \/ AccountRegistered(t) \/ SaveReads(t)
               \/ SaveOpens(t) \/ SaveWrites(t) \/ Validated(t)
               \/ CertificateOpened(t) \/ CertificateStored(t)
      PROVE  ChallengesInv'
  <2>1. /\ UNCHANGED <<domain, provider, dns>>
        /\ \E p \in Places : /\ place' = [place EXCEPT ![t] = p]
                             /\ p \in {"wait", "clear"} <=> place[t] \in {"wait", "clear"}
                             /\ p # "wait"
    BY <1>1 DEF Walks, Starts, NoAccountYet, OrderCreated, Refused, Raises, AccountLoaded,
       AccountRegistered, SaveReads, SaveOpens, SaveWrites, Validated, CertificateOpened,
       CertificateStored, Goes, Places
  <2> QED
    BY <2>1, ChallengesElsewhere DEF TypeOK, Pending
<1>2. CASE RouteStep
  BY <1>2, RouteLeavesThreads, ChallengesElsewhere DEF threads, Pending
<1>3. CASE Restart
  <2>1. /\ \A t \in Issuances : place'[t] \in {"none", "over"}
        /\ alone' = {}
        /\ left' = left \union {t \in Issuances : Pending(t) /\ provider[t] # "selfdns"}
        /\ UNCHANGED <<domain, provider>>
        /\ \A p \in Providers, d \in Domains :
             /\ challenges'[p][d] \subseteq challenges[p][d]
             /\ p = "selfdns" => challenges'[p][d] = {}
    BY <1>3 DEF Restart
  <2>2. LoneOrderAnswered' /\ AloneUnderName'
    BY <2>1 DEF LoneOrderAnswered, AloneUnderName
  <2>3. ChallengeOnlyWhilePending'
    BY <2>1 DEF ChallengesInv, ChallengeOnlyWhilePending, TypeOK
  <2> QED
    BY <2>2, <2>3 DEF ChallengesInv
<1>4. CASE UNCHANGED vars
  BY <1>4, ChallengesElsewhere DEF vars, threads, Pending
<1> QED
  BY <1>1, <1>2, <1>3, <1>4, Steps, SetKeeps, ClearKeeps

THEOREM ChallengesInvariant == Spec => []ChallengesInv
<1>1. Init => ChallengesInv
  BY ChallengesInit
<1>2. TypeOK /\ ChallengesInv /\ [Next]_vars => ChallengesInv'
  BY ChallengesNext
<1> QED
  BY <1>1, <1>2, IssuanceTypeCorrect, PTL DEF Spec

\* Nothing is answered for an order that is over, but what a provider did not
\* delete or a dead process left with it.
THEOREM ChallengesAreCleared == Spec => []ChallengeOnlyWhilePending
BY ChallengesInvariant, PTL DEF ChallengesInv

\* No order disturbs the challenge of one of another name, and at Cloudflare not
\* even of the same.
THEOREM LoneOrdersAreAnswered == Spec => []LoneOrderAnswered
BY ChallengesInvariant, PTL DEF ChallengesInv

------------------------------------------------------------------------------
(* The keys.                                                               *)

KeysInv ==
  /\ KeyNotLost
  /\ handler.op = "delete" => handler.id \in Csrs /\ certs[handler.id] = "whole"
  /\ \A t \in Issuances \intersect kept : place[t] = "over"

LEMMA KeysInit == Init => KeysInv
BY DEF Init, KeysInv, KeyNotLost, Idle

\* A step that leaves the files alone; an issuance that is over stays over.
LEMMA KeysElsewhere ==
  ASSUME KeysInv, UNCHANGED keys,
         \A t \in Issuances : place[t] = "over" => place'[t] = "over"
  PROVE  KeysInv'
BY DEF KeysInv, KeyNotLost, keys

LEMMA RouteKeepsKeys ==
  ASSUME TypeOK, KeysInv, RouteStep
  PROVE  KeysInv'
<1> USE DEF KeysInv, KeyNotLost, TypeOK, Begins, Ends, Idle, Ids
<1>0. place' = place
  BY RouteLeavesThreads DEF threads
<1>1. ASSUME NEW c \in Csrs, CreateCsr(c) PROVE KeysInv'
  BY <1>0, <1>1, IdsAssumption DEF CreateCsr
<1>2. ASSUME NEW c \in Csrs, CsrCreated(c) PROVE KeysInv'
  BY <1>0, <1>2, IdsAssumption DEF CsrCreated
<1>3. ASSUME NEW c \in Csrs, CompleteCsr(c) PROVE KeysInv'
  BY <1>0, <1>3, IdsAssumption DEF CompleteCsr
<1>4. ASSUME NEW c \in Csrs, CertificateOfCsrStored(c) PROVE KeysInv'
  BY <1>0, <1>4, IdsAssumption DEF CertificateOfCsrStored
<1>5. ASSUME NEW c \in Csrs, CsrCompleted(c) PROVE KeysInv'
  BY <1>0, <1>5, IdsAssumption DEF CsrCompleted
<1>6. ASSUME NEW c \in Csrs, DiscardCsr(c) PROVE KeysInv'
  BY <1>0, <1>6, IdsAssumption DEF DiscardCsr
<1>7. ASSUME NEW i \in Imports, ImportCertificate(i) PROVE KeysInv'
  BY <1>0, <1>7, IdsAssumption DEF ImportCertificate
<1>8. ASSUME NEW i \in Imports, CertificateImported(i) PROVE KeysInv'
  BY <1>0, <1>8, IdsAssumption DEF CertificateImported
<1>9. ASSUME NEW i \in Ids, DeleteCertificate(i) PROVE KeysInv'
  BY <1>0, <1>9, IdsAssumption DEF DeleteCertificate
<1> QED
  BY <1>1, <1>2, <1>3, <1>4, <1>5, <1>6, <1>7, <1>8, <1>9 DEF RouteStep

LEMMA KeysNext == TypeOK /\ KeysInv /\ [Next]_vars => KeysInv'
<1> SUFFICES ASSUME TypeOK, KeysInv, [Next]_vars PROVE KeysInv'
  OBVIOUS
<1>1. ASSUME NEW t \in Issuances,
             Walks(t) \/ AccountLoaded(t) \/ AccountRegistered(t) \/ SaveReads(t)
               \/ SaveOpens(t) \/ SaveWrites(t) \/ SetChallenge(t) \/ SetUnanswered(t)
               \/ Validated(t) \/ ClearChallenge(t) \/ ClearFails(t)
      PROVE  KeysInv'
  <2>1. /\ UNCHANGED keys
        /\ place[t] # "over"
        /\ \E p \in Places : place' = [place EXCEPT ![t] = p]
    BY <1>1 DEF Walks, Starts, NoAccountYet, OrderCreated, Refused, Raises, AccountLoaded,
       AccountRegistered, SaveReads, SaveOpens, SaveWrites, SetChallenge, SetUnanswered,
       Validated, ClearChallenge, ClearFails, Goes, Places
  <2> QED
    BY <2>1, KeysElsewhere DEF TypeOK
<1>2. ASSUME NEW t \in Issuances, CertificateOpened(t) PROVE KeysInv'
  BY <1>2, IdsAssumption DEF CertificateOpened, Goes, KeysInv, KeyNotLost, TypeOK, Ids
<1>3. ASSUME NEW t \in Issuances, CertificateStored(t) PROVE KeysInv'
  BY <1>3, IdsAssumption DEF CertificateStored, Goes, KeysInv, KeyNotLost, TypeOK, Ids
<1>4. CASE Restart
  BY <1>4 DEF Restart, KeysInv, KeyNotLost, Idle
<1>5. CASE UNCHANGED vars
  BY <1>5, KeysElsewhere DEF vars, threads
<1> QED
  BY <1>1, <1>2, <1>3, <1>4, <1>5, Steps, RouteKeepsKeys

\* No key that was made or taken in is lost before a person throws it away, at
\* whatever file the process dies.
THEOREM KeysAreKept == Spec => []KeyNotLost
<1>1. Init => KeysInv
  BY KeysInit
<1>2. TypeOK /\ KeysInv /\ [Next]_vars => KeysInv'
  BY KeysNext
<1>3. KeysInv => KeyNotLost
  BY DEF KeysInv
<1> QED
  BY <1>1, <1>2, <1>3, IssuanceTypeCorrect, PTL DEF Spec
=============================================================================
