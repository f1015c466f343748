------------------------------ MODULE Accounts ------------------------------
(***************************************************************************)
(* The accounts of app/auth: the file of users (store.py), the sessions    *)
(* and half-finished logins kept in memory (sessions.py), the codes of a   *)
(* second factor (totp.py), API keys (api_keys.py) and single sign-on      *)
(* (saml.py), under the handlers of routes_auth.py and routes_saml.py.     *)
(*                                                                         *)
(* Every handler runs on the event loop and awaits nothing once its body   *)
(* has been read, its authorization included, so a request is one step; a  *)
(* refused request changes nothing that is modelled.  What goes wrong here *)
(* goes wrong over several requests, of several people, with a restart, an *)
(* expiry or a step of the wall clock in between.                          *)
(***************************************************************************)
EXTENDS Naturals, FiniteSets

CONSTANTS
  Names,       \* usernames; those of single sign-on are addresses
  Roles,       \* the roles in use
  Keys,        \* API keys
  MaxPeriod,   \* bound: the last TOTP period of the clock
  MaxSecrets,  \* bound: TOTP secrets ever drawn
  MaxTokens,   \* bound: pending logins and SAML requests ever drawn
  MaxGrants    \* bound: codes and SAML answers ever accepted

AllRoles == {"admin", "operador", "auditor", "leitor"}

ASSUME RolesAssumption == {"admin", "leitor"} \subseteq Roles /\ Roles \subseteq AllRoles
ASSUME BoundsAssumption ==
  /\ MaxPeriod \in Nat \ {0, 1} /\ MaxSecrets \in Nat \ {0} /\ MaxTokens \in Nat
  /\ MaxGrants \in Nat \ {0}

VARIABLES
  now,         \* the wall clock, in TOTP periods
  users,       \* admin.json
  whole,       \* admin.json can be read
  sessions,    \* session_store: who has a session, or more than one
  pending,     \* pending_login_store: the password was right
  idp,         \* single sign-on is configured
  requests,    \* pending_saml_requests
  keys,        \* api_keys: those whose role is admin
  secrets,     \* TOTP secrets drawn so far
  tokens,      \* pending logins and requests drawn so far
  accepted,    \* history: the codes and SAML answers accepted so far
  grants       \* history: how often one was accepted

memory == <<sessions, pending, requests, tokens>>
history == <<accepted, grants>>
disk == <<users, whole, idp, keys>>
vars == <<now, disk, memory, secrets, history>>

------------------------------------------------------------------------------
\* Secret 0 is the empty secret and counter 0 stands for None.
Counters == 0..(MaxPeriod + 1)
Account == [role : Roles \union {"none"}, source : {"local", "saml"},
            mfa : BOOLEAN, secret : 0..MaxSecrets,
            pending_secret : 0..MaxSecrets, last : Counters]

NewAccount(r, s) ==
  [role |-> r, source |-> s, mfa |-> FALSE, secret |-> 0, pending_secret |-> 0,
   last |-> 0]
NoAccount == NewAccount("none", "local")

Known == {n \in Names : users[n].role # "none"}
Admins == {n \in Known : users[n].role = "admin"}

Proofs == [by : {"code", "sso"}, of : Nat, at : Counters]
CodeProof(s, n) == [by |-> "code", of |-> s, at |-> n]
SsoProof(r) == [by |-> "sso", of |-> r, at |-> 0]

\* get_authenticated_username: the token is good and the account still exists.
LoggedIn == sessions \intersect Known

\* require_admin, for an identity other than those in S.
AdminBeside(S) ==
  \/ \E n \in LoggedIn \ S : users[n].role = "admin"
  \/ keys # {}

\* Fault: the last counter may be used again.
FaultNotBefore(s, n, last) ==
  n + 1 >= now /\ n <= now + 1 /\ n >= last

\* verify_totp: which counters a code may have now, of those after the last.
Verifies(s, n, last) ==
  n + 1 >= now /\ n <= now + 1 /\ n > last

\* No account was ever made, or an earlier version made its only one, with or
\* without a second factor, whose counters it did not keep.
Init ==
  /\ now \in 2..MaxPeriod
  /\ \/ users = [n \in Names |-> NoAccount] /\ secrets = 0 /\ accepted = {}
     \/ \E n \in Names :
          /\ users = [m \in Names |-> IF m = n THEN NewAccount("admin", "local")
                                               ELSE NoAccount]
          /\ secrets = 0
          /\ accepted = {}
     \/ \E n \in Names :
          /\ users = [m \in Names |->
                        IF m = n THEN [NewAccount("admin", "local") EXCEPT
                                         !.mfa = TRUE, !.secret = 1]
                                 ELSE NoAccount]
          /\ secrets = 1
          /\ accepted = {CodeProof(1, 0)}
  /\ whole = TRUE
  /\ sessions = {}
  /\ pending = {}
  /\ idp = FALSE
  /\ requests = {}
  /\ keys = {}
  /\ tokens = 0
  /\ grants = Cardinality(accepted)

Accepts(p) ==
  /\ grants < MaxGrants
  /\ grants' = grants + 1
  /\ accepted' = accepted \union {p}

------------------------------------------------------------------------------
(* Setup, login, the second step and logout.                               *)

Setup(n) ==
  /\ whole
  /\ Known = {}
  /\ users' = [users EXCEPT ![n] = NewAccount("admin", "local")]
  /\ sessions' = sessions \union {n}
  /\ UNCHANGED <<now, whole, pending, idp, requests, tokens, keys, secrets, history>>

\* The password is right and nothing else is asked.
LoginSucceeds(n) ==
  /\ whole
  /\ n \in Known
  /\ users[n].source = "local"
  /\ ~users[n].mfa
  /\ sessions' = sessions \union {n}
  /\ UNCHANGED <<now, disk, pending, requests, tokens, secrets, history>>

LoginAsksForCode(n) ==
  /\ whole
  /\ n \in Known
  /\ users[n].source = "local"
  /\ users[n].mfa
  /\ tokens < MaxTokens
  /\ tokens' = tokens + 1
  /\ pending' = pending \union {[id |-> tokens + 1, name |-> n]}
  /\ UNCHANGED <<now, disk, sessions, requests, secrets, history>>

\* Fault: the account keeps the offset in the window instead of the counter.
FaultKeepsOffset(p, n) ==
  /\ whole
  /\ p \in pending
  /\ p.name \in Known
  /\ users[p.name].mfa
  /\ Verifies(users[p.name].secret, n, users[p.name].last)
  /\ users' = [users EXCEPT ![p.name].last = n - now]
  /\ Accepts(CodeProof(users[p.name].secret, n))
  /\ pending' = pending \ {p}
  /\ sessions' = sessions \union {p.name}
  /\ UNCHANGED <<now, whole, idp, requests, tokens, keys, secrets>>

\* A pending login names its user: the account is looked up again.
LoginVerifyMfa(p, n) ==
  /\ whole
  /\ p \in pending
  /\ p.name \in Known
  /\ users[p.name].mfa
  /\ Verifies(users[p.name].secret, n, users[p.name].last)
  /\ users' = [users EXCEPT ![p.name].last = n]
  /\ Accepts(CodeProof(users[p.name].secret, n))
  /\ pending' = pending \ {p}
  /\ sessions' = sessions \union {p.name}
  /\ UNCHANGED <<now, whole, idp, requests, tokens, keys, secrets>>

\* The last session ends: by logout, by its expiry, or because its account is
\* found to be gone when it is used.
SessionEnds(n) ==
  /\ sessions' = sessions \ {n}
  /\ UNCHANGED <<now, disk, pending, requests, tokens, secrets, history>>

PendingLoginExpires(p) ==
  /\ pending' = pending \ {p}
  /\ UNCHANGED <<now, disk, sessions, requests, tokens, secrets, history>>

------------------------------------------------------------------------------
(* The second factor of one's own account.                                 *)

\* Fault: the new secret counts at once when there was one before.
FaultEnrollsAtOnce(n) ==
  /\ whole
  /\ n \in LoggedIn
  /\ secrets < MaxSecrets
  /\ secrets' = secrets + 1
  /\ users' = [users EXCEPT ![n].pending_secret = secrets + 1,
                            ![n].secret = IF @ = 0 THEN 0 ELSE secrets + 1]
  /\ UNCHANGED <<now, whole, idp, keys, memory, history>>

MfaEnroll(n) ==
  /\ whole
  /\ n \in LoggedIn
  /\ secrets < MaxSecrets
  /\ secrets' = secrets + 1
  /\ users' = [users EXCEPT ![n].pending_secret = secrets + 1]
  /\ UNCHANGED <<now, whole, idp, keys, memory, history>>

MfaEnrollConfirm(n, counter) ==
  /\ whole
  /\ n \in LoggedIn
  /\ users[n].pending_secret # 0
  /\ Verifies(users[n].pending_secret, counter, 0)
  /\ users' = [users EXCEPT ![n].secret = users[n].pending_secret,
                            ![n].pending_secret = 0,
                            ![n].mfa = TRUE,
                            ![n].last = counter]
  /\ Accepts(CodeProof(users[n].pending_secret, counter))
  /\ UNCHANGED <<now, whole, idp, keys, memory, secrets>>

\* Nobody knows the password of an account of single sign-on.
MfaDisable(n) ==
  /\ whole
  /\ n \in LoggedIn
  /\ users[n].source = "local"
  /\ users' = [users EXCEPT ![n].mfa = FALSE, ![n].secret = 0,
                            ![n].pending_secret = 0]
  /\ UNCHANGED <<now, whole, idp, keys, memory, secrets, history>>

------------------------------------------------------------------------------
(* What administrators do, by a session or by an API key.                  *)

CreateUser(n, r) ==
  /\ whole
  /\ AdminBeside({})
  /\ n \notin Known
  /\ users' = [users EXCEPT ![n] = NewAccount(r, "local")]
  /\ UNCHANGED <<now, whole, idp, keys, memory, secrets, history>>

\* Fault: nobody counts the administrators.
FaultDemotesLast(n, r) ==
  /\ whole
  /\ AdminBeside({})
  /\ n \in Known
  /\ users' = [users EXCEPT ![n].role = r]
  /\ UNCHANGED <<now, whole, idp, keys, memory, secrets, history>>

UpdateUserRole(n, r) ==
  /\ whole
  /\ AdminBeside({})
  /\ n \in Known
  /\ n \in Admins /\ r # "admin" => Admins # {n}
  /\ users' = [users EXCEPT ![n].role = r]
  /\ UNCHANGED <<now, whole, idp, keys, memory, secrets, history>>

\* Sessions and pending logins of the account stay: they are looked at, and
\* refused, when they are used.
DeleteUser(n) ==
  /\ whole
  /\ AdminBeside({n})
  /\ n \in Known
  /\ n \in Admins => Admins # {n}
  /\ users' = [users EXCEPT ![n] = NoAccount]
  /\ UNCHANGED <<now, whole, idp, keys, memory, secrets, history>>

\* A key of another role changes nothing here.
CreateApiKey(k) ==
  /\ AdminBeside({})
  /\ keys' = keys \union {k}
  /\ UNCHANGED <<now, users, whole, idp, memory, secrets, history>>

RevokeApiKey(k) ==
  /\ AdminBeside({})
  /\ keys' = keys \ {k}
  /\ UNCHANGED <<now, users, whole, idp, memory, secrets, history>>

------------------------------------------------------------------------------
(* Single sign-on.                                                         *)

SaveSamlConfig ==
  /\ AdminBeside({})
  /\ idp' = TRUE
  /\ UNCHANGED <<now, users, whole, keys, memory, secrets, history>>

SamlLogin ==
  /\ idp
  /\ tokens < MaxTokens
  /\ tokens' = tokens + 1
  /\ requests' = requests \union {tokens + 1}
  /\ UNCHANGED <<now, disk, sessions, pending, secrets, history>>

\* An answer that is refused, for what it says or because the address is that
\* of a local account, has used up its request; so has one that comes too late.
SamlRequestEnds(r) ==
  /\ requests' = requests \ {r}
  /\ UNCHANGED <<now, disk, sessions, pending, tokens, secrets, history>>

\* Fault: the request is looked up and not removed.
FaultPeeks(r, n) ==
  /\ whole
  /\ idp
  /\ r \in requests
  /\ n \in Known => users[n].source = "saml"
  /\ users' = [users EXCEPT ![n] = IF n \in Known THEN @
                                                  ELSE NewAccount("leitor", "saml")]
  /\ Accepts(SsoProof(r))
  /\ sessions' = sessions \union {n}
  /\ UNCHANGED <<now, whole, pending, idp, requests, tokens, keys, secrets>>

SamlAcs(r, n) ==
  /\ whole
  /\ idp
  /\ r \in requests
  /\ requests' = requests \ {r}
  /\ n \in Known => users[n].source = "saml"
  /\ users' = [users EXCEPT ![n] = IF n \in Known THEN @
                                                  ELSE NewAccount("leitor", "saml")]
  /\ Accepts(SsoProof(r))
  /\ sessions' = sessions \union {n}
  /\ UNCHANGED <<now, whole, pending, idp, tokens, keys, secrets>>

------------------------------------------------------------------------------
\* The wall clock goes on, or is set.
ClockMoves ==
  /\ now' \in 2..MaxPeriod
  /\ UNCHANGED <<disk, memory, secrets, history>>

\* The process dies, perhaps between the truncation of admin.json and the end
\* of write_text, and starts again: what was in memory is gone.
Restart ==
  /\ whole' \in {whole, FALSE}
  /\ sessions' = {}
  /\ pending' = {}
  /\ requests' = {}
  /\ UNCHANGED <<now, users, idp, keys, tokens, secrets, history>>

Next ==
  \/ \E n \in Names : Setup(n) \/ LoginSucceeds(n) \/ LoginAsksForCode(n)
  \/ \E p \in pending, n \in Counters : LoginVerifyMfa(p, n)
  \/ \E n \in sessions : SessionEnds(n)
  \/ \E p \in pending : PendingLoginExpires(p)
  \/ \E n \in Names : MfaEnroll(n) \/ MfaDisable(n)
  \/ \E n \in Names, counter \in Counters : MfaEnrollConfirm(n, counter)
  \/ \E n \in Names, r \in Roles : CreateUser(n, r) \/ UpdateUserRole(n, r)
  \/ \E n \in Names : DeleteUser(n)
  \/ \E k \in Keys : CreateApiKey(k) \/ RevokeApiKey(k)
  \/ SaveSamlConfig
  \/ SamlLogin
  \/ \E r \in requests : SamlRequestEnds(r)
  \/ \E r \in requests, n \in Names : SamlAcs(r, n)
  \/ ClockMoves
  \/ Restart

Spec == Init /\ [][Next]_vars

------------------------------------------------------------------------------
TypeOK ==
  /\ now \in 2..MaxPeriod
  /\ users \in [Names -> Account]
  /\ whole \in BOOLEAN
  /\ sessions \subseteq Names
  /\ pending \subseteq [id : 1..tokens, name : Names]
  /\ idp \in BOOLEAN
  /\ requests \subseteq 1..tokens
  /\ keys \subseteq Keys
  /\ secrets \in 0..MaxSecrets
  /\ tokens \in 0..MaxTokens
  /\ accepted \subseteq Proofs
  /\ grants \in 0..MaxGrants

\* Once there is an account there is an administrator, whoever removes, demotes
\* or creates whom, by session or by key.
AdminRemains == Known # {} => Admins # {}

\* No code of a second factor and no answer of single sign-on lets anybody in
\* twice: not in the next period of its window, after the clock was set back,
\* with another pending login or after the factor was renewed.
AcceptedOnce == grants = Cardinality(accepted)

\* A second factor is never in force with a secret whose codes its owner has
\* not shown to have, however often it is enrolled, disabled and renewed.
EnforcedFactorWasProved ==
  \A n \in Names : users[n].mfa =>
    /\ users[n].secret # 0
    /\ \E p \in accepted : p.by = "code" /\ p.of = users[n].secret

------------------------------------------------------------------------------
(***************************************************************************)
(* The inductive invariant: what keeps a code from being accepted again is *)
(* the counter of the account, as long as no two accounts share a secret   *)
(* and a secret that is still pending has let nobody in.                   *)
(***************************************************************************)
AcceptedFor(s) == {p \in accepted : p.by = "code" /\ p.of = s}

SecretsOf(n) == {users[n].secret, users[n].pending_secret} \ {0}

\* Secrets are drawn once, for one account, and for one of its two places.
SecretsApart ==
  /\ \A n \in Names : \A s \in SecretsOf(n) : s <= secrets
  /\ \A n, m \in Names : n # m => SecretsOf(n) \intersect SecretsOf(m) = {}
  /\ \A n \in Names :
       users[n].pending_secret # 0 => users[n].secret # users[n].pending_secret

\* What was accepted is used up: by the counter of the account, by the pending
\* secret that became the secret, by the request that was removed.
UsedUp ==
  /\ \A p \in accepted : p.of <= IF p.by = "code" THEN secrets ELSE tokens
  /\ \A n \in Names :
       /\ users[n].secret # 0
            => \A p \in AcceptedFor(users[n].secret) : p.at <= users[n].last
       /\ users[n].pending_secret # 0 => AcceptedFor(users[n].pending_secret) = {}
  /\ \A r \in requests : SsoProof(r) \notin accepted

\* Keys and single sign-on are made by an administrator, so that an account
\* they create is never the first.
AdminOnceSetUp == Known # {} \/ keys # {} \/ idp => Admins # {}

IInv ==
  /\ TypeOK
  /\ AdminOnceSetUp
  /\ AcceptedOnce /\ IsFiniteSet(accepted)
  /\ EnforcedFactorWasProved
  /\ SecretsApart
  /\ UsedUp
=============================================================================
