--------------------------- MODULE AccountsProofs ---------------------------
(***************************************************************************)
(* Proofs about Accounts, for any people, keys, secrets and tokens and for *)
(* a wall clock that may be set to anything: administrators remain, what   *)
(* lets somebody in does so once, and no second factor is in force that    *)
(* was not proved.                                                         *)
(***************************************************************************)
EXTENDS Accounts, TLAPS, FiniteSetTheorems

------------------------------------------------------------------------------
(* Types.                                                                  *)

LEMMA NewAccountType ==
  ASSUME NEW r \in Roles \union {"none"}, NEW s \in {"local", "saml"}
  PROVE  NewAccount(r, s) \in Account
  BY BoundsAssumption DEF NewAccount, Account, Counters

LEMMA FactorGiven ==
  ASSUME NEW a \in Account, NEW s \in 0..MaxSecrets
  PROVE  [a EXCEPT !.mfa = TRUE, !.secret = s] \in Account
  BY Zenon DEF Account

LEMMA FactorTaken ==
  ASSUME NEW a \in Account, NEW s \in 0..MaxSecrets
  PROVE  [a EXCEPT !.mfa = FALSE, !.secret = s, !.pending_secret = s] \in Account
  BY Zenon DEF Account

LEMMA FactorConfirmed ==
  ASSUME NEW a \in Account, NEW s \in 0..MaxSecrets, NEW t \in 0..MaxSecrets,
         NEW c \in Counters
  PROVE  [a EXCEPT !.secret = s, !.pending_secret = t, !.mfa = TRUE, !.last = c]
           \in Account
  BY Zenon DEF Account

LEMMA SomeRoles == "admin" \in Roles /\ "leitor" \in Roles
  BY RolesAssumption

Fresh(a) ==
  a.mfa = FALSE /\ a.secret = 0 /\ a.pending_secret = 0 /\ a.last = 0

\* The initial states, field by field: no accounts, or one of an administrator,
\* with or without a second factor.
LEMMA InitShape ==
  ASSUME Init
  PROVE  /\ \/ \A n \in Names : users[n].role = "none"
            \/ \E n \in Names : users[n].role = "admin"
         /\ \/ accepted = {} /\ \A n \in Names : Fresh(users[n])
            \/ \E n \in Names :
                 /\ \A m \in Names \ {n} : Fresh(users[m])
                 /\ users[n].secret = 1 /\ users[n].pending_secret = 0
                 /\ users[n].last = 0
                 /\ accepted = {CodeProof(1, 0)}
                 /\ secrets = 1
<1>1. NoAccount.role = "none" /\ Fresh(NoAccount)
  BY Zenon DEF NoAccount, NewAccount, Fresh
<1>2. NewAccount("admin", "local").role = "admin" /\ Fresh(NewAccount("admin", "local"))
  BY Zenon DEF NewAccount, Fresh
<1> DEFINE legacy == [NewAccount("admin", "local") EXCEPT !.mfa = TRUE, !.secret = 1]
<1>3. /\ legacy.role = "admin" /\ legacy.secret = 1 /\ legacy.pending_secret = 0
      /\ legacy.last = 0
  BY DEF NewAccount
<1> HIDE DEF legacy
<1>4. CASE users = [n \in Names |-> NoAccount] /\ accepted = {}
  BY <1>1, <1>4
<1>5. CASE /\ \E n \in Names :
               users = [m \in Names |-> IF m = n THEN NewAccount("admin", "local")
                                                 ELSE NoAccount]
           /\ accepted = {}
  BY <1>1, <1>2, <1>5
<1>6. CASE /\ \E n \in Names :
               users = [m \in Names |-> IF m = n THEN legacy ELSE NoAccount]
           /\ accepted = {CodeProof(1, 0)}
           /\ secrets = 1
  BY <1>1, <1>3, <1>6
<1> QED BY <1>4, <1>5, <1>6 DEF Init, legacy

LEMMA InitType == Init => TypeOK
<1> SUFFICES ASSUME Init PROVE TypeOK
  OBVIOUS
<1>1. NewAccount("admin", "local") \in Account /\ NoAccount \in Account
  BY NewAccountType, SomeRoles DEF NoAccount
<1>2. [NewAccount("admin", "local") EXCEPT !.mfa = TRUE, !.secret = 1] \in Account
  <2>1. 1 \in 0..MaxSecrets
    BY BoundsAssumption
  <2> QED BY <1>1, <2>1, FactorGiven, Zenon
<1>3. users \in [Names -> Account]
  BY <1>1, <1>2 DEF Init
<1>4. accepted \subseteq Proofs
  BY BoundsAssumption DEF Init, Proofs, CodeProof, Counters
<1>5. secrets \in 0..MaxSecrets /\ tokens \in 0..MaxTokens /\ now \in 2..MaxPeriod
  BY BoundsAssumption DEF Init
<1>6. grants \in 0..MaxGrants
  <2>1. Cardinality({}) = 0 /\ Cardinality({CodeProof(1, 0)}) = 1
    BY FS_EmptySet, FS_Singleton
  <2> QED BY <2>1, BoundsAssumption DEF Init
<1> QED BY <1>3, <1>4, <1>5, <1>6 DEF Init, TypeOK

LEMMA NextType == TypeOK /\ [Next]_vars => TypeOK'
<1> SUFFICES ASSUME TypeOK, [Next]_vars PROVE TypeOK'
  OBVIOUS
<1> USE BoundsAssumption DEF TypeOK, disk, memory, history
<1>1. ASSUME NEW n \in Names, Setup(n) PROVE TypeOK'
  <2>1. NewAccount("admin", "local") \in Account
    BY NewAccountType, SomeRoles
  <2> QED BY <1>1, <2>1 DEF Setup
<1>2. ASSUME NEW n \in Names, LoginSucceeds(n) PROVE TypeOK'
  BY <1>2 DEF LoginSucceeds
<1>3. ASSUME NEW n \in Names, LoginAsksForCode(n) PROVE TypeOK'
  BY <1>3 DEF LoginAsksForCode
<1>4. ASSUME NEW p \in pending, NEW n \in Counters, LoginVerifyMfa(p, n) PROVE TypeOK'
  <2>1. p.name \in Names /\ users[p.name] \in Account
    OBVIOUS
  <2>2. [users[p.name] EXCEPT !.last = n] \in Account
    BY <2>1 DEF Account
  <2>3. users' \in [Names -> Account]
    BY <1>4, <2>1, <2>2 DEF LoginVerifyMfa
  <2>4. CodeProof(users[p.name].secret, n) \in Proofs
    BY <2>1 DEF Account, CodeProof, Proofs
  <2> QED BY <1>4, <2>1, <2>3, <2>4 DEF LoginVerifyMfa, Accepts
<1>5. ASSUME NEW n \in Names, SessionEnds(n) PROVE TypeOK'
  BY <1>5 DEF SessionEnds
<1>6. ASSUME NEW p \in pending, PendingLoginExpires(p) PROVE TypeOK'
  BY <1>6 DEF PendingLoginExpires
<1>7. ASSUME NEW n \in Names, MfaEnroll(n) PROVE TypeOK'
  <2>1. users[n] \in Account /\ secrets + 1 \in 0..MaxSecrets
    BY <1>7 DEF MfaEnroll
  <2>2. [users[n] EXCEPT !.pending_secret = secrets + 1] \in Account
    BY <2>1 DEF Account
  <2>3. users' \in [Names -> Account]
    BY <1>7, <2>2 DEF MfaEnroll
  <2> QED BY <1>7, <2>1, <2>3 DEF MfaEnroll
<1>8. ASSUME NEW n \in Names, MfaDisable(n) PROVE TypeOK'
  <2>1. [users[n] EXCEPT !.mfa = FALSE, !.secret = 0, !.pending_secret = 0] \in Account
    <3>1. 0 \in 0..MaxSecrets /\ users[n] \in Account
      OBVIOUS
    <3> QED BY <3>1, FactorTaken, Zenon
  <2>2. users' \in [Names -> Account]
    BY <1>8, <2>1 DEF MfaDisable
  <2> QED BY <1>8, <2>2 DEF MfaDisable
<1>9. ASSUME NEW n \in Names, NEW counter \in Counters, MfaEnrollConfirm(n, counter)
      PROVE  TypeOK'
  <2>1. users[n] \in Account
    OBVIOUS
  <2>2. [users[n] EXCEPT !.secret = users[n].pending_secret, !.pending_secret = 0,
                         !.mfa = TRUE, !.last = counter] \in Account
    <3>1. users[n].pending_secret \in 0..MaxSecrets /\ 0 \in 0..MaxSecrets
      BY <2>1 DEF Account
    <3> QED BY <2>1, <3>1, FactorConfirmed, Zenon
  <2>3. users' \in [Names -> Account]
    BY <1>9, <2>2 DEF MfaEnrollConfirm
  <2>4. CodeProof(users[n].pending_secret, counter) \in Proofs
    BY <2>1 DEF Account, CodeProof, Proofs
  <2> QED BY <1>9, <2>3, <2>4 DEF MfaEnrollConfirm, Accepts
<1>10. ASSUME NEW n \in Names, NEW r \in Roles, CreateUser(n, r) PROVE TypeOK'
  <2>1. NewAccount(r, "local") \in Account
    BY NewAccountType
  <2> QED BY <1>10, <2>1 DEF CreateUser
<1>11. ASSUME NEW n \in Names, NEW r \in Roles, UpdateUserRole(n, r) PROVE TypeOK'
  <2>1. [users[n] EXCEPT !.role = r] \in Account
    BY DEF Account
  <2> QED BY <1>11, <2>1 DEF UpdateUserRole
<1>12. ASSUME NEW n \in Names, DeleteUser(n) PROVE TypeOK'
  <2>1. NoAccount \in Account
    BY NewAccountType DEF NoAccount
  <2> QED BY <1>12, <2>1 DEF DeleteUser
<1>13. ASSUME NEW k \in Keys, CreateApiKey(k) \/ RevokeApiKey(k) PROVE TypeOK'
  BY <1>13 DEF CreateApiKey, RevokeApiKey
<1>14. CASE SaveSamlConfig
  BY <1>14 DEF SaveSamlConfig
<1>15. CASE SamlLogin
  BY <1>15 DEF SamlLogin
<1>16. ASSUME NEW r \in requests, SamlRequestEnds(r) PROVE TypeOK'
  BY <1>16 DEF SamlRequestEnds
<1>17. ASSUME NEW r \in requests, NEW n \in Names, SamlAcs(r, n) PROVE TypeOK'
  <2>1. NewAccount("leitor", "saml") \in Account
    BY NewAccountType, SomeRoles
  <2>2. users' \in [Names -> Account]
    BY <1>17, <2>1 DEF SamlAcs
  <2>3. SsoProof(r) \in Proofs
    BY DEF SsoProof, Proofs, Counters
  <2> QED BY <1>17, <2>2, <2>3 DEF SamlAcs, Accepts
<1>18. CASE ClockMoves
  BY <1>18 DEF ClockMoves
<1>19. CASE Restart
  BY <1>19 DEF Restart
<1>20. CASE UNCHANGED vars
  BY <1>20 DEF vars
<1> QED
  BY <1>1, <1>2, <1>3, <1>4, <1>5, <1>6, <1>7, <1>8, <1>9, <1>10, <1>11, <1>12,
     <1>13, <1>14, <1>15, <1>16, <1>17, <1>18, <1>19, <1>20 DEF Next

------------------------------------------------------------------------------
(* An administrator remains.                                               *)

LEMMA AdminInit == Init => AdminOnceSetUp
<1> SUFFICES ASSUME Init PROVE AdminOnceSetUp
  OBVIOUS
<1>1. CASE \A n \in Names : users[n].role = "none"
  BY <1>1 DEF Init, AdminOnceSetUp, Known
<1>2. CASE \E n \in Names : users[n].role = "admin"
  BY <1>2 DEF AdminOnceSetUp, Known, Admins
<1>3. \/ \A n \in Names : users[n].role = "none"
      \/ \E n \in Names : users[n].role = "admin"
  BY InitShape
<1> QED BY <1>1, <1>2, <1>3

\* Steps that do not take the role from anybody, and do not begin anything.
LEMMA AdminKept ==
  ASSUME AdminOnceSetUp,
         \A n \in Names : users[n].role = "admin" => users'[n].role = "admin",
         \/ Known # {} \/ keys # {} \/ idp
         \/ /\ \A n \in Names : users'[n].role = users[n].role
            /\ keys' = keys /\ idp' = idp
  PROVE  AdminOnceSetUp'
  BY DEF AdminOnceSetUp, Known, Admins

LEMMA AdminsAct ==
  ASSUME NEW S, AdminBeside(S) PROVE Known # {} \/ keys # {} \/ idp
  BY DEF AdminBeside, LoggedIn

LEMMA AdminStep == TypeOK /\ AdminOnceSetUp /\ [Next]_vars => AdminOnceSetUp'
<1> SUFFICES ASSUME TypeOK, AdminOnceSetUp, [Next]_vars PROVE AdminOnceSetUp'
  OBVIOUS
<1> USE DEF disk, memory, history
<1>1. ASSUME UNCHANGED <<users, keys, idp>> PROVE AdminOnceSetUp'
  BY <1>1 DEF AdminOnceSetUp, Known, Admins
<1>2. ASSUME NEW n \in Names, Setup(n) PROVE AdminOnceSetUp'
  <2>1. users'[n].role = "admin"
    BY <1>2 DEF Setup, TypeOK, NewAccount
  <2> QED BY <2>1 DEF AdminOnceSetUp, Known, Admins
<1>3. ASSUME NEW p \in pending, NEW n \in Counters, LoginVerifyMfa(p, n)
      PROVE  AdminOnceSetUp'
  <2>1. p.name \in Names /\ users[p.name] \in Account
    BY DEF TypeOK
  <2>2. \A m \in Names : users'[m].role = users[m].role
    BY <1>3, <2>1 DEF TypeOK, LoginVerifyMfa, Account
  <2> QED BY <1>3, <2>2, AdminKept DEF LoginVerifyMfa
<1>4. ASSUME NEW n \in Names, MfaEnroll(n) \/ MfaDisable(n) PROVE AdminOnceSetUp'
  <2>1. \A m \in Names : users'[m].role = users[m].role
    BY <1>4 DEF TypeOK, MfaEnroll, MfaDisable, Account
  <2> QED BY <1>4, <2>1, AdminKept DEF MfaEnroll, MfaDisable
<1>5. ASSUME NEW n \in Names, NEW counter \in Counters, MfaEnrollConfirm(n, counter)
      PROVE  AdminOnceSetUp'
  <2>1. \A m \in Names : users'[m].role = users[m].role
    BY <1>5 DEF TypeOK, MfaEnrollConfirm, Account
  <2> QED BY <1>5, <2>1, AdminKept DEF MfaEnrollConfirm
<1>6. ASSUME NEW n \in Names, NEW r \in Roles, CreateUser(n, r) PROVE AdminOnceSetUp'
  <2>1. \A m \in Names : users[m].role = "admin" => users'[m].role = "admin"
    BY <1>6 DEF CreateUser, TypeOK, Known
  <2> QED BY <1>6, <2>1, AdminKept, AdminsAct DEF CreateUser
<1>7. ASSUME NEW n \in Names, NEW r \in Roles, UpdateUserRole(n, r)
      PROVE  AdminOnceSetUp'
  <2>1. PICK m \in Admins : n \in Admins /\ r # "admin" => m # n
    <3>1. Admins # {}
      BY <1>7, AdminsAct DEF UpdateUserRole, AdminOnceSetUp
    <3> QED BY <1>7, <3>1 DEF UpdateUserRole
  <2>2. m \in Names /\ users'[m].role = "admin"
    BY <1>7, <2>1 DEF UpdateUserRole, TypeOK, Admins, Known, Account
  <2> QED BY <2>2 DEF AdminOnceSetUp, Admins, Known
<1>8. ASSUME NEW n \in Names, DeleteUser(n) PROVE AdminOnceSetUp'
  <2>1. PICK m \in Admins : m # n
    <3>1. Admins # {}
      BY <1>8, AdminsAct DEF DeleteUser, AdminOnceSetUp
    <3> QED BY <1>8, <3>1 DEF DeleteUser
  <2>2. m \in Names /\ users'[m].role = "admin"
    BY <1>8, <2>1 DEF DeleteUser, TypeOK, Admins, Known
  <2> QED BY <2>2 DEF AdminOnceSetUp, Admins, Known
<1>9. ASSUME NEW k \in Keys, CreateApiKey(k) \/ RevokeApiKey(k) PROVE AdminOnceSetUp'
  BY <1>9, AdminKept, AdminsAct DEF CreateApiKey, RevokeApiKey
<1>10. ASSUME SaveSamlConfig PROVE AdminOnceSetUp'
  BY <1>10, AdminKept, AdminsAct DEF SaveSamlConfig
<1>11. ASSUME NEW r \in requests, NEW n \in Names, SamlAcs(r, n) PROVE AdminOnceSetUp'
  <2>1. \A m \in Names : users[m].role = "admin" => users'[m].role = "admin"
    BY <1>11 DEF SamlAcs, TypeOK, Known
  <2> QED BY <1>11, <2>1, AdminKept DEF SamlAcs
<1>12. CASE \E n \in Names : LoginSucceeds(n) \/ LoginAsksForCode(n) \/ SessionEnds(n)
  BY <1>1, <1>12 DEF LoginSucceeds, LoginAsksForCode, SessionEnds
<1>13. CASE \/ \E p \in pending : PendingLoginExpires(p)
            \/ SamlLogin
            \/ \E r \in requests : SamlRequestEnds(r)
            \/ ClockMoves
            \/ Restart
            \/ UNCHANGED vars
  BY <1>1, <1>13 DEF PendingLoginExpires, SamlLogin, SamlRequestEnds, ClockMoves,
                     Restart, vars
<1>14. sessions \subseteq Names
  BY DEF TypeOK
<1> QED
  BY <1>2, <1>3, <1>4, <1>5, <1>6, <1>7, <1>8, <1>9, <1>10, <1>11, <1>12, <1>13,
     <1>14 DEF Next

------------------------------------------------------------------------------
(* What was accepted is used up.                                           *)

Factors ==
  /\ AcceptedOnce /\ IsFiniteSet(accepted)
  /\ EnforcedFactorWasProved
  /\ SecretsApart
  /\ UsedUp

LEMMA FactorsInit == Init => Factors
<1> SUFFICES ASSUME Init PROVE Factors
  OBVIOUS
<1>1. IsFiniteSet(accepted) /\ AcceptedOnce
  <2>1. IsFiniteSet(accepted)
    BY InitShape, FS_EmptySet, FS_Singleton
  <2> QED BY <2>1 DEF Init, AcceptedOnce
<1>2. CASE accepted = {} /\ \A n \in Names : Fresh(users[n])
  BY <1>1, <1>2 DEF Fresh, Factors, EnforcedFactorWasProved, SecretsApart, SecretsOf,
                    UsedUp, AcceptedFor, Init
<1>3. ASSUME NEW n \in Names,
             \A m \in Names \ {n} : Fresh(users[m]),
             users[n].secret = 1, users[n].pending_secret = 0, users[n].last = 0,
             accepted = {CodeProof(1, 0)}, secrets = 1
      PROVE  Factors
  <2>1. \A p \in accepted : p.by = "code" /\ p.of = 1 /\ p.at = 0
    BY <1>3 DEF CodeProof
  <2>2. accepted # {} /\ requests = {}
    BY <1>3 DEF Init
  <2>3. EnforcedFactorWasProved
    BY <1>3, <2>1, <2>2 DEF EnforcedFactorWasProved, Fresh
  <2>4. SecretsApart
    BY <1>3 DEF SecretsApart, SecretsOf, Fresh
  <2>5. UsedUp
    BY <1>3, <2>1, <2>2 DEF UsedUp, AcceptedFor, Fresh
  <2> QED BY <1>1, <2>3, <2>4, <2>5 DEF Factors
<1> QED BY <1>2, <1>3, InitShape

LEMMA Accepting ==
  ASSUME TypeOK, Factors, NEW p, p \notin accepted, Accepts(p)
  PROVE  AcceptedOnce' /\ IsFiniteSet(accepted')
<1>1. Cardinality(accepted \union {p}) = Cardinality(accepted) + 1
      /\ IsFiniteSet(accepted \union {p})
  BY FS_AddElement DEF Factors
<1> QED BY <1>1 DEF Factors, AcceptedOnce, Accepts

\* The factor of an account is as it was, or there is none any more.
Same(n) ==
  /\ users'[n].mfa = users[n].mfa
  /\ users'[n].secret = users[n].secret
  /\ users'[n].pending_secret = users[n].pending_secret
  /\ users'[n].last = users[n].last
Blank(n) ==
  /\ users'[n].mfa = FALSE
  /\ users'[n].secret = 0
  /\ users'[n].pending_secret = 0

LEMMA FactorsKept ==
  ASSUME TypeOK, Factors, UNCHANGED <<secrets, accepted, grants>>,
         tokens' \in Nat, tokens <= tokens',
         \A r \in requests' : r \in requests \/ r = tokens + 1,
         \A n \in Names : Same(n) \/ Blank(n)
  PROVE  Factors'
<1> USE DEF Factors
<1>1. AcceptedOnce' /\ IsFiniteSet(accepted')
  BY DEF AcceptedOnce
<1>2. EnforcedFactorWasProved'
  BY DEF EnforcedFactorWasProved, Same, Blank
<1>3. \A n \in Names : SecretsOf(n)' \subseteq SecretsOf(n)
  BY DEF SecretsOf, Same, Blank
<1>4. SecretsApart'
  <2>1. \A n \in Names : \A s \in SecretsOf(n)' : s <= secrets'
    BY <1>3 DEF SecretsApart
  <2>2. \A n, m \in Names : n # m => (SecretsOf(n) \intersect SecretsOf(m) = {})'
    BY <1>3 DEF SecretsApart
  <2>3. \A n \in Names :
          (users[n].pending_secret # 0 => users[n].secret # users[n].pending_secret)'
    BY DEF SecretsApart, Same, Blank
  <2> QED BY <2>1, <2>2, <2>3 DEF SecretsApart
<1>5. UsedUp'
  <2>1. \A p \in accepted' : p.of <= IF p.by = "code" THEN secrets' ELSE tokens'
    BY DEF UsedUp, TypeOK, Proofs
  <2>2. \A n \in Names :
          /\ users'[n].secret # 0
               => \A p \in AcceptedFor(users'[n].secret) : p.at <= users'[n].last
          /\ users'[n].pending_secret # 0 => AcceptedFor(users'[n].pending_secret) = {}
    BY DEF UsedUp, Same, Blank
  <2>3. \A s : AcceptedFor(s)' = AcceptedFor(s)
    BY DEF AcceptedFor
  <2>4. \A r \in requests' : SsoProof(r) \notin accepted'
    <3>1. \A r \in requests : SsoProof(r) \notin accepted
      BY DEF UsedUp
    <3>2. SsoProof(tokens + 1) \notin accepted
      <4>1. SsoProof(tokens + 1).of = tokens + 1 /\ SsoProof(tokens + 1).by = "sso"
        BY DEF SsoProof
      <4>2. ~(tokens + 1 <= tokens)
        BY DEF TypeOK
      <4> QED BY <4>1, <4>2 DEF UsedUp
    <3> QED BY <3>1, <3>2
  <2> QED BY <2>1, <2>2, <2>3, <2>4 DEF UsedUp
<1> QED BY <1>1, <1>2, <1>4, <1>5

LEMMA FactorsEnroll ==
  ASSUME TypeOK, Factors, NEW n \in Names, MfaEnroll(n)
  PROVE  Factors'
<1> USE DEF Factors
<1>1. /\ secrets' = secrets + 1 /\ secrets \in Nat /\ UNCHANGED <<tokens, requests, history>>
      /\ \A m \in Names \ {n} : users'[m] = users[m]
      /\ users'[n].mfa = users[n].mfa /\ users'[n].secret = users[n].secret
      /\ users'[n].last = users[n].last /\ users'[n].pending_secret = secrets + 1
  BY DEF MfaEnroll, TypeOK, Account, memory, history
<1>2. AcceptedOnce' /\ IsFiniteSet(accepted')
  BY <1>1 DEF AcceptedOnce, history
<1>3. EnforcedFactorWasProved'
  BY <1>1 DEF EnforcedFactorWasProved, history
<1>4. /\ \A m \in Names \ {n} : SecretsOf(m)' = SecretsOf(m)
      /\ SecretsOf(n)' \subseteq SecretsOf(n) \union {secrets + 1}
  BY <1>1 DEF SecretsOf
<1>5. \A m \in Names : \A t \in SecretsOf(m) : t \in Nat /\ t <= secrets
  BY BoundsAssumption DEF TypeOK, Account, SecretsApart, SecretsOf
<1>6. SecretsApart'
  <2>1. \A m \in Names : \A t \in SecretsOf(m)' : t <= secrets'
    BY <1>1, <1>4, <1>5
  <2>2. ASSUME NEW m \in Names, NEW k \in Names, m # k
        PROVE  (SecretsOf(m) \intersect SecretsOf(k) = {})'
    <3>1. SecretsOf(m) \intersect SecretsOf(k) = {}
      BY <2>2 DEF SecretsApart
    <3> QED BY <1>1, <1>4, <1>5, <2>2, <3>1
  <2>3. users'[n].secret # users'[n].pending_secret
    <3>1. users[n].secret = 0 \/ users[n].secret \in SecretsOf(n)
      BY DEF SecretsOf
    <3> QED BY <1>1, <1>5, <3>1
  <2>4. \A m \in Names :
          users'[m].pending_secret # 0 => users'[m].secret # users'[m].pending_secret
    BY <1>1, <2>3 DEF SecretsApart
  <2> QED BY <2>1, <2>2, <2>4 DEF SecretsApart
<1>7. UsedUp'
  <2>1. \A p \in accepted : p.by = "code" => p.of # secrets + 1
    BY <1>1 DEF UsedUp, TypeOK, Proofs
  <2>2. \A t : AcceptedFor(t)' = AcceptedFor(t)
    BY <1>1 DEF AcceptedFor, history
  <2>3. AcceptedFor(secrets + 1) = {}
    BY <2>1 DEF AcceptedFor
  <2>4. \A m \in Names :
          /\ users'[m].secret # 0
               => \A p \in AcceptedFor(users'[m].secret) : p.at <= users'[m].last
          /\ users'[m].pending_secret # 0 => AcceptedFor(users'[m].pending_secret) = {}
    BY <1>1, <2>3 DEF UsedUp
  <2>5. \A p \in accepted' : p.of <= IF p.by = "code" THEN secrets' ELSE tokens'
    BY <1>1 DEF UsedUp, TypeOK, Proofs, history
  <2>6. \A r \in requests' : SsoProof(r) \notin accepted'
    BY <1>1 DEF UsedUp, SsoProof, history
  <2> QED BY <2>2, <2>4, <2>5, <2>6 DEF UsedUp
<1> QED BY <1>2, <1>3, <1>6, <1>7

\* A code is accepted for a secret of one account, with a counter above all
\* that were accepted for it before.
LEMMA FactorsAccept ==
  ASSUME TypeOK, Factors, NEW n \in Names, NEW s \in SecretsOf(n), NEW c \in Counters,
         \A p \in AcceptedFor(s) : p.at < c,
         Accepts(CodeProof(s, c)),
         UNCHANGED <<secrets, tokens, requests>>,
         \A m \in Names \ {n} : users'[m] = users[m],
         users'[n].secret = s, users'[n].last = c,
         \/ users'[n].pending_secret = 0
         \/ users'[n].pending_secret = users[n].pending_secret /\ s = users[n].secret
  PROVE  Factors'
<1> USE DEF Factors
<1> DEFINE q == CodeProof(s, c)
<1>1. q.by = "code" /\ q.of = s /\ q.at = c
  BY DEF CodeProof
<1>2. accepted' = accepted \union {q}
  BY DEF Accepts
<1>3. s \in Nat /\ s # 0 /\ s <= secrets /\ c \in Nat
  BY BoundsAssumption DEF TypeOK, Account, SecretsApart, SecretsOf, Counters
<1>4. q \notin accepted
  BY <1>1, <1>3 DEF AcceptedFor
<1>5. AcceptedOnce' /\ IsFiniteSet(accepted')
  BY <1>4, Accepting
<1> HIDE DEF q
<1>6. EnforcedFactorWasProved'
  BY <1>1, <1>2, <1>3 DEF EnforcedFactorWasProved
<1>7. \A m \in Names : SecretsOf(m)' \subseteq SecretsOf(m)
  BY DEF SecretsOf
<1>8. SecretsApart'
  <2>1. \A m \in Names : \A t \in SecretsOf(m)' : t <= secrets'
    BY <1>7 DEF SecretsApart
  <2>2. \A m, k \in Names : m # k => (SecretsOf(m) \intersect SecretsOf(k) = {})'
    BY <1>7 DEF SecretsApart
  <2>3. \A m \in Names :
          users'[m].pending_secret # 0 => users'[m].secret # users'[m].pending_secret
    BY DEF SecretsApart
  <2> QED BY <2>1, <2>2, <2>3 DEF SecretsApart
<1>9. UsedUp'
  <2>1. \A p \in accepted' : p.of <= IF p.by = "code" THEN secrets' ELSE tokens'
    BY <1>1, <1>2, <1>3 DEF UsedUp
  <2>2. \A t : t # s => AcceptedFor(t)' = AcceptedFor(t)
    BY <1>1, <1>2 DEF AcceptedFor
  <2>3. AcceptedFor(s)' = AcceptedFor(s) \union {q}
    BY <1>1, <1>2 DEF AcceptedFor
  <2>4. ASSUME NEW m \in Names \ {n}
        PROVE  users'[m].secret # s /\ users'[m].pending_secret # s
    <3>1. SecretsOf(m) \intersect SecretsOf(n) = {}
      BY DEF SecretsApart
    <3>2. users[m].secret # s /\ users[m].pending_secret # s
      BY <1>3, <3>1 DEF SecretsOf
    <3> QED BY <3>2
  <2>5. \A p \in AcceptedFor(s) \union {q} : p.at <= c
    <3>1. \A p \in AcceptedFor(s) : p.at \in Nat
      BY DEF AcceptedFor, TypeOK, Proofs, Counters
    <3> QED BY <1>1, <1>3, <3>1
  <2>6. (users[n].pending_secret # 0 => AcceptedFor(users[n].pending_secret) = {})'
    BY <2>2 DEF SecretsApart, UsedUp
  <2>7. \A m \in Names :
          (/\ users[m].secret # 0
                => \A p \in AcceptedFor(users[m].secret) : p.at <= users[m].last
           /\ users[m].pending_secret # 0 => AcceptedFor(users[m].pending_secret) = {})'
    BY <2>2, <2>3, <2>4, <2>5, <2>6 DEF UsedUp
  <2>8. \A r \in requests' : SsoProof(r) \notin accepted'
    <3>1. \A r : SsoProof(r) # q
      BY <1>1 DEF SsoProof
    <3> QED BY <1>2, <3>1 DEF UsedUp
  <2> QED BY <2>1, <2>7, <2>8 DEF UsedUp
<1> QED BY <1>5, <1>6, <1>8, <1>9

\* An answer of single sign-on is accepted for a request that is then gone.
LEMMA FactorsSignOn ==
  ASSUME TypeOK, Factors, NEW r \in requests,
         Accepts(SsoProof(r)),
         requests' = requests \ {r},
         UNCHANGED <<secrets, tokens>>,
         \A n \in Names : Same(n) \/ Blank(n)
  PROVE  Factors'
<1> USE DEF Factors
<1> DEFINE q == SsoProof(r)
<1>1. q.by = "sso" /\ q.of = r /\ \A k \in requests : k # r => SsoProof(k) # q
  BY DEF SsoProof
<1>2. accepted' = accepted \union {q} /\ q \notin accepted
  BY DEF Accepts, UsedUp
<1>3. AcceptedOnce' /\ IsFiniteSet(accepted')
  BY <1>2, Accepting
<1> HIDE DEF q
<1>4. \A s : AcceptedFor(s)' = AcceptedFor(s)
  BY <1>1, <1>2 DEF AcceptedFor
<1>5. EnforcedFactorWasProved'
  BY <1>2 DEF EnforcedFactorWasProved, Same, Blank
<1>6. \A n \in Names : SecretsOf(n)' \subseteq SecretsOf(n)
  BY DEF SecretsOf, Same, Blank
<1>7. SecretsApart'
  <2>1. \A n \in Names : \A s \in SecretsOf(n)' : s <= secrets'
    BY <1>6 DEF SecretsApart
  <2>2. \A n, m \in Names : n # m => (SecretsOf(n) \intersect SecretsOf(m) = {})'
    BY <1>6 DEF SecretsApart
  <2>3. \A n \in Names :
          (users[n].pending_secret # 0 => users[n].secret # users[n].pending_secret)'
    BY DEF SecretsApart, Same, Blank
  <2> QED BY <2>1, <2>2, <2>3 DEF SecretsApart
<1>8. UsedUp'
  <2>1. \A p \in accepted' : p.of <= IF p.by = "code" THEN secrets' ELSE tokens'
    BY <1>1, <1>2 DEF UsedUp, TypeOK
  <2>2. \A n \in Names :
          /\ users'[n].secret # 0
               => \A p \in AcceptedFor(users'[n].secret) : p.at <= users'[n].last
          /\ users'[n].pending_secret # 0 => AcceptedFor(users'[n].pending_secret) = {}
    BY DEF UsedUp, Same, Blank
  <2>3. \A k \in requests' : SsoProof(k) \notin accepted'
    BY <1>1, <1>2 DEF UsedUp
  <2> QED BY <1>4, <2>1, <2>2, <2>3 DEF UsedUp
<1> QED BY <1>3, <1>5, <1>7, <1>8

LEMMA FactorsStep == TypeOK /\ Factors /\ [Next]_vars => Factors'
<1> SUFFICES ASSUME TypeOK, Factors, [Next]_vars PROVE Factors'
  OBVIOUS
<1> USE DEF disk, memory, history
<1>1. tokens \in Nat /\ tokens <= tokens /\ tokens <= tokens + 1 /\ tokens + 1 \in Nat
  BY BoundsAssumption DEF TypeOK
<1>2. ASSUME UNCHANGED <<users, secrets, history>>,
             \/ tokens' = tokens
             \/ tokens' = tokens + 1,
             \A r \in requests' : r \in requests \/ r = tokens + 1
      PROVE  Factors'
  BY <1>1, <1>2, FactorsKept DEF Same
\* The last writer of a row of the file.
<1>3. ASSUME NEW n \in Names, NEW a, users' = [users EXCEPT ![n] = a],
             \/ /\ a.mfa = users[n].mfa /\ a.secret = users[n].secret
                /\ a.pending_secret = users[n].pending_secret /\ a.last = users[n].last
             \/ a.mfa = FALSE /\ a.secret = 0 /\ a.pending_secret = 0,
             UNCHANGED <<secrets, history>>,
             UNCHANGED <<tokens, requests>>
      PROVE  Factors'
  <2>1. Same(n) \/ Blank(n)
    BY <1>3 DEF TypeOK, Same, Blank
  <2>2. \A m \in Names : m # n => Same(m)
    BY <1>3 DEF TypeOK, Same
  <2> QED BY <1>1, <1>3, <2>1, <2>2, FactorsKept
<1>4. \A r, s : LET a == NewAccount(r, s) IN
        a.mfa = FALSE /\ a.secret = 0 /\ a.pending_secret = 0
  BY Zenon DEF NewAccount
<1>5. ASSUME NEW n \in Names, Setup(n) PROVE Factors'
  <2>1. UNCHANGED <<secrets, history, tokens, requests>>
    BY <1>5 DEF Setup
  <2> QED BY <1>3, <1>4, <1>5, <2>1 DEF Setup
<1>6. ASSUME NEW p \in pending, NEW c \in Counters, LoginVerifyMfa(p, c)
      PROVE  Factors'
  <2> DEFINE n == p.name
  <2>1. n \in Names /\ users[n] \in Account
    BY DEF TypeOK
  <2>2. users[n].secret \in SecretsOf(n)
    BY <1>6, <2>1 DEF LoginVerifyMfa, Factors, EnforcedFactorWasProved, SecretsOf
  <2>3. \A q \in AcceptedFor(users[n].secret) : q.at < c
    <3>1. \A q \in AcceptedFor(users[n].secret) : q.at <= users[n].last /\ q.at \in Nat
      BY <2>1, <2>2 DEF Factors, UsedUp, SecretsOf, AcceptedFor, TypeOK, Proofs, Counters
    <3>2. c > users[n].last /\ c \in Nat /\ users[n].last \in Nat
      BY <1>6, <2>1 DEF LoginVerifyMfa, Verifies, Account, Counters
    <3> QED BY <3>1, <3>2
  <2>4. /\ \A m \in Names \ {n} : users'[m] = users[m]
        /\ users'[n].secret = users[n].secret /\ users'[n].last = c
        /\ users'[n].pending_secret = users[n].pending_secret
    BY <1>6, <2>1 DEF LoginVerifyMfa, TypeOK, Account
  <2>5. /\ Accepts(CodeProof(users[n].secret, c))
        /\ UNCHANGED <<secrets, tokens, requests>>
    BY <1>6 DEF LoginVerifyMfa
  <2> QED BY <2>1, <2>2, <2>3, <2>4, <2>5, FactorsAccept
<1>7. ASSUME NEW n \in Names, NEW c \in Counters, MfaEnrollConfirm(n, c)
      PROVE  Factors'
  <2> DEFINE s == users[n].pending_secret
  <2>1. s \in SecretsOf(n) /\ AcceptedFor(s) = {}
    BY <1>7 DEF MfaEnrollConfirm, SecretsOf, Factors, UsedUp
  <2>2. /\ \A m \in Names \ {n} : users'[m] = users[m]
        /\ users'[n].secret = s /\ users'[n].last = c /\ users'[n].pending_secret = 0
    BY <1>7 DEF MfaEnrollConfirm, TypeOK, Account
  <2>3. Accepts(CodeProof(s, c)) /\ UNCHANGED <<secrets, tokens, requests>>
    BY <1>7 DEF MfaEnrollConfirm
  <2> QED BY <2>1, <2>2, <2>3, FactorsAccept
<1>8. ASSUME NEW n \in Names, MfaDisable(n) PROVE Factors'
  <2>1. Blank(n)
    BY <1>8 DEF MfaDisable, TypeOK, Account, Blank
  <2>2. \A m \in Names : m # n => Same(m)
    BY <1>8 DEF MfaDisable, TypeOK, Same
  <2>3. UNCHANGED <<secrets, history, tokens, requests>>
    BY <1>8 DEF MfaDisable
  <2> QED BY <1>1, <2>1, <2>2, <2>3, FactorsKept
<1>9. ASSUME NEW n \in Names, NEW r \in Roles, CreateUser(n, r) PROVE Factors'
  <2>1. UNCHANGED <<secrets, history, tokens, requests>>
    BY <1>9 DEF CreateUser
  <2> QED BY <1>3, <1>4, <1>9, <2>1 DEF CreateUser
<1>10. ASSUME NEW n \in Names, NEW r \in Roles, UpdateUserRole(n, r) PROVE Factors'
  <2>1. \A m \in Names : Same(m)
    BY <1>10 DEF UpdateUserRole, TypeOK, Account, Same
  <2>2. UNCHANGED <<secrets, history, tokens, requests>>
    BY <1>10 DEF UpdateUserRole
  <2> QED BY <1>1, <2>1, <2>2, FactorsKept
<1>11. ASSUME NEW n \in Names, DeleteUser(n) PROVE Factors'
  <2>1. UNCHANGED <<secrets, history, tokens, requests>>
    BY <1>11 DEF DeleteUser
  <2> QED BY <1>3, <1>4, <1>11, <2>1 DEF DeleteUser, NoAccount
<1>12. ASSUME NEW r \in requests, NEW n \in Names, SamlAcs(r, n) PROVE Factors'
  <2>1. \A m \in Names : Same(m) \/ Blank(m)
    <3>1. \A m \in Names : m # n => Same(m)
      BY <1>12 DEF SamlAcs, TypeOK, Same
    <3>2. Same(n) \/ Blank(n)
      BY <1>4, <1>12 DEF SamlAcs, TypeOK, Same, Blank
    <3> QED BY <3>1, <3>2
  <2>2. /\ Accepts(SsoProof(r)) /\ requests' = requests \ {r}
        /\ UNCHANGED <<secrets, tokens>>
    BY <1>12 DEF SamlAcs
  <2> QED BY <2>1, <2>2, FactorsSignOn
<1>13. CASE \E n \in Names : LoginSucceeds(n) \/ LoginAsksForCode(n)
  BY <1>2, <1>13 DEF LoginSucceeds, LoginAsksForCode
<1>14. CASE \/ \E n \in sessions : SessionEnds(n)
            \/ \E p \in pending : PendingLoginExpires(p)
            \/ \E k \in Keys : CreateApiKey(k) \/ RevokeApiKey(k)
            \/ SaveSamlConfig
            \/ SamlLogin
  BY <1>2, <1>14 DEF SessionEnds, PendingLoginExpires, CreateApiKey, RevokeApiKey,
                     SaveSamlConfig, SamlLogin
<1>15. CASE \/ \E r \in requests : SamlRequestEnds(r)
            \/ ClockMoves
            \/ Restart
            \/ UNCHANGED vars
  BY <1>2, <1>15 DEF SamlRequestEnds, ClockMoves, Restart, vars
<1>16. ASSUME NEW n \in Names, MfaEnroll(n) PROVE Factors'
  BY <1>16, FactorsEnroll
<1> QED
  BY <1>5, <1>6, <1>7, <1>8, <1>9, <1>10, <1>11, <1>12, <1>13, <1>14, <1>15, <1>16
  DEF Next

------------------------------------------------------------------------------
(* The theorems.                                                           *)

LEMMA Invariance == Spec => []IInv
<1>1. Init => IInv
  BY InitType, AdminInit, FactorsInit DEF IInv, Factors
<1>2. IInv /\ [Next]_vars => IInv'
  BY NextType, AdminStep, FactorsStep DEF IInv, Factors
<1> QED BY <1>1, <1>2, PTL DEF Spec

\* The variables of the accounts keep their types.
THEOREM TypeCorrect == Spec => []TypeOK
<1>1. IInv => TypeOK
  BY DEF IInv
<1> QED BY <1>1, Invariance, PTL

\* routes_auth.py never leaves accounts without an administrator, whoever
\* removes or demotes whom.
THEOREM AnAdminRemains == Spec => []AdminRemains
<1>1. IInv => AdminRemains
  BY DEF IInv, AdminOnceSetUp, AdminRemains
<1> QED BY <1>1, Invariance, PTL

\* No code of a second factor and no answer of single sign-on is accepted by
\* totp.py or saml.py a second time.
THEOREM NothingAcceptedTwice == Spec => []AcceptedOnce
<1>1. IInv => AcceptedOnce
  BY DEF IInv
<1> QED BY <1>1, Invariance, PTL

\* A second factor is in force only with a secret that was confirmed.
THEOREM FactorsAreProved == Spec => []EnforcedFactorWasProved
<1>1. IInv => EnforcedFactorWasProved
  BY DEF IInv
<1> QED BY <1>1, Invariance, PTL

------------------------------------------------------------------------------
(* What opens a session.                                                   *)

\* What opens a session of n: for an account with a second factor, or of single
\* sign-on, a proof that was never accepted before, a code of that factor or an answer
\* of the identity provider.  An account that is not there yet is made by such an
\* answer, or it is the first one.
OpenedByProof(n) ==
  /\ n \in Known /\ users[n].mfa =>
       \E p \in accepted' \ accepted :
         \/ p.by = "code" /\ p.of = users[n].secret
         \/ p.by = "sso" /\ users[n].source = "saml"
  /\ n \in Known /\ users[n].source = "saml" => accepted' # accepted
  /\ n \notin Known => \/ Known = {}
                       \/ \E p \in accepted' \ accepted : p.by = "sso"

\* login, login_verify_mfa, setup and saml_acs are the only ways in, each at its price.
SessionNeedsProof == [][\A n \in sessions' \ sessions : OpenedByProof(n)]_vars

\* The counter of the account is past every code of its secret that was accepted.
LEMMA CodeIsNew ==
  ASSUME IInv, NEW p \in pending, NEW c \in Counters, LoginVerifyMfa(p, c)
  PROVE  CodeProof(users[p.name].secret, c) \in accepted' \ accepted
<1> DEFINE q == CodeProof(users[p.name].secret, c)
<1>1. /\ p.name \in Names /\ users[p.name].mfa /\ c > users[p.name].last
      /\ accepted' = accepted \union {q}
  BY DEF LoginVerifyMfa, Verifies, Accepts, Known
<1>2. users[p.name].last \in Nat /\ c \in Nat
  BY <1>1, BoundsAssumption DEF IInv, TypeOK, Account, Counters
<1>3. \A a \in AcceptedFor(users[p.name].secret) : a.at <= users[p.name].last
  BY <1>1 DEF IInv, EnforcedFactorWasProved, UsedUp
<1>4. q.by = "code" /\ q.of = users[p.name].secret /\ q.at = c
  BY DEF CodeProof
<1>5. q \notin accepted
  BY <1>1, <1>2, <1>3, <1>4 DEF AcceptedFor
<1> QED
  BY <1>1, <1>5

LEMMA SessionsOpen ==
  ASSUME IInv, [Next]_vars, NEW n \in sessions' \ sessions
  PROVE  OpenedByProof(n)
<1> USE DEF disk, memory, history
<1>1. ASSUME NEW m \in Names, Setup(m) PROVE OpenedByProof(n)
  BY <1>1 DEF Setup, OpenedByProof
<1>2. ASSUME NEW m \in Names, LoginSucceeds(m) PROVE OpenedByProof(n)
  <2>1. n = m /\ m \in Known /\ users[m].source = "local" /\ ~users[m].mfa
    BY <1>2 DEF LoginSucceeds
  <2> QED
    BY <2>1 DEF OpenedByProof
<1>3. ASSUME NEW p \in pending, NEW c \in Counters, LoginVerifyMfa(p, c)
      PROVE  OpenedByProof(n)
  <2>1. n = p.name /\ n \in Known
    BY <1>3 DEF LoginVerifyMfa
  <2>2. CodeProof(users[n].secret, c) \in accepted' \ accepted
    BY <1>3, <2>1, CodeIsNew
  <2> QED
    BY <2>1, <2>2 DEF OpenedByProof, CodeProof
<1>4. ASSUME NEW r \in requests, NEW m \in Names, SamlAcs(r, m) PROVE OpenedByProof(n)
  <2>1. /\ n = m /\ m \in Known => users[m].source = "saml"
        /\ accepted' = accepted \union {SsoProof(r)}
    BY <1>4 DEF SamlAcs, Accepts
  <2>2. SsoProof(r) \in accepted' \ accepted
    BY <2>1 DEF IInv, UsedUp
  <2>3. SsoProof(r).by = "sso"
    BY DEF SsoProof
  <2> QED
    BY <1>4, <2>1, <2>2, <2>3 DEF OpenedByProof, SamlAcs
<1>5. CASE UNCHANGED vars
  BY <1>5 DEF vars
<1>6. ASSUME NEW m \in Names,
             \/ LoginAsksForCode(m) \/ MfaEnroll(m) \/ MfaDisable(m) \/ DeleteUser(m)
             \/ \E c \in Counters : MfaEnrollConfirm(m, c)
             \/ \E r \in Roles : CreateUser(m, r) \/ UpdateUserRole(m, r)
      PROVE  FALSE
  BY <1>6 DEF LoginAsksForCode, MfaEnroll, MfaDisable, DeleteUser, MfaEnrollConfirm,
     CreateUser, UpdateUserRole
<1>7. CASE \/ \E m \in sessions : SessionEnds(m)
           \/ \E p \in pending : PendingLoginExpires(p)
           \/ \E k \in Keys : CreateApiKey(k) \/ RevokeApiKey(k)
           \/ SaveSamlConfig \/ SamlLogin
           \/ \E r \in requests : SamlRequestEnds(r)
           \/ ClockMoves \/ Restart
  BY <1>7 DEF SessionEnds, PendingLoginExpires, CreateApiKey, RevokeApiKey,
     SaveSamlConfig, SamlLogin, SamlRequestEnds, ClockMoves, Restart
<1> QED
  BY <1>1, <1>2, <1>3, <1>4, <1>5, <1>6, <1>7 DEF Next

\* Nobody comes in without what the account asks for, and what it takes was never
\* accepted before.  Sessions are kept by name: the theorem speaks of the first
\* session of a name, a further one beside it changes nothing in the model.
THEOREM SessionsNeedProof == Spec => SessionNeedsProof
<1>1. IInv /\ [Next]_vars => [\A n \in sessions' \ sessions : OpenedByProof(n)]_vars
  BY SessionsOpen
<1> QED
  BY <1>1, Invariance, PTL DEF Spec, SessionNeedsProof
=============================================================================
