---------------------------- MODULE AccessProofs -----------------------------
(***************************************************************************)
(* Who may do what, and who is shown it.  No API token carries more than   *)
(* whoever asked for it, and one that is over stays over, for any accounts, *)
(* permissions, tokens and requests; and the panel shows the user that its *)
(* cookie stands for, for any sessions.                                    *)
(***************************************************************************)
EXTENDS ApiTokens, WebSession, TLAPS

-----------------------------------------------------------------------------
(* The inductive invariant: what a request has kept of its identity is      *)
(* covered by what is still in the tables when it creates a token.          *)

\* One account is the OWNER; the others hold what they were granted.
Accounts == \A a \in Admin :
  /\ admins[a].role = "OWNER" <=> a = Owner
  /\ admins[a].rights \subseteq held[a]

\* A session acts for its account.
ActsForAccount(t) ==
  /\ t.admin = t.cred
  /\ t.owner <=> t.cred = Owner
  /\ t.rights \subseteq held[t.cred]

\* A token acts for its creator, never as the OWNER.
ActsForCreator(t) ==
  /\ t.admin = tokens[t.cred].creator
  /\ ~t.owner
  /\ t.rights = tokens[t.cred].rights

Identities == \A r \in DOMAIN reqs :
  /\ reqs[r].stage = "account" => (reqs[r].owner <=> reqs[r].cred = Owner)
  /\ reqs[r].stage = "handler" =>
       IF reqs[r].cred \in Admin THEN ActsForAccount(reqs[r]) ELSE ActsForCreator(reqs[r])

IInv == TypeOK /\ Accounts /\ Identities /\ NoEscalation

-----------------------------------------------------------------------------
(* A step of one request leaves the others as they are.                     *)
LEMMA GoEffect ==
  ASSUME NEW r, NEW t, Go(r, t)
  PROVE  /\ DOMAIN reqs' = DOMAIN reqs \cup {r}
         /\ reqs'[r] = t
         /\ \A q \in DOMAIN reqs \ {r} : reqs'[q] = reqs[q]
BY DEF Go

LEMMA EndEffect ==
  ASSUME NEW r, End(r)
  PROVE  /\ DOMAIN reqs' = DOMAIN reqs \ {r}
         /\ \A q \in DOMAIN reqs' : q # r /\ reqs'[q] = reqs[q]
BY DEF End

(* A step forward of a request, the tables being left alone, keeps the      *)
(* invariant if its new stage has what the invariant says of it.            *)
LEMMA GoKeepsIInv ==
  ASSUME IInv, NEW r \in Request, NEW t, Go(r, t), UNCHANGED <<admins, tokens, held>>,
         ReqOK(t),
         t.stage = "account" => (t.owner <=> t.cred = Owner),
         t.stage = "handler" => IF t.cred \in Admin THEN ActsForAccount(t) ELSE ActsForCreator(t)
  PROVE  IInv'
<1>1. /\ DOMAIN reqs' = DOMAIN reqs \cup {r} /\ reqs'[r] = t
      /\ \A q \in DOMAIN reqs \ {r} : reqs'[q] = reqs[q]
  BY GoEffect
<1>2. TypeOK'
  <2>1. ASSUME NEW q \in DOMAIN reqs' PROVE ReqOK(reqs'[q])
    <3>1. CASE q = r
      BY <1>1, <3>1
    <3>2. CASE q # r
      BY <1>1, <3>2 DEF IInv, TypeOK
    <3> QED BY <3>1, <3>2
  <2>2. \A q \in DOMAIN reqs' : ReqOK(reqs[q])'
    BY <2>1 DEF ReqOK
  <2> QED BY <1>1, <2>2 DEF IInv, TypeOK
<1>3. Identities'
  <2> SUFFICES ASSUME NEW q \in DOMAIN reqs'
               PROVE  /\ reqs'[q].stage = "account" => (reqs'[q].owner <=> reqs'[q].cred = Owner)
                      /\ reqs'[q].stage = "handler" =>
                           IF reqs'[q].cred \in Admin THEN ActsForAccount(reqs'[q])
                           ELSE ActsForCreator(reqs'[q])
    BY DEF Identities, ActsForAccount, ActsForCreator
  <2>1. CASE q = r
    BY <1>1, <2>1
  <2>2. CASE q # r
    BY <1>1, <2>2 DEF IInv, Identities
  <2> QED BY <2>1, <2>2
<1> QED BY <1>2, <1>3 DEF IInv, Accounts, NoEscalation

(* A request that ends, the tables being left alone, takes nothing from it. *)
LEMMA EndKeepsIInv ==
  ASSUME IInv, NEW r, End(r), UNCHANGED <<admins, tokens, held>>
  PROVE  IInv'
<1>1. /\ DOMAIN reqs' = DOMAIN reqs \ {r}
      /\ \A q \in DOMAIN reqs' : q # r /\ reqs'[q] = reqs[q]
  BY EndEffect
<1>2. TypeOK'
  <2>1. \A q \in DOMAIN reqs' : ReqOK(reqs[q])'
    BY <1>1 DEF IInv, TypeOK, ReqOK
  <2> QED BY <1>1, <2>1 DEF IInv, TypeOK
<1>3. Identities'
  BY <1>1 DEF IInv, Identities, ActsForAccount, ActsForCreator
<1> QED BY <1>2, <1>3 DEF IInv, Accounts, NoEscalation

-----------------------------------------------------------------------------
(* What the tables hold, for the steps below.                               *)
LEMMA TokenIsNoAccount ==
  ASSUME TypeOK, NEW k \in DOMAIN tokens
  PROVE  k \in Token /\ k \notin Admin /\ tokens[k] \in TokenRow
BY ApiTokensAssumption DEF TypeOK

LEMMA InitIInv == Init => IInv
<1> SUFFICES ASSUME Init PROVE IInv
  OBVIOUS
<1>1. /\ DOMAIN tokens = {} /\ tokens \in [DOMAIN tokens -> TokenRow]
      /\ DOMAIN reqs = {}
  BY DEF Init
<1>2. /\ admins \in [Admin -> Account] /\ held = [a \in Admin |-> admins[a].rights]
      /\ \A a \in Admin : admins[a].role = "OWNER" <=> a = Owner
  BY DEF Init
<1>3. held \in [Admin -> Rights] /\ \A a \in Admin : admins[a].rights \subseteq held[a]
  BY <1>2 DEF Account
<1>4. TypeOK
  BY <1>1, <1>2, <1>3 DEF TypeOK
<1>5. Accounts
  BY <1>2, <1>3 DEF Accounts
<1>6. Identities /\ NoEscalation
  BY <1>1 DEF Identities, NoEscalation
<1> QED BY <1>4, <1>5, <1>6 DEF IInv

(* Authentication: a credential that is accepted is in a table.             *)
LEMMA RequireRoleIInv ==
  ASSUME IInv, NEW r \in Request, NEW c \in Admin \cup Token, RequireRole(r, c)
  PROVE  IInv'
<1> DEFINE t == [stage |-> "role", cred |-> c]
<1>1. c \in Admin \cup DOMAIN tokens
  BY DEF RequireRole, Accepts, Usable
<1>2. ReqOK(t)
  BY <1>1 DEF ReqOK
<1>3. Go(r, t) /\ UNCHANGED <<admins, tokens, held>>
  BY DEF RequireRole
<1>4. t.stage # "account" /\ t.stage # "handler"
  OBVIOUS
<1> HIDE DEF t
<1> QED BY <1>2, <1>3, <1>4, GoKeepsIInv

LEMMA RequireTokenPermissionIInv ==
  ASSUME IInv, NEW r \in Request, RequireTokenPermission(r)
  PROVE  IInv'
<1> DEFINE k == reqs[r].cred
           t == [stage |-> "handler", cred |-> k, admin |-> tokens[k].creator, owner |-> FALSE,
                 rights |-> tokens[k].rights]
<1>1. k \in DOMAIN tokens /\ k \notin Admin /\ tokens[k] \in TokenRow
  <2>1. k \in Token /\ k \notin Admin
    BY ApiTokensAssumption DEF RequireTokenPermission
  <2>2. k \in DOMAIN tokens
    BY <2>1 DEF RequireTokenPermission, Accepts, Usable
  <2> QED BY <2>1, <2>2, TokenIsNoAccount DEF IInv
<1>2. ReqOK(t)
  BY <1>1 DEF ReqOK, TokenRow
<1>3. Go(r, t) /\ UNCHANGED <<admins, tokens, held>>
  BY DEF RequireTokenPermission
<1>4. t.cred \notin Admin /\ ActsForCreator(t) /\ t.stage # "account"
  BY <1>1 DEF ActsForCreator
<1> HIDE DEF t
<1> QED BY <1>2, <1>3, <1>4, GoKeepsIInv

LEMMA ResolveSessionIInv ==
  ASSUME IInv, NEW r \in Request, ResolveSession(r)
  PROVE  IInv'
<1> DEFINE t == [stage |-> "account", cred |-> reqs[r].cred,
                 owner |-> admins[reqs[r].cred].role = "OWNER"]
<1>1. reqs[r].cred \in Admin
  BY DEF ResolveSession
<1>2. ReqOK(t)
  BY <1>1 DEF ReqOK
<1>3. Go(r, t) /\ UNCHANGED <<admins, tokens, held>>
  BY DEF ResolveSession
<1>4. t.stage = "account" /\ (t.owner <=> t.cred = Owner)
  BY <1>1 DEF IInv, Accounts
<1> HIDE DEF t
<1> QED BY <1>2, <1>3, <1>4, GoKeepsIInv

LEMMA GetPermissionsIInv ==
  ASSUME IInv, NEW r \in Request, GetPermissions(r)
  PROVE  IInv'
<1> DEFINE a == reqs[r].cred
           t == [stage |-> "handler", cred |-> a, admin |-> a, owner |-> reqs[r].owner,
                 rights |-> admins[a].rights]
<1>1. /\ r \in DOMAIN reqs /\ a \in Admin /\ reqs[r].owner \in BOOLEAN
      /\ reqs[r].owner <=> a = Owner
  BY DEF GetPermissions, In, IInv, TypeOK, ReqOK, Identities
<1>2. admins[a].rights \in Rights /\ admins[a].rights \subseteq held[a]
  BY <1>1 DEF IInv, TypeOK, Account, Accounts
<1>3. ReqOK(t)
  BY <1>1, <1>2 DEF ReqOK
<1>4. Go(r, t) /\ UNCHANGED <<admins, tokens, held>>
  BY DEF GetPermissions
<1>5. t.cred \in Admin /\ ActsForAccount(t) /\ t.stage # "account"
  BY <1>1, <1>2 DEF ActsForAccount
<1> HIDE DEF t
<1> QED BY <1>3, <1>4, <1>5, GoKeepsIInv

(* The handlers find a token, or none.                                      *)
LEMMA FindIInv ==
  ASSUME IInv, NEW r \in Request, NEW k \in Token, NEW change \in Change, Find(r, k, change)
  PROVE  IInv'
<1> DEFINE t == [stage |-> "update", token |-> k, change |-> change]
<1>1. k \in DOMAIN tokens
  BY DEF Find, Scoped
<1>2. ReqOK(t)
  BY <1>1 DEF ReqOK
<1>3. Go(r, t) /\ UNCHANGED <<admins, tokens, held>>
  BY DEF Find
<1>4. t.stage # "account" /\ t.stage # "handler"
  OBVIOUS
<1> HIDE DEF t
<1> QED BY <1>2, <1>3, <1>4, GoKeepsIInv

(* Creation: the new row is covered by the identity the request has kept.   *)
LEMMA CreateIInv ==
  ASSUME IInv, NEW r \in Request, NEW k \in Token, NEW rights \in Rights, Create(r, k, rights)
  PROVE  IInv'
<1> DEFINE t == reqs[r]
           row == [creator |-> t.admin, rights |-> rights, by |-> t.cred,
                   enabled |-> TRUE, over |-> FALSE]
<1>1. /\ r \in DOMAIN reqs /\ t.stage = "handler" /\ k \notin DOMAIN tokens /\ rights # {}
      /\ t.owner \/ rights \subseteq t.rights
      /\ End(r) /\ UNCHANGED <<admins, held>>
  BY DEF Create, In, Issue
<1>2. /\ t.cred \in Admin \cup DOMAIN tokens /\ t.admin \in Admin
      /\ IF t.cred \in Admin THEN ActsForAccount(t) ELSE ActsForCreator(t)
  BY <1>1 DEF IInv, TypeOK, ReqOK, Identities
<1>3. /\ DOMAIN tokens' = DOMAIN tokens \cup {k} /\ tokens'[k] = row
      /\ \A j \in DOMAIN tokens : tokens'[j] = tokens[j]
      /\ tokens' = [j \in DOMAIN tokens' |-> tokens'[j]]
  BY <1>1 DEF Create, Issue
<1>4. row \in TokenRow /\ row.by \in Admin \cup DOMAIN tokens
  BY <1>1, <1>2 DEF TokenRow, IInv, TypeOK
<1>5. /\ DOMAIN reqs' = DOMAIN reqs \ {r}
      /\ \A q \in DOMAIN reqs' : q # r /\ reqs'[q] = reqs[q]
  BY <1>1, EndEffect
<1> HIDE DEF row
<1>6. TypeOK'
  <2>1. tokens' \in [DOMAIN tokens' -> TokenRow]
    BY <1>3, <1>4 DEF IInv, TypeOK
  <2>2. \A j \in DOMAIN tokens' : tokens'[j].by \in Admin \cup DOMAIN tokens'
    BY <1>3, <1>4 DEF IInv, TypeOK
  <2>3. \A q \in DOMAIN reqs' : ReqOK(reqs[q])'
    BY <1>3, <1>5 DEF IInv, TypeOK, ReqOK
  <2> QED BY <1>1, <1>3, <1>5, <2>1, <2>2, <2>3 DEF IInv, TypeOK
<1>7. Identities'
  <2>1. \A q \in DOMAIN reqs' : reqs[q].stage = "handler" /\ reqs[q].cred \notin Admin
                                  => reqs[q].cred \in DOMAIN tokens
    BY <1>5 DEF IInv, TypeOK, ReqOK
  <2> QED BY <1>1, <1>3, <1>5, <2>1 DEF IInv, Identities, ActsForAccount, ActsForCreator
<1>8. NoEscalation'
  <2> SUFFICES ASSUME NEW j \in DOMAIN tokens'
               PROVE  /\ tokens'[j].creator # Owner => tokens'[j].rights \subseteq held[tokens'[j].creator]
                      /\ tokens'[j].by \in DOMAIN tokens' => tokens'[j].rights \subseteq tokens'[tokens'[j].by].rights
    BY <1>1 DEF NoEscalation
  <2>1. CASE j \in DOMAIN tokens
    <3>1. tokens[j].by \in Admin \cup DOMAIN tokens
      BY <2>1 DEF IInv, TypeOK
    <3>2. tokens[j].by \in DOMAIN tokens' => tokens[j].by \in DOMAIN tokens
      BY <1>3, <3>1, ApiTokensAssumption
    <3> QED BY <1>3, <2>1, <3>2 DEF IInv, NoEscalation
  <2>2. CASE j = k
    <3>1. row.creator = t.admin /\ row.rights = rights /\ row.by = t.cred
      BY DEF row
    <3>2. CASE t.cred \in Admin
      <4>1. t.cred \notin DOMAIN tokens'
        BY <1>3, <3>2, ApiTokensAssumption DEF IInv, TypeOK
      <4>2. t.admin # Owner => rights \subseteq held[t.admin]
        BY <1>1, <1>2, <3>2 DEF ActsForAccount
      <4> QED BY <1>3, <2>2, <3>1, <4>1, <4>2
    <3>3. CASE t.cred \notin Admin
      <4>1. t.cred \in DOMAIN tokens /\ rights \subseteq tokens[t.cred].rights
            /\ t.admin = tokens[t.cred].creator
        BY <1>1, <1>2, <3>3 DEF ActsForCreator
      <4>2. t.admin # Owner => rights \subseteq held[t.admin]
        BY <4>1 DEF IInv, NoEscalation
      <4> QED BY <1>3, <2>2, <3>1, <4>1, <4>2
    <3> QED BY <3>2, <3>3
  <2> QED BY <1>3, <2>1, <2>2
<1> QED BY <1>1, <1>6, <1>7, <1>8 DEF IInv, Accounts

(* A token that is enabled, disabled, revoked or expires keeps what it      *)
(* carries.                                                                 *)
LEMMA SwitchKeeps ==
  ASSUME IInv, NEW k \in DOMAIN tokens, NEW enabled \in BOOLEAN, NEW over \in BOOLEAN,
         tokens' = [tokens EXCEPT ![k].enabled = enabled, ![k].over = over],
         UNCHANGED <<admins, held>>,
         \A q \in DOMAIN reqs' : q \in DOMAIN reqs /\ reqs'[q] = reqs[q]
  PROVE  IInv'
<1>1. tokens \in [DOMAIN tokens -> TokenRow]
  BY DEF IInv, TypeOK
<1>2. DOMAIN tokens' = DOMAIN tokens /\ tokens' \in [DOMAIN tokens -> TokenRow]
  BY <1>1 DEF TokenRow
<1>3. \A j \in DOMAIN tokens : /\ tokens'[j].creator = tokens[j].creator
                               /\ tokens'[j].rights = tokens[j].rights
                               /\ tokens'[j].by = tokens[j].by
  BY <1>1 DEF TokenRow
<1>4. TypeOK'
  <2>1. \A q \in DOMAIN reqs' : ReqOK(reqs[q])'
    BY <1>2 DEF IInv, TypeOK, ReqOK
  <2> QED BY <1>2, <1>3, <2>1 DEF IInv, TypeOK
<1>5. Identities'
  <2>1. \A q \in DOMAIN reqs : reqs[q].stage = "handler" /\ reqs[q].cred \notin Admin
                                 => reqs[q].cred \in DOMAIN tokens
    BY DEF IInv, TypeOK, ReqOK
  <2> QED BY <1>3, <2>1 DEF IInv, Identities, ActsForAccount, ActsForCreator
<1>6. NoEscalation'
  BY <1>2, <1>3 DEF IInv, NoEscalation
<1> QED BY <1>4, <1>5, <1>6 DEF IInv, Accounts

LEMMA UpdateIInv ==
  ASSUME IInv, NEW r \in Request, Update(r)
  PROVE  IInv'
<1> DEFINE k == reqs[r].token
           enabled == reqs[r].change = "enable"
           over == tokens[k].over \/ reqs[r].change = "revoke"
<1>1. k \in DOMAIN tokens
  BY DEF Update, In, IInv, TypeOK, ReqOK
<1>2. tokens' = [tokens EXCEPT ![k].enabled = enabled, ![k].over = over]
  <2>1. tokens \in [DOMAIN tokens -> TokenRow]
    BY DEF IInv, TypeOK
  <2> QED BY <1>1, <2>1 DEF Update, TokenRow
<1>3. enabled \in BOOLEAN /\ over \in BOOLEAN
  OBVIOUS
<1>4. /\ UNCHANGED <<admins, held>>
      /\ \A q \in DOMAIN reqs' : q \in DOMAIN reqs /\ reqs'[q] = reqs[q]
  BY EndEffect DEF Update
<1> HIDE DEF k, enabled, over
<1> QED BY <1>1, <1>2, <1>3, <1>4, SwitchKeeps

LEMMA ExpireIInv ==
  ASSUME IInv, NEW k \in Token, Expire(k)
  PROVE  IInv'
<1>1. k \in DOMAIN tokens /\ tokens \in [DOMAIN tokens -> TokenRow]
  BY DEF Expire, IInv, TypeOK
<1> DEFINE enabled == tokens[k].enabled
<1>2. tokens' = [tokens EXCEPT ![k].enabled = enabled, ![k].over = TRUE]
  BY <1>1 DEF Expire, TokenRow
<1>3. enabled \in BOOLEAN
  BY <1>1 DEF TokenRow
<1>4. UNCHANGED <<admins, held>> /\ reqs' = reqs
  BY DEF Expire
<1> HIDE DEF enabled
<1> QED BY <1>1, <1>2, <1>3, <1>4, SwitchKeeps

(* The OWNER changes other accounts; what they ever held only grows.        *)
LEMMA UpdateAdminIInv ==
  ASSUME IInv, NEW a \in Admin, UpdateAdmin(a)
  PROVE  IInv'
<1>1. /\ admins \in [Admin -> Account] /\ held \in [Admin -> Rights] /\ a # Owner
      /\ UNCHANGED <<tokens, reqs>>
  BY DEF UpdateAdmin, IInv, TypeOK
<1>2. /\ admins' \in [Admin -> Account] /\ held' \in [Admin -> Rights]
      /\ \A b \in Admin : /\ held[b] \subseteq held'[b]
                          /\ admins'[b].rights \subseteq held'[b]
                          /\ admins'[b].role = "OWNER" <=> b = Owner
  <2>1. CASE /\ held' = held
             /\ \E role \in Role \ {"OWNER"} : admins' = [admins EXCEPT ![a].role = role]
    BY <1>1, <2>1 DEF IInv, Accounts, Account
  <2>2. CASE held' = held /\ admins' = [admins EXCEPT ![a].active = ~@]
    BY <1>1, <2>2 DEF IInv, Accounts, Account
  <2>3. CASE \E rights \in Rights : /\ admins' = [admins EXCEPT ![a].rights = rights]
                                    /\ held' = [held EXCEPT ![a] = @ \cup rights]
    <3>1. PICK rights \in Rights : /\ admins' = [admins EXCEPT ![a].rights = rights]
                                   /\ held' = [held EXCEPT ![a] = @ \cup rights]
      BY <2>3
    <3>2. held[a] \cup rights \in Rights
      BY <1>1, <3>1 DEF Rights
    <3> QED BY <1>1, <3>1, <3>2 DEF IInv, Accounts, Account
  <2> QED BY <2>1, <2>2, <2>3 DEF UpdateAdmin
<1>3. TypeOK'
  <2>1. \A q \in DOMAIN reqs' : ReqOK(reqs[q])'
    BY <1>1 DEF IInv, TypeOK, ReqOK
  <2> QED BY <1>1, <1>2, <2>1 DEF IInv, TypeOK
<1>4. Accounts'
  BY <1>2 DEF Accounts
<1>5. Identities'
  <2>1. \A r \in DOMAIN reqs : reqs[r].stage = "handler" /\ reqs[r].cred \in Admin /\ ActsForAccount(reqs[r])
                                 => ActsForAccount(reqs[r])'
    BY <1>1, <1>2 DEF ActsForAccount
  <2>2. \A r \in DOMAIN reqs : ActsForCreator(reqs[r]) => ActsForCreator(reqs[r])'
    BY <1>1 DEF ActsForCreator
  <2> QED BY <1>1, <2>1, <2>2 DEF IInv, Identities
<1>6. NoEscalation'
  <2>1. \A k \in DOMAIN tokens : tokens[k].creator \in Admin
    BY DEF IInv, TypeOK, TokenRow
  <2> QED BY <1>1, <1>2, <2>1 DEF IInv, NoEscalation
<1> QED BY <1>3, <1>4, <1>5, <1>6 DEF IInv

-----------------------------------------------------------------------------
LEMMA NextIInv == IInv /\ [Next]_vars => IInv'
<1> SUFFICES ASSUME IInv, [Next]_vars PROVE IInv'
  OBVIOUS
<1>1. ASSUME NEW r \in Request, NEW c \in Admin \cup Token, RequireRole(r, c) PROVE IInv'
  BY <1>1, RequireRoleIInv
<1>2. ASSUME NEW r \in Request, RequireTokenPermission(r) PROVE IInv'
  BY <1>2, RequireTokenPermissionIInv
<1>3. ASSUME NEW r \in Request, ResolveSession(r) PROVE IInv'
  BY <1>3, ResolveSessionIInv
<1>4. ASSUME NEW r \in Request, GetPermissions(r) PROVE IInv'
  BY <1>4, GetPermissionsIInv
<1>5. ASSUME NEW r \in Request, NEW k \in Token, NEW rights \in Rights, Create(r, k, rights) PROVE IInv'
  BY <1>5, CreateIInv
<1>6. ASSUME NEW r \in Request, NEW k \in Token, NEW change \in Change, Find(r, k, change) PROVE IInv'
  BY <1>6, FindIInv
<1>7. ASSUME NEW r \in Request, FindNone(r) PROVE IInv'
  BY <1>7, EndKeepsIInv DEF FindNone
<1>8. ASSUME NEW r \in Request, Update(r) PROVE IInv'
  BY <1>8, UpdateIInv
<1>9. ASSUME NEW r \in Request, CutOff(r) PROVE IInv'
  BY <1>9, EndKeepsIInv DEF CutOff
<1>10. ASSUME NEW a \in Admin, UpdateAdmin(a) PROVE IInv'
  BY <1>10, UpdateAdminIInv
<1>11. ASSUME NEW k \in Token, Expire(k) PROVE IInv'
  BY <1>11, ExpireIInv
<1>12. CASE UNCHANGED vars
  BY <1>12 DEF vars, IInv, TypeOK, ReqOK, Accounts, Identities, ActsForAccount, ActsForCreator, NoEscalation
<1> QED
  BY <1>1, <1>2, <1>3, <1>4, <1>5, <1>6, <1>7, <1>8, <1>9, <1>10, <1>11, <1>12 DEF Next, Handle, Outside

LEMMA InvariantHolds == Spec => []IInv
BY InitIInv, NextIInv, PTL DEF Spec

(* Tokens, accounts and requests are well formed: every token has a         *)
(* permission, an account that created it and a credential that exists.     *)
THEOREM TypeCorrect == Spec => []TypeOK
<1>1. IInv => TypeOK
  BY DEF IInv
<1> QED BY <1>1, InvariantHolds, PTL

(* A token never carries more than its creator ever had, nor, created with  *)
(* a token, more than that token (createApiToken), whatever the OWNER does  *)
(* to the accounts while the request is on its way.                         *)
THEOREM NoEscalationAlways == Spec => []NoEscalation
<1>1. IInv => NoEscalation
  BY DEF IInv
<1> QED BY <1>1, InvariantHolds, PTL

-----------------------------------------------------------------------------
Kept(r, k) == tokens[k].over /\ With(r, k)' => With(r, k) /\ reqs'[r] = reqs[r]

\* The step of one request keeps the promise for the others.
LEMMA OthersKept ==
  ASSUME NEW r, NEW q, q # r, NEW k \in DOMAIN tokens, (\E t : Go(r, t)) \/ End(r)
  PROVE  Kept(q, k)
<1>1. q \in DOMAIN reqs' => q \in DOMAIN reqs /\ reqs'[q] = reqs[q]
  BY DEF Go, End
<1> QED BY <1>1 DEF Kept, With

\* The step of a request itself: authentication refuses a token that is over.
LEMMA OwnStepKept ==
  ASSUME IInv, NEW r \in Request, NEW k \in DOMAIN tokens, tokens[k].over, With(r, k)',
         \/ \E c \in Admin \cup Token : RequireRole(r, c)
         \/ RequireTokenPermission(r) \/ ResolveSession(r) \/ GetPermissions(r)
         \/ \E j \in Token, rights \in Rights : Create(r, j, rights)
         \/ \E j \in Token, change \in Change : Find(r, j, change)
         \/ FindNone(r) \/ Update(r) \/ CutOff(r)
  PROVE  FALSE
<1>1. k \notin Admin /\ ~Usable(k)
  BY TokenIsNoAccount DEF IInv, Usable
<1>2. r \in DOMAIN reqs' /\ reqs'[r].stage \in {"role", "handler"} /\ reqs'[r].cred = k
  BY DEF With
<1>3. ASSUME NEW c \in Admin \cup Token, RequireRole(r, c) PROVE FALSE
  BY <1>1, <1>2, <1>3 DEF RequireRole, Accepts, Go
<1>4. CASE RequireTokenPermission(r)
  BY <1>1, <1>2, <1>4 DEF RequireTokenPermission, Accepts, Go
<1>5. CASE ResolveSession(r)
  BY <1>1, <1>2, <1>5 DEF ResolveSession, Go
<1>6. CASE GetPermissions(r)
  <2>1. reqs[r].cred \in Admin
    BY <1>6 DEF GetPermissions, In, IInv, TypeOK, ReqOK
  <2> QED BY <1>1, <1>2, <1>6, <2>1 DEF GetPermissions, Go
<1>7. ASSUME NEW j \in Token, NEW rights \in Rights, Create(r, j, rights) PROVE FALSE
  BY <1>2, <1>7 DEF Create, Issue, End
<1>8. ASSUME NEW j \in Token, NEW change \in Change, Find(r, j, change) PROVE FALSE
  BY <1>2, <1>8 DEF Find, Go
<1>9. CASE FindNone(r)
  BY <1>2, <1>9 DEF FindNone, End
<1>10. CASE Update(r)
  BY <1>2, <1>10 DEF Update, End
<1>11. CASE CutOff(r)
  BY <1>2, <1>11 DEF CutOff, End
<1> QED BY <1>3, <1>4, <1>5, <1>6, <1>7, <1>8, <1>9, <1>10, <1>11

(* No call of enable, and no request that was let in while it was valid,    *)
(* lets a token that was revoked or has expired in again.                   *)
THEOREM OverIsOverAlways == Spec => OverIsOver
<1>1. ASSUME IInv, [Next]_vars, NEW r \in Request, NEW k \in DOMAIN tokens PROVE Kept(r, k)
  <2>1. ASSUME NEW q \in Request, (\E t : Go(q, t)) \/ End(q), q # r PROVE Kept(r, k)
    BY <2>1, OthersKept
  <2>2. CASE Outside \/ UNCHANGED vars
    <3>1. reqs' = reqs
      BY <2>2 DEF Outside, UpdateAdmin, Expire, vars
    <3> QED BY <3>1 DEF Kept, With
  <2>3. CASE Handle
    <3>1. PICK q \in Request :
            \/ \E c \in Admin \cup Token : RequireRole(q, c)
            \/ RequireTokenPermission(q) \/ ResolveSession(q) \/ GetPermissions(q)
            \/ \E j \in Token, rights \in Rights : Create(q, j, rights)
            \/ \E j \in Token, change \in Change : Find(q, j, change)
            \/ FindNone(q) \/ Update(q) \/ CutOff(q)
      BY <2>3 DEF Handle
    <3>2. (\E t : Go(q, t)) \/ End(q)
      BY <3>1 DEF RequireRole, RequireTokenPermission, ResolveSession, GetPermissions, Create, Issue,
                  Find, FindNone, Update, CutOff
    <3>3. CASE q = r
      BY <1>1, <3>1, <3>3, OwnStepKept DEF Kept
    <3> QED BY <2>1, <3>2, <3>3
  <2> QED BY <1>1, <2>2, <2>3 DEF Next
<1>2. IInv /\ [Next]_vars =>
        [\A r \in Request, k \in DOMAIN tokens :
           tokens[k].over /\ With(r, k)' => With(r, k) /\ reqs'[r] = reqs[r]]_vars
  BY <1>1 DEF Kept
<1> QED BY <1>2, InvariantHolds, PTL DEF Spec, OverIsOver

------------------------------------------------------------------------------
(* WebSession: the tab of the panel and its cookie.                         *)

\* A tab in which the calls of /auth/me are what activeRequest says: one at a
\* time, and none answers for nobody.
WellFormed(w) ==
  /\ w \in TabState
  /\ w.status = "authenticated" <=> w.user # None
  /\ w.asks # {} <=> w.active
  /\ \A a, b \in w.asks : a = b
  /\ \A a \in w.asks : a.answer = "user" => a.carries # None

\* A panel whose cookie nobody changed asks about it, and shows its user.
Current(w, c) ==
  w.page = "panel" /\ w.same /\ ~w.joined =>
    /\ \A a \in w.asks : a.carries = c
    /\ w.status = "authenticated" /\ ~w.active => w.user = c

WebInv ==
  /\ sessions \in [Session -> {"new", "alive", "over"}]
  /\ cookie \in Maybe
  /\ WellFormed(tab) /\ Current(tab, cookie)

(* A call that is joined or begun leaves a well-formed tab.                 *)
LEMMA RefreshedWell ==
  ASSUME NEW w, NEW c \in Maybe, WellFormed(w)
  PROVE  /\ WellFormed(Refreshed(w, c))
         /\ Current(w, c) => Current(Refreshed(w, c), c)
         /\ Refreshed(w, c).active
         /\ ~w.active => Current(Refreshed(w, c), c)
<1> DEFINE a == [carries |-> c, answer |-> "none"]
           v == Refreshed(w, c)
<1>1. CASE w.active
  BY <1>1 DEF Refreshed
<1>2. CASE ~w.active
  <2>1. w.asks = {} /\ w \in TabState
    BY <1>2 DEF WellFormed
  <2>2. v = [w EXCEPT !.status = "loading", !.user = None, !.active = TRUE, !.asks = {a}]
    BY <1>2, <2>1 DEF Refreshed, Emit, TabState
  <2>3. a \in Ask /\ a.carries = c /\ a.answer = "none"
    BY DEF Ask
  <2> HIDE DEF a, v
  <2>4. /\ v \in TabState /\ v.asks = {a} /\ v.status = "loading" /\ v.user = None /\ v.active
    BY <2>1, <2>2, <2>3 DEF TabState, AuthStatus, Maybe
  <2> QED BY <2>3, <2>4 DEF WellFormed, Current, v
<1> QED BY <1>1, <1>2

(* A panel that is mounted with no call in flight asks about its cookie.    *)
LEMMA MountedWell ==
  ASSUME cookie \in Maybe, NEW w, WellFormed(w)
  PROVE  WellFormed(Mounted(w)) /\ Current(Mounted(w), cookie)
<1> DEFINE page == IF w.status = "unauthenticated" THEN "login" ELSE "panel"
           v == [w EXCEPT !.page = page, !.same = TRUE, !.joined = w.active]
<1>1. /\ v \in TabState /\ v.joined = w.active /\ v.active = w.active /\ v.asks = w.asks
      /\ v.status = w.status /\ v.user = w.user
  BY DEF WellFormed, TabState
<1>2. Mounted(w) = Refreshed(v, cookie)
  BY DEF Mounted
<1> HIDE DEF v
<1>3. WellFormed(v)
  BY <1>1 DEF WellFormed
<1>4. w.active => Current(v, cookie)
  BY <1>1 DEF Current
<1> QED BY <1>1, <1>2, <1>3, <1>4, RefreshedWell

LEMMA ProxiedWell ==
  ASSUME cookie \in Maybe, NEW w, WellFormed(w)
  PROVE  WellFormed(Proxied(w)) /\ Current(Proxied(w), cookie)
<1>1. WellFormed([w EXCEPT !.page = "login"]) /\ Current([w EXCEPT !.page = "login"], cookie)
  BY DEF WellFormed, Current, TabState
<1> QED BY <1>1, MountedWell DEF Proxied

LEMMA LoadedWell == WellFormed(Loaded) /\ Current(Loaded, cookie)
BY DEF Loaded, WellFormed, Current, TabState, Maybe, AuthStatus, NoPost, Post, Ask

(* A tab of which a step changes neither the calls nor what it shows.       *)
LEMMA SameStore ==
  ASSUME NEW w, NEW v \in TabState, WellFormed(w),
         v.asks = w.asks, v.active = w.active, v.status = w.status, v.user = w.user
  PROVE  /\ WellFormed(v)
         /\ \A c : (Current(w, c) /\ (v.page # w.page => v.page = "login") /\ (v.same => w.same)
                    /\ v.joined = w.joined) => Current(v, c)
<1>1. WellFormed(v)
  BY DEF WellFormed
<1>2. w.page \in {"login", "panel"} /\ v.page \in {"login", "panel"}
  BY DEF WellFormed, TabState
<1> QED BY <1>1, <1>2 DEF Current

LEMMA InitWeb == WebInit => WebInv
<1>1. ASSUME WebInit PROVE cookie \in Maybe /\ sessions \in [Session -> {"new", "alive", "over"}]
  BY <1>1 DEF WebInit, Maybe
<1> QED BY <1>1, LoadedWell DEF WebInit, WebInv

LEMMA NextWeb ==
  ASSUME WebInv, [WebNext]_webVars
  PROVE  WebInv'
<1> DEFINE Good(w) == WellFormed(w) /\ Current(w, cookie)
<1>0. /\ None \notin Session /\ cookie \in Maybe /\ tab \in TabState /\ Good(tab)
      /\ sessions \in [Session -> {"new", "alive", "over"}]
      /\ \A a \in tab.asks : a \in Ask
      /\ tab.post \in Post
  BY WebSessionAssumption DEF WebInv, WellFormed, TabState
<1>1. ASSUME NEW w, tab' = w, Good(w), UNCHANGED <<sessions, cookie>> PROVE WebInv'
  BY <1>0, <1>1 DEF WebInv
<1>2. CASE Load
  BY <1>0, <1>1, <1>2, LoadedWell, ProxiedWell DEF Load, Become
<1>3. CASE Return
  <2>1. [tab EXCEPT !.page = "login"] \in TabState
    BY <1>0 DEF TabState
  <2>2. Good([tab EXCEPT !.page = "login"])
    BY <1>0, <2>1 DEF WellFormed, Current, TabState
  <2> QED BY <1>0, <1>1, <1>3, <2>2, MountedWell DEF Return, Become
<1>4. CASE Boundary
  <2>1. Good([tab EXCEPT !.page = "login"])
    BY <1>0 DEF WellFormed, Current, TabState
  <2> QED BY <1>1, <1>4, <2>1 DEF Boundary, Become
<1>5. CASE Retry
  BY <1>0, <1>1, <1>5, RefreshedWell DEF Retry, Become
<1>6. CASE Serve
  <2>1. PICK a \in tab.asks : a.answer = "none" /\ \E answer \in {"user", "401"} :
           /\ answer = "user" => a.carries # None
           /\ tab' = [tab EXCEPT !.asks = (@ \ {a}) \cup {[a EXCEPT !.answer = answer]}]
           /\ UNCHANGED <<sessions, cookie>>
    BY <1>6 DEF Serve, Become
  <2>2. PICK answer \in {"user", "401"} :
           /\ answer = "user" => a.carries # None
           /\ tab' = [tab EXCEPT !.asks = (@ \ {a}) \cup {[a EXCEPT !.answer = answer]}]
    BY <2>1
  <2> DEFINE b == [a EXCEPT !.answer = answer]
  <2>3. tab.asks = {a} /\ a \in Ask
    BY <1>0 DEF WellFormed
  <2>4. b \in Ask /\ b.carries = a.carries /\ b.answer = answer
    BY <2>3 DEF Ask
  <2> HIDE DEF b
  <2>5. tab' = [tab EXCEPT !.asks = {b}]
    BY <1>0, <2>2, <2>3 DEF b, TabState
  <2>6. Good([tab EXCEPT !.asks = {b}])
    BY <1>0, <2>2, <2>3, <2>4 DEF WellFormed, Current, TabState
  <2> QED BY <1>1, <2>1, <2>5, <2>6
<1>7. CASE Answer \/ Fail
  <2>1. PICK a \in tab.asks : \E status \in AuthStatus, user \in Maybe :
           /\ tab' = Emit(Over(a), status, user)
           /\ \/ status = "authenticated" /\ user = a.carries /\ a.answer = "user"
              \/ status \in {"unauthenticated", "error"} /\ user = None
           /\ UNCHANGED <<sessions, cookie>>
    BY <1>0, <1>7 DEF Answer, Fail, Become, AuthStatus, Maybe, Ask
  <2>2. PICK status \in AuthStatus, user \in Maybe :
           /\ tab' = Emit(Over(a), status, user)
           /\ \/ status = "authenticated" /\ user = a.carries /\ a.answer = "user"
              \/ status \in {"unauthenticated", "error"} /\ user = None
    BY <2>1
  <2>3. tab.asks = {a}
    BY <1>0 DEF WellFormed
  <2>4. tab' = [tab EXCEPT !.asks = {}, !.active = FALSE, !.status = status, !.user = user]
    BY <1>0, <2>2, <2>3 DEF Emit, Over, TabState
  <2>5. status = "authenticated" <=> user # None
    BY <1>0, <2>2 DEF WellFormed
  <2>6. Good([tab EXCEPT !.asks = {}, !.active = FALSE, !.status = status, !.user = user])
    BY <1>0, <2>2, <2>3, <2>5 DEF WellFormed, Current, TabState
  <2> QED BY <1>1, <2>1, <2>4, <2>6
<1>8. CASE Submit \/ Logout \/ NotLoggedIn
  <2>1. PICK post \in Post : tab' = [tab EXCEPT !.post = post] /\ UNCHANGED <<sessions, cookie>>
    BY <1>0, <1>8 DEF Submit, Logout, NotLoggedIn, Become, Post, NoPost, Maybe
  <2>2. Good([tab EXCEPT !.post = post])
    BY <1>0 DEF WellFormed, Current, TabState
  <2> QED BY <1>1, <2>1, <2>2
<1>9. CASE ServeLogin \/ ServeLogout
  <2>1. \E post \in Post : tab' = [tab EXCEPT !.post = post]
    <3>1. ASSUME NEW s \in Session, tab' = [tab EXCEPT !.post.session = s, !.post.answer = "ok"]
          PROVE  \E post \in Post : tab' = [tab EXCEPT !.post = post]
      <4>1. [tab.post EXCEPT !.session = s, !.answer = "ok"] \in Post
        BY <1>0 DEF Post, Maybe
      <4>2. tab' = [tab EXCEPT !.post = [tab.post EXCEPT !.session = s, !.answer = "ok"]]
        BY <1>0, <3>1 DEF TabState, Post
      <4> QED BY <4>1, <4>2
    <3>2. ASSUME NEW answer \in {"ok", "refused"}, tab' = [tab EXCEPT !.post.answer = answer]
          PROVE  \E post \in Post : tab' = [tab EXCEPT !.post = post]
      <4>1. [tab.post EXCEPT !.answer = answer] \in Post
        BY <1>0 DEF Post
      <4> QED BY <1>0, <3>2, <4>1 DEF TabState
    <3> QED BY <1>9, <3>1, <3>2 DEF ServeLogin, ServeLogout, Become
  <2>2. PICK post \in Post : tab' = [tab EXCEPT !.post = post]
    BY <2>1
  <2>3. sessions' \in [Session -> {"new", "alive", "over"}] /\ cookie' = cookie
    BY <1>0, <1>9 DEF ServeLogin, ServeLogout
  <2>4. Good([tab EXCEPT !.post = post])
    BY <1>0 DEF WellFormed, Current, TabState
  <2> QED BY <1>0, <2>2, <2>3, <2>4 DEF WebInv
<1>10. CASE Land
  <2> DEFINE w == [tab EXCEPT !.awaiting = FALSE]
  <2>1. Good(w)
    BY <1>0 DEF WellFormed, Current, TabState
  <2>2. Good(Proxied(w))
    BY <1>0, <2>1, ProxiedWell
  <2>3. (tab' = w \/ tab' = Proxied(w)) /\ UNCHANGED <<sessions, cookie>>
    BY <1>10 DEF Land, Become
  <2> QED BY <1>1, <2>1, <2>2, <2>3
<1>11. ASSUME NEW c \in Maybe, NEW w, WellFormed(w), c = cookie => Current(w, c), SetCookie(c, w),
              sessions' \in [Session -> {"new", "alive", "over"}]
       PROVE  WebInv'
  <2>1. WellFormed(tab') /\ Current(tab', c)
    BY <1>11 DEF SetCookie, WellFormed, Current, TabState
  <2> QED BY <1>11, <2>1 DEF SetCookie, WebInv
<1>12. CASE LoggedIn
  <2> DEFINE s == tab.post.session
             v == [tab EXCEPT !.post = NoPost, !.awaiting = TRUE]
  <2>1. s \in Maybe /\ SetCookie(s, Refreshed(v, s)) /\ UNCHANGED sessions
    BY <1>0, <1>12 DEF LoggedIn, Post
  <2>2. Good(v)
    BY <1>0 DEF WellFormed, Current, TabState, NoPost, Post, Maybe
  <2> HIDE DEF s, v
  <2>3. WellFormed(Refreshed(v, s)) /\ (s = cookie => Current(Refreshed(v, s), s))
    BY <2>1, <2>2, RefreshedWell
  <2> QED BY <1>0, <1>11, <2>1, <2>3
<1>13. WellFormed(Left) /\ \A c : Current(Left, c)
  <2>1. Left = [tab EXCEPT !.status = "unauthenticated", !.user = None, !.post = NoPost, !.page = "login"]
    BY <1>0 DEF Left, Emit, TabState
  <2> QED BY <1>0, <2>1 DEF WellFormed, Current, TabState, AuthStatus, NoPost, Post, Maybe
<1>14. CASE LoggedOut \/ NotLoggedOut
  <2>1. CASE LoggedOut
    BY <1>0, <1>11, <1>13, <2>1 DEF LoggedOut, Maybe
  <2>2. CASE NotLoggedOut
    BY <1>1, <1>13, <2>2 DEF NotLoggedOut, Become
  <2> QED BY <1>14, <2>1, <2>2
<1>15. CASE LogoutElsewhere
  <2>1. SetCookie(None, tab) /\ None \in Maybe /\ sessions' \in [Session -> {"new", "alive", "over"}]
    BY <1>0, <1>15 DEF LogoutElsewhere, Maybe
  <2> QED BY <1>0, <1>11, <2>1
<1>16. ASSUME NEW s \in Session, Revoke(s) \/ LoginElsewhere(s) PROVE WebInv'
  <2>1. CASE Revoke(s)
    BY <1>0, <2>1 DEF Revoke, WebInv, WellFormed, Current
  <2>2. CASE LoginElsewhere(s)
    <3>1. SetCookie(s, tab) /\ s \in Maybe /\ sessions' \in [Session -> {"new", "alive", "over"}]
      BY <1>0, <2>2 DEF LoginElsewhere, Maybe
    <3> QED BY <1>0, <1>11, <3>1
  <2> QED BY <1>16, <2>1, <2>2
<1>17. CASE UNCHANGED webVars
  BY <1>17 DEF WebInv, WellFormed, Current, webVars
<1> QED BY <1>2, <1>3, <1>4, <1>5, <1>6, <1>7, <1>8, <1>9, <1>10, <1>12, <1>14, <1>15,
           <1>16, <1>17 DEF WebNext, Arrives, PostEnds

\* The types of the panel's tab, and a store that is never signed in without a
\* user, nor waits for a call that activeRequest does not know of.
THEOREM WebTypeCorrect == WebSpec => []WebTypeOK
<1>1. WebInv => WebTypeOK
  BY DEF WebInv, WellFormed, WebTypeOK
<1>2. WebInv /\ [WebNext]_webVars => WebInv'
  BY NextWeb
<1> QED BY <1>1, <1>2, InitWeb, PTL DEF WebSpec

\* A panel at rest shows another user than its cookie stands for only if the
\* cookie was changed under it, or it joined a call of an earlier page.
THEOREM StaleIsAlwaysExplained == WebSpec => []StaleIsExplained
<1>1. WebInv => StaleIsExplained
  BY DEF WebInv, Current, StaleIsExplained
<1>2. WebInv /\ [WebNext]_webVars => WebInv'
  BY NextWeb
<1> QED BY <1>1, <1>2, InitWeb, PTL DEF WebSpec

==============================================================================
