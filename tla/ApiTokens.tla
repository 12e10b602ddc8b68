-------------------------------- MODULE ApiTokens --------------------------------
(***************************************************************************)
(* The API tokens of the settings (SettingsService and                     *)
(* KyselySettingsRepository) and the authorization in front of them        *)
(* (createAuthorization).                                                  *)
(*                                                                         *)
(* A request comes with the cookie of an account, whose session is taken   *)
(* as valid (see Sessions), or with a token.  It is authenticated twice:   *)
(* requireRole looks at the role, requirePermission reads the identity     *)
(* again and keeps it for the handler.  The handler changes a token with   *)
(* two statements that lock nothing in between.  The permissions are       *)
(* reduced to Manage, which stands for SETTINGS_VIEW and                   *)
(* SETTINGS_SECURITY_UPDATE, and others; address lists are left out.       *)
(***************************************************************************)
CONSTANTS
  Admin, Owner,          \* the accounts; Owner has the role OWNER
  Right, Manage,         \* PERMISSIONS
  Token,                 \* bound: tokens ever created
  Request                \* bound: requests at one time

ASSUME ApiTokensAssumption == Owner \in Admin /\ Manage \in Right /\ Admin \cap Token = {}

VARIABLES
  admins,     \* role, status and permissions of the accounts
  tokens,     \* api_tokens
  reqs,       \* the requests in progress
  held        \* the permissions an account ever had

vars == <<admins, tokens, reqs, held>>

-----------------------------------------------------------------------------
Role == {"OWNER", "ADMIN", "RESELLER"}
Rights == SUBSET Right
Account == [role : Role, active : BOOLEAN, rights : Rights]

\* `by' is the credential the token was created with; `over' says that it was
\* revoked or has expired, which the code never tells apart.
TokenRow == [creator : Admin, rights : Rights \ {{}}, by : Admin \cup Token,
             enabled : BOOLEAN, over : BOOLEAN]

Change == {"enable", "disable", "revoke"}

In(r, stage) == r \in DOMAIN reqs /\ reqs[r].stage = stage
End(r) == reqs' = [q \in DOMAIN reqs \ {r} |-> reqs[q]]
Go(r, t) == reqs' = [q \in DOMAIN reqs \cup {r} |-> IF q = r THEN t ELSE reqs[q]]

\* Mutant: only the switch is looked at.
UsableEnabled(k) == k \in DOMAIN tokens /\ tokens[k].enabled

\* resolveApiToken
Usable(k) == k \in DOMAIN tokens /\ tokens[k].enabled /\ ~tokens[k].over

\* authenticate and authenticateApiToken
Accepts(c) == IF c \in Admin THEN admins[c].active ELSE Usable(c) /\ admins[tokens[c].creator].active

\* hasPermission
HasPermission(owner, rights) == owner \/ Manage \in rights

-----------------------------------------------------------------------------
\* requireRole(OWNER, ADMIN); a token is an ADMIN.  Of the role of an identity,
\* what the handlers ask is whether it is OWNER.
RequireRole(r, c) ==
  /\ r \notin DOMAIN reqs /\ Accepts(c)
  /\ c \in Admin => admins[c].role \in {"OWNER", "ADMIN"}
  /\ Go(r, [stage |-> "role", cred |-> c])
  /\ UNCHANGED <<admins, tokens, held>>

\* Mutant: a token acts with the role of its creator.
RequireTokenPermissionAsCreator(r) ==
  /\ In(r, "role") /\ reqs[r].cred \in Token /\ Accepts(reqs[r].cred)
  /\ LET k == reqs[r].cred
         owner == tokens[k].creator = Owner
     IN /\ HasPermission(owner, tokens[k].rights)
        /\ Go(r, [stage |-> "handler", cred |-> k, admin |-> tokens[k].creator, owner |-> owner,
                  rights |-> tokens[k].rights])
  /\ UNCHANGED <<admins, tokens, held>>

\* requirePermission of a request with a token
RequireTokenPermission(r) ==
  /\ In(r, "role") /\ reqs[r].cred \in Token /\ Accepts(reqs[r].cred)
  /\ LET k == reqs[r].cred IN
     /\ HasPermission(FALSE, tokens[k].rights)
     /\ Go(r, [stage |-> "handler", cred |-> k, admin |-> tokens[k].creator, owner |-> FALSE,
               rights |-> tokens[k].rights])
  /\ UNCHANGED <<admins, tokens, held>>

\* requirePermission of a request with a cookie: the account, then its permissions
ResolveSession(r) ==
  /\ In(r, "role") /\ reqs[r].cred \in Admin /\ Accepts(reqs[r].cred)
  /\ Go(r, [stage |-> "account", cred |-> reqs[r].cred, owner |-> admins[reqs[r].cred].role = "OWNER"])
  /\ UNCHANGED <<admins, tokens, held>>

GetPermissions(r) ==
  /\ In(r, "account")
  /\ LET a == reqs[r].cred IN
     /\ HasPermission(reqs[r].owner, admins[a].rights)
     /\ Go(r, [stage |-> "handler", cred |-> a, admin |-> a, owner |-> reqs[r].owner, rights |-> admins[a].rights])
  /\ UNCHANGED <<admins, tokens, held>>

-----------------------------------------------------------------------------
Issue(r, k, rights) ==
  /\ tokens' = [j \in DOMAIN tokens \cup {k} |-> IF j # k THEN tokens[j]
       ELSE [creator |-> reqs[r].admin, rights |-> rights, by |-> reqs[r].cred,
             enabled |-> TRUE, over |-> FALSE]]
  /\ End(r) /\ UNCHANGED <<admins, held>>

\* createApiToken
Create(r, k, rights) ==
  /\ In(r, "handler") /\ k \in Token \ DOMAIN tokens /\ rights # {}
  /\ reqs[r].owner \/ rights \subseteq reqs[r].rights
  /\ Issue(r, k, rights)

\* scopedTokens
Scoped(r, k) == k \in DOMAIN tokens /\ (reqs[r].owner \/ tokens[k].creator = reqs[r].admin)

\* setApiTokenState and revokeApiToken find the row without a lock.
Find(r, k, change) ==
  /\ In(r, "handler") /\ Scoped(r, k)
  /\ Go(r, [stage |-> "update", token |-> k, change |-> change])
  /\ UNCHANGED <<admins, tokens, held>>

FindNone(r) ==
  /\ In(r, "handler") /\ \E k \in Token : ~Scoped(r, k)
  /\ End(r) /\ UNCHANGED <<admins, tokens, held>>

\* Their UPDATE, by the id alone.
Update(r) ==
  /\ In(r, "update")
  /\ LET t == reqs[r] IN
     tokens' = [tokens EXCEPT ![t.token].enabled = t.change = "enable",
                              ![t.token].over = @ \/ t.change = "revoke"]
  /\ End(r) /\ UNCHANGED <<admins, held>>

\* A refusal, an error or a restart of the API.
CutOff(r) == r \in DOMAIN reqs /\ End(r) /\ UNCHANGED <<admins, tokens, held>>

-----------------------------------------------------------------------------
\* updateAdmin by the OWNER: role, status or permissions of another account;
\* several of them at once are the same as one after the other.
UpdateAdmin(a) ==
  /\ a # Owner
  /\ \/ \E role \in Role \ {"OWNER"} : admins' = [admins EXCEPT ![a].role = role] /\ held' = held
     \/ admins' = [admins EXCEPT ![a].active = ~@] /\ held' = held
     \/ \E rights \in Rights : /\ admins' = [admins EXCEPT ![a].rights = rights]
                               /\ held' = [held EXCEPT ![a] = @ \cup rights]
  /\ UNCHANGED <<tokens, reqs>>

\* expires_at of a token passes.
Expire(k) ==
  /\ k \in DOMAIN tokens
  /\ tokens' = [tokens EXCEPT ![k].over = TRUE]
  /\ UNCHANGED <<admins, reqs, held>>

\* bootstrapOwner grants nothing: the OWNER passes without.
Init ==
  /\ admins \in [Admin -> {x \in Account : x.active}]
  /\ \A a \in Admin : admins[a].role = "OWNER" <=> a = Owner
  /\ admins[Owner].rights = {}
  /\ held = [a \in Admin |-> admins[a].rights]
  /\ tokens = [k \in {} |-> {}] /\ reqs = [r \in {} |-> {}]

Handle == \E r \in Request :
  \/ \E c \in Admin \cup Token : RequireRole(r, c)
  \/ RequireTokenPermission(r) \/ ResolveSession(r) \/ GetPermissions(r)
  \/ \E k \in Token, rights \in Rights : Create(r, k, rights)
  \/ \E k \in Token, change \in Change : Find(r, k, change)
  \/ FindNone(r) \/ Update(r) \/ CutOff(r)

Outside ==
  \/ \E a \in Admin : UpdateAdmin(a)
  \/ \E k \in Token : Expire(k)

Next == Handle \/ Outside
Spec == Init /\ [][Next]_vars

-----------------------------------------------------------------------------
(* Properties *)

ReqOK(t) ==
  \/ t.stage = "role" /\ t \in [stage : {"role"}, cred : Admin \cup DOMAIN tokens]
  \/ t.stage = "account" /\ t \in [stage : {"account"}, cred : Admin, owner : BOOLEAN]
  \/ t.stage = "handler" /\ t \in [stage : {"handler"}, cred : Admin \cup DOMAIN tokens, admin : Admin,
                                   owner : BOOLEAN, rights : Rights]
  \/ t.stage = "update" /\ t \in [stage : {"update"}, token : DOMAIN tokens, change : Change]

\* The shape of the state: every token has a permission, and was created with
\* a cookie or with a token that exists.
TypeOK ==
  /\ admins \in [Admin -> Account] /\ held \in [Admin -> Rights]
  /\ DOMAIN tokens \subseteq Token
  /\ tokens \in [DOMAIN tokens -> TokenRow]
  /\ \A k \in DOMAIN tokens : tokens[k].by \in Admin \cup DOMAIN tokens
  /\ DOMAIN reqs \subseteq Request
  /\ \A r \in DOMAIN reqs : ReqOK(reqs[r])

\* A token never carries more than whoever asked for it: nothing its creator,
\* unless that is the OWNER, never had, and, created with another token,
\* nothing that token does not carry, not even when the creator is the OWNER.
\* Permissions may be taken away while the request is on its way.
NoEscalation == \A k \in DOMAIN tokens :
  /\ tokens[k].creator # Owner => tokens[k].rights \subseteq held[tokens[k].creator]
  /\ tokens[k].by \in DOMAIN tokens => tokens[k].rights \subseteq tokens[tokens[k].by].rights

With(r, k) == r \in DOMAIN reqs /\ reqs[r].stage \in {"role", "handler"} /\ reqs[r].cred = k

\* A token that was revoked or has expired lets no request in any more, whatever
\* the calls enable that found it before or find it now: only requests past
\* their authentication go on.
OverIsOver == [][\A r \in Request, k \in DOMAIN tokens :
  tokens[k].over /\ With(r, k)' => With(r, k) /\ reqs'[r] = reqs[r]]_vars
=============================================================================
