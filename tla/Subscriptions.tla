----------------------------- MODULE Subscriptions -----------------------------
(***************************************************************************)
(* What the users of one sub-panel are delivered: their client, its config *)
(* artifact (the link) and their subscription, with the expiration that    *)
(* each of them carries a copy of (KyselySubpanelRepository).              *)
(*                                                                         *)
(* A request is a transaction of PostgreSQL at READ COMMITTED.  It reads   *)
(* the settings of the sub-panel, reads its target (an edit: with the lock *)
(* of the tenant), and then takes the locks of the rows it writes one at a *)
(* time in the order of its statements; its writes are shown at the        *)
(* commit, which comes with the last of these locks.  Tokens are           *)
(* identified with the row they belong to.  What only refuses (the master  *)
(* setting, the other capabilities, the quota of SubpanelQuota, a disabled *)
(* user) is left to Fail.  A bulk action is that of one user; over several *)
(* it is left out.                                                         *)
(***************************************************************************)
EXTENDS Integers, Sequences, FiniteSets

CONSTANTS
  User, Request,         \* vpn_users; bound: transactions at one time
  PortalCredential,      \* credentials the API generates
  OwnerCredential,       \* credentials set on the pages of the inbounds
  MaxTime,               \* bound: the last expiration there is
  None

ASSUME SubscriptionAssumption ==
  /\ MaxTime \in Nat /\ None \notin User
  /\ PortalCredential \cap OwnerCredential = {}

VARIABLES
  now,       \* the clock
  panel,     \* the row of tenants, and allow_subscription
  users,     \* vpn_users with their inbound_clients
  links,     \* configs that are not revoked
  subs,      \* subscriptions
  tx         \* the requests in progress

vars == <<now, panel, users, links, subs, tx>>

-----------------------------------------------------------------------------
Expiry == 1..MaxTime \cup {None}
Credential == PortalCredential \cup OwnerCredential

\* A panel that is DISABLED counts as one that expired at 0.
Panel == [expires : {0} \cup Expiry, capable : BOOLEAN]
Account == [subscribed : BOOLEAN, expires : Expiry, credential : Credential]
Link == [credential : Credential, expires : Expiry]
Subscription == [enabled : BOOLEAN, expires : Expiry]

Edit == {"create", "patch", "patchOn", "patchOff", "extend", "rotateCredential", "delete", "deleteExpired"}
Switch == {"subscribe", "unsubscribe"}
Kind == Edit \cup Switch \cup {"rotateToken", "consume", "deleteClient"}

\* assertCapability, of the subscriptions.
AssertCapability == panel.capable

Expired(e) == e # None /\ e <= now
PanelActive == ~Expired(panel.expires)

\* Mutant: switching a subscription off clears the flag of the user first.
PlanOffFirst(kind) ==
  IF kind \in {"create", "patch", "rotateCredential"} THEN <<"user">>
  ELSE IF kind \in Edit \cup {"deleteClient"} THEN <<"user", "sub">>
  ELSE IF kind = "subscribe" THEN <<"sub", "user", "tenant">>
  ELSE IF kind = "unsubscribe" THEN <<"user", "sub", "tenant">>
  ELSE IF kind = "rotateToken" THEN <<"sub", "tenant">>
  ELSE <<"sub">>

\* The locks a request takes, in the order of its statements.  "user" is the
\* row of vpn_users with its client.  What is written to the subscription
\* without an edit ends with a row of audit_logs, whose foreign key takes the
\* key of the tenant: it waits for an edit, which locked that row for update.
Plan(kind) ==
  IF kind \in {"create", "patch", "rotateCredential"} THEN <<"user">>
  ELSE IF kind \in Edit \cup {"deleteClient"} THEN <<"user", "sub">>
  ELSE IF kind \in Switch THEN <<"sub", "user", "tenant">>
  ELSE IF kind = "rotateToken" THEN <<"sub", "tenant">>
  ELSE <<"sub">>

\* stage: what it does next, "read" or the lock it asks for.
Stage(r) == IF tx[r].fresh THEN "read" ELSE Head(tx[r].todo)
At(r, kinds, stage) == r \in DOMAIN tx /\ tx[r].kind \in kinds /\ Stage(r) = stage
End(r) == tx' = [q \in DOMAIN tx \ {r} |-> tx[q]]
Go(r, t) == tx' = [tx EXCEPT ![r] = t]
Data == <<users, links, subs>>
Around == <<now, panel>>

-----------------------------------------------------------------------------
(* A request *)

\* The settings of the sub-panel are read before anything is waited for.
Begin(r, kind, u) ==
  /\ r \notin DOMAIN tx
  /\ kind \in {"subscribe", "rotateToken", "patchOn"} => AssertCapability
  /\ tx' = [q \in DOMAIN tx \cup {r} |->
       IF q = r THEN [kind |-> kind, user |-> u, fresh |-> TRUE, todo |-> Plan(kind), held |-> {},
                      capable |-> kind = "create" /\ panel.capable, expires |-> None]
       ELSE tx[q]]
  /\ UNCHANGED <<Around, Data>>

Holds(q, row, u) == q \in DOMAIN tx /\ row \in tx[q].held /\ tx[q].user = u

\* Mutant: the tenant is read without FOR UPDATE.
TenantFreeAlways == TRUE

\* An edit has the lock of the tenant from its read on.
TenantFree == \A q \in DOMAIN tx : tx[q].kind \in Edit => tx[q].fresh

\* The keys of the tenant are shared, and taken with the commit.
Free(r, row) ==
  IF row = "tenant" THEN TenantFree ELSE \A q \in Request \ {r} : ~Holds(q, row, tx[r].user)

Exists(row, u) == IF row = "user" THEN u \in DOMAIN users ELSE u \in DOMAIN subs

SubscriptionFirst == Switch \cup {"rotateToken"}

\* A lock that is not the last one; a row that does not exist is not locked,
\* and the requests that begin with the subscription are refused without it.
Acquire(r) ==
  /\ r \in DOMAIN tx /\ ~tx[r].fresh /\ Len(tx[r].todo) > 1
  /\ LET row == Stage(r) IN
     /\ Free(r, row)
     /\ tx[r].kind \in SubscriptionFirst /\ row = "sub" => Exists(row, tx[r].user)
     /\ Go(r, [tx[r] EXCEPT !.todo = Tail(@),
                            !.held = IF Exists(row, tx[r].user) THEN @ \cup {row} ELSE @])
  /\ UNCHANGED <<Around, Data>>

\* The last lock, and with it the commit.
Commits(r, kinds) ==
  /\ r \in DOMAIN tx /\ tx[r].kind \in kinds /\ ~tx[r].fresh /\ Len(tx[r].todo) = 1
  /\ Free(r, Stage(r))
  /\ End(r) /\ UNCHANGED Around

\* resolveExpiration
Resolved(e) == e # None => e > now /\ (panel.expires # None => e <= panel.expires)

\* The expirations a request may ask for, the target being found.
Requested(kind, e) ==
  IF kind \in {"create", "patch"} THEN {d \in Expiry : Resolved(d)}
  ELSE IF kind \in {"patchOn", "patchOff"} THEN {e} \cup {d \in Expiry : Resolved(d)}
  ELSE IF kind = "extend" THEN
    {d \in Expiry \ {None} : Resolved(d) /\ d > (IF e # None /\ e > now THEN e ELSE now)}
  ELSE IF kind = "deleteExpired" THEN {d \in {e} : Expired(d)}
  ELSE {e}

\* quota, assertTenantActive, target and resolveExpiration; the requests that
\* switch or rotate a subscription, or delete a client, look for it alone.
ReadTarget(r) ==
  /\ At(r, Kind \ {"consume"}, "read")
  /\ tx[r].kind \in Edit => TenantFree
  /\ LET t == tx[r]
         found == t.kind = "create" \/ t.user \in DOMAIN users
         choices == IF ~found \/ (t.kind \in Edit /\ ~PanelActive) THEN {}
                    ELSE Requested(t.kind, IF t.kind = "create" THEN None ELSE users[t.user].expires)
     IN IF choices = {} THEN End(r)
        ELSE \E e \in choices : Go(r, [t EXCEPT !.fresh = FALSE, !.expires = e])
  /\ UNCHANGED <<Around, Data>>

\* The join of consumeSubscription.
Delivered(u) ==
  /\ u \in DOMAIN subs /\ subs[u].enabled /\ links[u] # {}
  /\ PanelActive /\ ~Expired(subs[u].expires) /\ ~Expired(users[u].expires)

Lookup(r) ==
  /\ At(r, {"consume"}, "read")
  /\ Delivered(tx[r].user)
  /\ Go(r, [tx[r] EXCEPT !.fresh = FALSE])
  /\ UNCHANGED <<Around, Data>>

LookupRefused(r) ==
  /\ At(r, {"consume"}, "read")
  /\ ~Delivered(tx[r].user)
  /\ End(r)
  /\ UNCHANGED <<Around, Data>>

-----------------------------------------------------------------------------
(* What the requests write *)

Put(f, u, row) == [v \in DOMAIN f \cup {u} |-> IF v = u THEN row ELSE f[v]]
Drop(f, u) == [v \in DOMAIN f \ {u} |-> f[v]]

\* A new link in place of the one there is.
ReplaceConfig(u, c, e) == links' = Put(links, u, {[credential |-> c, expires |-> e]})

CreateUser(r) ==
  /\ Commits(r, {"create"})
  /\ LET u == tx[r].user  e == tx[r].expires IN
     \E c \in PortalCredential, on \in {FALSE, tx[r].capable} :
       /\ users' = Put(users, u, [subscribed |-> on, expires |-> e, credential |-> c])
       /\ ReplaceConfig(u, c, e)
       /\ subs' = IF on THEN Put(subs, u, [enabled |-> TRUE, expires |-> e]) ELSE subs

Expire(u, e) ==
  /\ users' = [users EXCEPT ![u].expires = e]
  /\ links' = [links EXCEPT ![u] = {[l EXCEPT !.expires = e] : l \in @}]

\* updateUser with an expiration: the subscription keeps the one it has.
PatchUser(r) ==
  /\ Commits(r, {"patch"}) /\ tx[r].user \in DOMAIN users
  /\ Expire(tx[r].user, tx[r].expires) /\ subs' = subs

\* updateUser with subscriptionEnabled.
PatchSubscription(r) ==
  /\ Commits(r, {"patchOn", "patchOff"}) /\ tx[r].user \in DOMAIN users
  /\ LET u == tx[r].user  e == tx[r].expires  on == tx[r].kind = "patchOn" IN
     /\ users' = [users EXCEPT ![u].expires = e, ![u].subscribed = on]
     /\ links' = [links EXCEPT ![u] = {[l EXCEPT !.expires = e] : l \in @}]
     /\ subs' = IF on \/ u \in DOMAIN subs THEN Put(subs, u, [enabled |-> on, expires |-> e]) ELSE subs

Extend(r) ==
  /\ Commits(r, {"extend"}) /\ tx[r].user \in DOMAIN users
  /\ LET u == tx[r].user  e == tx[r].expires IN
     /\ Expire(u, e)
     /\ subs' = IF u \in DOMAIN subs THEN [subs EXCEPT ![u].expires = e] ELSE subs

\* Mutant: the old config is not revoked.
RotateCredentialKeep(r) ==
  /\ Commits(r, {"rotateCredential"}) /\ tx[r].user \in DOMAIN users
  /\ LET u == tx[r].user IN
     \E c \in PortalCredential \ {users[u].credential} :
       /\ users' = [users EXCEPT ![u].credential = c]
       /\ links' = [links EXCEPT ![u] = @ \cup {[credential |-> c, expires |-> tx[r].expires]}]
  /\ subs' = subs

\* replaceConfig, with the expiration that target read.
RotateCredential(r) ==
  /\ Commits(r, {"rotateCredential"}) /\ tx[r].user \in DOMAIN users
  /\ LET u == tx[r].user IN
     \E c \in PortalCredential \ {users[u].credential} :
       /\ users' = [users EXCEPT ![u].credential = c]
       /\ ReplaceConfig(u, c, tx[r].expires)
  /\ subs' = subs

\* Mutant: the subscription does not go with its user.
RemoveUser(u) == users' = Drop(users, u) /\ links' = Drop(links, u) /\ subs' = subs

\* Client, link and subscription go with the user.
Remove(u) == users' = Drop(users, u) /\ links' = Drop(links, u) /\ subs' = Drop(subs, u)

DeleteUser(r) ==
  /\ Commits(r, {"delete"})
  /\ Remove(tx[r].user)

\* The bulk action: those that were expired when they were read.
DeleteExpired(r) ==
  /\ Commits(r, {"deleteExpired"})
  /\ Remove(tx[r].user)

\* Mutant: the flag of the user is left as it is.
SetSubscriptionOnly(r) ==
  /\ Commits(r, Switch) /\ tx[r].user \in DOMAIN subs
  /\ subs' = [subs EXCEPT ![tx[r].user].enabled = tx[r].kind = "subscribe"]
  /\ UNCHANGED <<users, links>>

SetSubscriptionEnabled(r) ==
  /\ Commits(r, Switch) /\ tx[r].user \in DOMAIN subs
  /\ LET u == tx[r].user  on == tx[r].kind = "subscribe" IN
     /\ subs' = [subs EXCEPT ![u].enabled = on]
     /\ users' = [users EXCEPT ![u].subscribed = on]
  /\ links' = links

\* A new token; the subscription is enabled with it.
RotateSubscription(r) ==
  /\ Commits(r, {"rotateToken"}) /\ tx[r].user \in DOMAIN subs
  /\ subs' = [subs EXCEPT ![tx[r].user].enabled = TRUE]
  /\ UNCHANGED <<users, links>>

\* last_access_at, and the answer.
Answer(r) == Commits(r, {"consume"}) /\ UNCHANGED Data

\* deleteClient and deleteExpired of the inbounds.
DeleteClient(r) ==
  /\ Commits(r, {"deleteClient"})
  /\ Remove(tx[r].user)

\* The row was deleted meanwhile: an update of no row, or of one that no page
\* shows any more, or an error of its foreign key.
TargetGone(r) ==
  /\ \/ Commits(r, Edit \ {"create", "delete", "deleteExpired"}) /\ tx[r].user \notin DOMAIN users
     \/ Commits(r, SubscriptionFirst) /\ tx[r].user \notin DOMAIN subs
  /\ UNCHANGED Data

\* There is no subscription to switch or to rotate.
NoSubscription(r) ==
  /\ At(r, SubscriptionFirst, "sub") /\ tx[r].user \notin DOMAIN subs
  /\ Free(r, "sub")
  /\ End(r)
  /\ UNCHANGED <<Around, Data>>

-----------------------------------------------------------------------------
(* Waiting *)

HasTenant(q) == q \in DOMAIN tx /\ tx[q].kind \in Edit /\ ~tx[q].fresh

\* For a row, or for the tenant: to read it for update, or for its key.
Waits(r, q) ==
  /\ r \in DOMAIN tx /\ r # q
  /\ \/ ~tx[r].fresh /\ Holds(q, Stage(r), tx[r].user)
     \/ At(r, Edit, "read") /\ HasTenant(q)
     \/ At(r, SubscriptionFirst, "tenant") /\ HasTenant(q)

Stuck(S) == \A r \in S : \E q \in S : Waits(r, q)

\* A check or a statement fails, PostgreSQL breaks a circle, the API dies.
Fail(r) ==
  /\ r \in DOMAIN tx
  /\ End(r)
  /\ UNCHANGED <<Around, Data>>

-----------------------------------------------------------------------------
(* Outside the portal *)

\* updateMaster and updateTenant lock the tenant.
UpdateMaster ==
  /\ TenantFree
  /\ panel' \in Panel
  /\ UNCHANGED <<now, Data, tx>>

\* Only a switch takes the row of a user without its client.
ClientFree(u) == \A q \in Request : Holds(q, "user", u) => tx[q].kind \in Switch

\* rotateClient of the inbounds: one statement, which leaves the link alone.
RotateClient(u) ==
  /\ u \in DOMAIN users /\ ClientFree(u)
  /\ \E c \in OwnerCredential : users' = [users EXCEPT ![u].credential = c]
  /\ UNCHANGED <<Around, links, subs, tx>>

\* The inbound is deleted, and with it the client, the link and the
\* assignment.  The rows of vpn_users and subscriptions stay, and every page,
\* target and delivery joins what is gone: nothing shows them any more.
DeleteInbound(u) ==
  /\ u \in DOMAIN users /\ ClientFree(u)
  /\ Remove(u)
  /\ UNCHANGED <<Around, tx>>

Tick ==
  /\ now < MaxTime
  /\ now' = now + 1
  /\ UNCHANGED <<panel, Data, tx>>

-----------------------------------------------------------------------------
Init ==
  /\ now = 0
  /\ panel \in Panel
  /\ users = [u \in {} |-> {}] /\ links = [u \in {} |-> {}] /\ subs = [u \in {} |-> {}]
  /\ tx = [r \in {} |-> {}]

\* A new user has a new id.
Arrive(r) ==
  \E kind \in Kind, u \in User :
    /\ IF kind = "create" THEN u \notin DOMAIN users /\ \A q \in DOMAIN tx : tx[q].user # u
       ELSE u \in DOMAIN users
    /\ Begin(r, kind, u)

Work(r) ==
  \/ ReadTarget(r) \/ Lookup(r) \/ LookupRefused(r)
  \/ CreateUser(r) \/ PatchUser(r) \/ PatchSubscription(r) \/ Extend(r) \/ RotateCredential(r)
  \/ DeleteUser(r) \/ DeleteExpired(r) \/ SetSubscriptionEnabled(r) \/ RotateSubscription(r)
  \/ Answer(r) \/ DeleteClient(r) \/ TargetGone(r) \/ NoSubscription(r)

Outside ==
  \/ UpdateMaster \/ Tick
  \/ \E u \in User : RotateClient(u) \/ DeleteInbound(u)

Next ==
  \/ \E r \in Request : Arrive(r) \/ Acquire(r) \/ Work(r) \/ Fail(r)
  \/ Outside

Spec == Init /\ [][Next]_vars

-----------------------------------------------------------------------------
(* What the portal shows, as of one moment *)

\* What the list of the users says of a subscription.
ShownOn(u) == users[u].subscribed /\ u \in DOMAIN subs /\ subs[u].enabled

UserSummary(u) ==
  [expired |-> Expired(users[u].expires), subscriptionEnabled |-> ShownOn(u),
   configAvailable |-> links[u] # {}, subscriptionAvailable |-> u \in DOMAIN subs]

\* The URL of a subscription, which needs the capability.
UrlGiven(u) == AssertCapability /\ u \in DOMAIN subs /\ subs[u].enabled

\* configUri: the link that is copied, or nothing.
ConfigUri(u) == links[u]

\* The list of the subscriptions, refused without the capability.
SubscriptionList == IF AssertCapability THEN subs ELSE [u \in {} |-> {}]

\* The lines of an export, by the user; one who has none is skipped.
Export(kind) ==
  {u \in DOMAIN users : IF kind = "configs" THEN ConfigUri(u) # {} ELSE UrlGiven(u)}

-----------------------------------------------------------------------------
(* Properties *)

Row == {"user", "sub"}
Lock == Row \cup {"tenant"}
Request_ == [kind : Kind, user : User, fresh : BOOLEAN,
             todo : Seq(Lock), held : SUBSET Row, capable : BOOLEAN, expires : Expiry]

\* Types of the tables and of the requests.
TypeOK ==
  /\ now \in 0..MaxTime /\ panel \in Panel
  /\ DOMAIN users \subseteq User /\ users \in [DOMAIN users -> Account]
  /\ DOMAIN links = DOMAIN users /\ links \in [DOMAIN users -> SUBSET Link]
  /\ DOMAIN subs \subseteq DOMAIN users /\ subs \in [DOMAIN subs -> Subscription]
  /\ DOMAIN tx \subseteq Request /\ tx \in [DOMAIN tx -> Request_]

\* Every user has one link, with the expiration of the user, and the link
\* opens the client unless the owner rotated the client from the pages of the
\* inbounds: extensions, rotations and edits that overlap do not leave a link
\* of an earlier state.
LinkMatches ==
  \A u \in DOMAIN users :
    \E l \in Link :
      /\ links[u] = {l} /\ l.expires = users[u].expires
      /\ l.credential = users[u].credential \/ users[u].credential \in OwnerCredential

\* A subscription that was switched off is off wherever it is shown: the flag
\* of the user is set only while the subscription is there and enabled.
OffIsShownOff == \A u \in DOMAIN users : users[u].subscribed => ShownOn(u)

\* The pages of the portal agree.  Every user has one config to copy and to
\* export, which ends when the list of the users says; a user whose flag is set
\* is listed with an enabled subscription, in both lists and in the export of
\* the subscriptions; no subscription of a user that is gone is listed; and who
\* is delivered a config is not shown as expired.
PagesAgree ==
  /\ DOMAIN SubscriptionList \subseteq DOMAIN users
  /\ \A u \in DOMAIN users : LET shown == UserSummary(u) IN
       /\ u \in Export("configs") /\ Cardinality(ConfigUri(u)) = 1
       /\ \A l \in ConfigUri(u) : Expired(l.expires) <=> shown.expired
       /\ users[u].subscribed => shown.subscriptionAvailable /\ shown.subscriptionEnabled
       /\ panel.capable /\ users[u].subscribed
            => SubscriptionList[u].enabled /\ u \in Export("subscriptions")
       /\ Delivered(u) => ~shown.expired

\* Extensions add up: what a request has read of the expiration is still so
\* when it commits, however many requests extend the user at the same time.
ExtensionsAddUp ==
  [][\A r \in Request :
       Extend(r) /\ users[tx[r].user].expires # None
         => users'[tx[r].user].expires > users[tx[r].user].expires]_vars

\* The bulk deletion of the expired users spares one that was extended while
\* it waited: who is deleted is expired at that moment.
OnlyExpiredDeleted ==
  [][\A r \in Request :
       DeleteExpired(r) /\ tx[r].user \in DOMAIN users => Expired(users[tx[r].user].expires)]_vars

\* Requests that wait for each other in a circle are of both orders: one that
\* takes the user before the subscription (an edit, or the owner's deletion of a
\* client), and one that takes the subscription first and comes to the user or
\* the tenant later.  Edits alone never deadlock, nor do switches and rotations.
DeadlocksMixOrders ==
  \A S \in (SUBSET DOMAIN tx) \ {{}} : Stuck(S) =>
    /\ \E r \in S : tx[r].kind \in Edit \cup {"deleteClient"}
    /\ \E r \in S : tx[r].kind \in SubscriptionFirst
=============================================================================
