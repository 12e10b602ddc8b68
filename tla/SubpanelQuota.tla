----------------------------- MODULE SubpanelQuota -----------------------------
(***************************************************************************)
(* The users of one sub-panel and the limits the owner gave it             *)
(* (KyselySubpanelRepository): portal transactions that lock the tenant,   *)
(* sum up what is in use and write, edits by the owner, and deletions from *)
(* the pages of the inbounds, which take no tenant lock.                   *)
(*                                                                         *)
(* A process is a transaction of PostgreSQL at READ COMMITTED; each query  *)
(* that it awaits is a step, and its writes are shown at the commit.  What *)
(* it was asked for (limits, users to expire) is chosen at the write, among *)
(* the values that pass the checks; a request that does not pass is rolled *)
(* back.  Operations that leave users, limits and assignments alone        *)
(* (enable, extend, rotate, reset of counters) are left out, and so are    *)
(* servers, subscriptions and the apply of the inbound afterwards.  The    *)
(* clients that the pages of the inbounds create belong to the tenant of   *)
(* the server, which is taken to be the owner's, not a sub-panel.          *)
(***************************************************************************)
EXTENDS TrafficCredit

CONSTANTS
  Inbound, Protocol, ProtocolOf,  \* inbounds, each with its protocol
  MaxUsers,                       \* largest user limit an integer column holds
  Request                         \* bound: transactions at one time

ASSUME QuotaAssumption ==
  MaxUsers \in Nat /\ ProtocolOf \in [Inbound -> Protocol] /\ None \notin Inbound

VARIABLES
  tenant,    \* the row of tenants
  allowed,   \* subpanel_settings.allowed_protocols
  inbounds,  \* the inbounds that exist
  assigned,  \* subpanel_inbound_assignments of the tenant
  users,     \* vpn_users of the tenant: id -> inbound of its client, limit
  tx         \* the transactions in progress

vars == <<tenant, allowed, inbounds, assigned, users, tx>>

-----------------------------------------------------------------------------
\* expired: expires_at has passed; DISABLED is the status EXPIRED too.
Tenant == [status : {"ACTIVE", "DISABLED"}, expired : BOOLEAN,
           userLimit : 0..MaxUsers \cup {None}, credit : Limit]

\* No inbound: it was deleted, and the client with it.
Row == [inbound : Inbound \cup {None}, limit : Limit]

Single == {"update", "increase", "delete"}
Bulk == {"bulkIncrease", "bulkDelete"}
Kind == {"create", "edit"} \cup Single \cup Bulk

\* user and inbound are those of the request, seen the protocols read at its
\* start, limit the one its target had, count and allocated the totals.
Transaction == [kind : Kind, stage : {"lock", "target", "totals", "write"},
                user : User \cup {None}, inbound : Inbound \cup {None},
                seen : SUBSET Protocol, limit : Limit,
                count : Nat, allocated : Nat]

LimitsOf(table) == [u \in DOMAIN table |-> table[u].limit]
Active == tenant.status = "ACTIVE" /\ ~tenant.expired

\* The users that the portal sees: their client is on an assigned inbound.
Visible == {u \in DOMAIN users : users[u].inbound \in assigned}

At(r, kinds, stage) == r \in DOMAIN tx /\ tx[r].kind \in kinds /\ tx[r].stage = stage
End(r) == tx' = [q \in DOMAIN tx \ {r} |-> tx[q]]

-----------------------------------------------------------------------------
(* The checks of policy.ts, on the totals a transaction read *)

PlaceLeft(t) == tenant.userLimit # None => t.count < tenant.userLimit

CreditAllows(traffic) == tenant.credit # None => traffic # None /\ traffic <= tenant.credit

AssertCreateQuota(t, requested) ==
  /\ PlaceLeft(t)
  /\ CreditAllows(IF requested = None THEN None ELSE t.allocated + requested)

\* The sum after the limit of one user changes, or None.
Reallocated(t, requested) ==
  IF requested = None THEN None ELSE t.allocated - Num(t.limit) + requested

-----------------------------------------------------------------------------
(* Steps of a transaction *)

\* The settings are read first, then the row of the tenant is waited for.
Begin(r, kind, user, inbound) ==
  /\ r \notin DOMAIN tx
  /\ tx' = [q \in DOMAIN tx \cup {r} |->
       IF q = r THEN [kind |-> kind, stage |-> "lock", user |-> user, inbound |-> inbound,
                      seen |-> allowed, limit |-> None, count |-> 0, allocated |-> 0]
       ELSE tx[q]]
  /\ UNCHANGED <<tenant, allowed, inbounds, assigned, users>>

Arrive(r) ==
  \/ \E i \in inbounds : Begin(r, "create", None, i)
  \/ \E kind \in Single, u \in DOMAIN users : Begin(r, kind, u, None)
  \/ \E kind \in Bulk \cup {"edit"} : Begin(r, kind, None, None)

Unlocked == \A q \in DOMAIN tx : tx[q].stage = "lock"

Lock(r) ==
  /\ At(r, Kind, "lock") /\ Unlocked
  /\ tx' = [tx EXCEPT ![r].stage =
              IF tx[r].kind \in Single \cup {"create"} THEN "target" ELSE "totals"]
  /\ UNCHANGED <<tenant, allowed, inbounds, assigned, users>>

\* assignedInbound, with the check of its protocol; that the inbound is
\* enabled, and the capabilities, are left to RollBack.
FindInbound(r) ==
  /\ At(r, {"create"}, "target")
  /\ tx[r].inbound \in assigned /\ ProtocolOf[tx[r].inbound] \in tx[r].seen
  /\ tx' = [tx EXCEPT ![r].stage = "totals"]
  /\ UNCHANGED <<tenant, allowed, inbounds, assigned, users>>

\* target
FindUser(r) ==
  /\ At(r, Single, "target")
  /\ tx[r].user \in Visible
  /\ tx' = [tx EXCEPT ![r].stage = "totals", ![r].limit = users[tx[r].user].limit]
  /\ UNCHANGED <<tenant, allowed, inbounds, assigned, users>>

\* quota, with assertTenantActive for the requests of the portal.
ReadTotals(r) ==
  /\ At(r, Kind, "totals")
  /\ tx[r].kind # "edit" => Active
  /\ tx' = [tx EXCEPT ![r].stage = "write",
                      ![r].count = Cardinality(DOMAIN users),
                      ![r].allocated = Allocated(LimitsOf(users))]
  /\ UNCHANGED <<tenant, allowed, inbounds, assigned, users>>

\* The insert of the client fails when the inbound is gone.
CreateUser(r) ==
  /\ At(r, {"create"}, "write") /\ tx[r].inbound \in inbounds
  /\ \E limit \in Limit, u \in User \ DOMAIN users :
       /\ \A q \in DOMAIN tx : tx[q].user # u  \* ids are random uuids
       /\ AssertCreateQuota(tx[r], limit)
       /\ users' = [v \in DOMAIN users \cup {u} |->
            IF v = u THEN [inbound |-> tx[r].inbound, limit |-> limit] ELSE users[v]]
  /\ End(r)
  /\ UNCHANGED <<tenant, allowed, inbounds, assigned>>

SetLimits(who, limit) ==
  users' = [u \in DOMAIN users |->
              IF u \in who THEN [users[u] EXCEPT !.limit = limit] ELSE users[u]]

\* updateUser with a traffic limit; nothing is written when the row is gone.
UpdateUser(r) ==
  /\ At(r, {"update"}, "write")
  /\ \E limit \in Limit :
       CreditAllows(Reallocated(tx[r], limit)) /\ SetLimits({tx[r].user}, limit)
  /\ End(r)
  /\ UNCHANGED <<tenant, allowed, inbounds, assigned>>

\* INCREASE_TRAFFIC; a limit beyond the column is an error of the database.
IncreaseTraffic(r) ==
  /\ At(r, {"increase"}, "write")
  /\ \E bytes \in Traffic \ {0} :
       /\ CreditAllows(tx[r].allocated + bytes)
       /\ Num(tx[r].limit) + bytes \in Traffic
       /\ SetLimits({tx[r].user}, Num(tx[r].limit) + bytes)
  /\ End(r)
  /\ UNCHANGED <<tenant, allowed, inbounds, assigned>>

\* Mutant: the bulk check counts the bytes once.
BulkIncreaseOnce(r) ==
  /\ At(r, {"bulkIncrease"}, "write")
  /\ \E who \in (SUBSET Visible) \ {{}}, bytes \in Traffic \ {0} :
       /\ CreditAllows(tx[r].allocated + bytes)
       /\ \A u \in who : Num(users[u].limit) + bytes \in Traffic
       /\ users' = [u \in DOMAIN users |->
            IF u \in who THEN [users[u] EXCEPT !.limit = Num(@) + bytes] ELSE users[u]]
  /\ End(r)
  /\ UNCHANGED <<tenant, allowed, inbounds, assigned>>

\* bulkAction reads the users after the totals.
BulkIncrease(r) ==
  /\ At(r, {"bulkIncrease"}, "write")
  /\ \E who \in (SUBSET Visible) \ {{}}, bytes \in Traffic \ {0} :
       /\ CreditAllows(tx[r].allocated + Cardinality(who) * bytes)
       /\ \A u \in who : Num(users[u].limit) + bytes \in Traffic
       /\ users' = [u \in DOMAIN users |->
            IF u \in who THEN [users[u] EXCEPT !.limit = Num(@) + bytes] ELSE users[u]]
  /\ End(r)
  /\ UNCHANGED <<tenant, allowed, inbounds, assigned>>

Without(who) == users' = [u \in DOMAIN users \ who |-> users[u]]

\* DELETE, and DELETE_EXPIRED of the users that are expired.
DeleteUsers(r) ==
  /\ \/ At(r, {"delete"}, "write") /\ Without({tx[r].user})
     \/ At(r, {"bulkDelete"}, "write") /\ \E who \in SUBSET Visible : Without(who)
  /\ End(r)
  /\ UNCHANGED <<tenant, allowed, inbounds, assigned>>

\* A limit of the owner that is removed, kept, or not below what is in use.
Covers(limit, old, used) == limit \notin {None, old} => used <= limit

\* validateAssignments: inbounds that exist when the owner assigns them.
Assignable == SUBSET inbounds

\* Mutant: the credit is not compared with what is allocated.
EditUnchecked(r) ==
  /\ At(r, {"edit"}, "write")
  /\ \E row \in Tenant :
       /\ Covers(row.userLimit, tenant.userLimit, tx[r].count)
       /\ tenant' = row
  /\ allowed' \in SUBSET Protocol /\ assigned' \in Assignable
  /\ End(r)
  /\ UNCHANGED <<inbounds, users>>

\* updateMaster: any of the fields, a limit not below the totals.
UpdateMaster(r) ==
  /\ At(r, {"edit"}, "write")
  /\ \E row \in Tenant :
       /\ Covers(row.userLimit, tenant.userLimit, tx[r].count)
       /\ Covers(row.credit, tenant.credit, tx[r].allocated)
       /\ tenant' = row
  /\ allowed' \in SUBSET Protocol /\ assigned' \in Assignable
  /\ End(r)
  /\ UNCHANGED <<inbounds, users>>

\* A check refuses, a statement fails, the API dies.
RollBack(r) ==
  /\ r \in DOMAIN tx
  /\ End(r)
  /\ UNCHANGED <<tenant, allowed, inbounds, assigned, users>>

-----------------------------------------------------------------------------
(* Outside the sub-panel *)

\* updateTenant of the security repository, one UPDATE of the row.
UpdateTenant ==
  /\ Unlocked
  /\ \E status \in {"ACTIVE", "DISABLED"} : tenant' = [tenant EXCEPT !.status = status]
  /\ UNCHANGED <<allowed, inbounds, assigned, users, tx>>

TenantExpires ==
  /\ tenant' = [tenant EXCEPT !.expired = TRUE]
  /\ UNCHANGED <<allowed, inbounds, assigned, users, tx>>

\* The clients and the assignments go with the inbound, the users stay.
DeleteInbound(i) ==
  /\ i \in inbounds
  /\ inbounds' = inbounds \ {i} /\ assigned' = assigned \ {i}
  /\ users' = [u \in DOMAIN users |->
       IF users[u].inbound = i THEN [users[u] EXCEPT !.inbound = None] ELSE users[u]]
  /\ UNCHANGED <<tenant, allowed, tx>>

\* deleteClient and deleteExpired of the inbounds delete the users.
DeleteClients ==
  /\ \E who \in SUBSET {u \in DOMAIN users : users[u].inbound # None} : Without(who)
  /\ UNCHANGED <<tenant, allowed, inbounds, assigned, tx>>

-----------------------------------------------------------------------------
\* createMaster
Init ==
  /\ tenant \in {row \in Tenant : row.status = "ACTIVE" /\ ~row.expired}
  /\ allowed \in SUBSET Protocol /\ inbounds = Inbound /\ assigned \in SUBSET Inbound
  /\ users = [u \in {} |-> [inbound |-> None, limit |-> None]]
  /\ tx = [r \in {} |-> {}]

Next ==
  \/ \E r \in Request :
       \/ Arrive(r) \/ Lock(r) \/ FindInbound(r) \/ FindUser(r) \/ ReadTotals(r)
       \/ CreateUser(r) \/ UpdateUser(r) \/ IncreaseTraffic(r) \/ BulkIncrease(r)
       \/ DeleteUsers(r) \/ UpdateMaster(r) \/ RollBack(r)
  \/ UpdateTenant \/ TenantExpires \/ DeleteClients
  \/ \E i \in Inbound : DeleteInbound(i)

Spec == Init /\ [][Next]_vars

-----------------------------------------------------------------------------
(* What the pages show, as of one moment *)

\* A limit less what is used of it, never below 0.
Remaining(limit, used) == IF limit = None THEN None ELSE IF used < limit THEN limit - used ELSE 0

QuotaSnapshot ==
  [remainingUsers |-> Remaining(tenant.userLimit, Cardinality(DOMAIN users)),
   remainingAllocatableTraffic |-> Remaining(tenant.credit, Allocated(LimitsOf(users))),
   status |-> IF tenant.expired THEN "EXPIRED" ELSE tenant.status]

\* The inbounds of the sub-panel, with their userCount.
AssignedInbounds == [i \in assigned |-> Cardinality({u \in DOMAIN users : users[u].inbound = i})]

UsersPage == [quota |-> QuotaSnapshot, assignedInbounds |-> AssignedInbounds, users |-> Visible]

\* The sub-panel in the list of the owner.
MasterSummary ==
  [userLimit |-> tenant.userLimit, trafficCredit |-> tenant.credit, allowedProtocols |-> allowed,
   assignedInboundIds |-> assigned, createdUsers |-> Cardinality(DOMAIN users),
   allocatedTraffic |-> Allocated(LimitsOf(users))]

-----------------------------------------------------------------------------
(* Properties *)

\* Types of the tables and of the transactions.
TypeOK ==
  /\ tenant \in Tenant
  /\ allowed \in SUBSET Protocol
  /\ inbounds \in SUBSET Inbound /\ assigned \in SUBSET inbounds
  /\ DOMAIN users \subseteq User /\ users \in [DOMAIN users -> Row]
  /\ DOMAIN tx \subseteq Request /\ tx \in [DOMAIN tx -> Transaction]

\* However requests, edits and deletions interleave, the sub-panel has at most
\* as many users as the owner allows.
WithinUserLimit ==
  tenant.userLimit # None => Cardinality(DOMAIN users) <= tenant.userLimit

\* And the traffic limits of its users add up to the credit at most.
WithinCredit == tenant.credit # None => Allocated(LimitsOf(users)) <= tenant.credit

\* A user is created on an inbound that is assigned at that very time, unless
\* the inbound is deleted (the insert then fails).
CreatedOnAssigned ==
  \A r \in DOMAIN tx :
    At(r, {"create"}, "write") /\ tx[r].inbound \in inbounds => tx[r].inbound \in assigned

\* What the reseller is told to have left and what the owner is told to be in
\* use add up to the limit: cutting off at 0 never hides an overdraft.  The
\* portal lists as many users as its inbounds count, and calls itself ACTIVE
\* exactly when a request of it is served.
PagesAddUp ==
  LET page == UsersPage  summary == MasterSummary IN
  /\ summary.userLimit # None
       => page.quota.remainingUsers + summary.createdUsers = summary.userLimit
  /\ summary.trafficCredit # None
       => page.quota.remainingAllocatableTraffic + summary.allocatedTraffic = summary.trafficCredit
  /\ \A i \in Inbound :
       i \in DOMAIN page.assignedInbounds /\ page.assignedInbounds[i] > 0
         <=> \E u \in page.users : users[u].inbound = i
  /\ Cardinality(page.users) <= summary.createdUsers
  /\ page.quota.status = "ACTIVE" <=> Active

\* Users and traffic are granted only while the owner has not suspended the
\* panel, no user becomes unlimited under a credit, and a limit is never set
\* below what is in use.
Ledger == INSTANCE QuotaLedger WITH
  userLimit <- tenant.userLimit, credit <- tenant.credit,
  suspended <- tenant.status # "ACTIVE", granted <- LimitsOf(users)
ImplementsLedger == Ledger!Spec
=============================================================================
