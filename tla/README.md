# NR-PANEL: formal model

TLA+ models of NR-PANEL, the control panel for Xray servers in this repository
(Fastify API on PostgreSQL, Next.js panel, node agent, installers), with the TLC
runs that check them and the proofs that TLAPS checks. Paths below are relative
to `src/` unless they name a module.

    tlc -workers 2 -config SafeApply.cfg MCSafeApply.tla
    tlc -workers 2 -config Enrollment.cfg MCServerEnrollment.tla
    tlc -workers 2 -config Sessions.cfg MCSessions.tla
    tlapm SafeApplyProofs.tla

## 1. The system

The API is one Node process; a request runs until its next `await`, so two
requests interleave at every awaited call and nowhere else. PostgreSQL runs at
its default isolation (READ COMMITTED): statements outside a transaction are
atomic one by one, `FOR UPDATE` serialises the transactions that lock one row.
Nothing else (no queue, no mutex, no worker) orders requests. Outside the API
run the agents of the nodes, the shell scripts of the installers, which lock
nothing, and the tabs of browsers.

| Component | State it keeps | Operations | Meets the others through |
|---|---|---|---|
| Inbounds pipeline, `apps/api/src/domain/inbounds` | `inbounds` (desired and applied revision, status), `inbound_clients`, `inbound_apply_revisions`, backups | create, duplicate, update, enable, delete, client create/rotate/delete, delete expired; each followed by `apply` | calls `XrayRuntime`; reads the Xray policy of the settings; called by the sub-panels after a client change |
| Xray runtime, `runtime.ts` (interface) | the document an instance runs | read, validate, hot user/inbound calls, restart, restore, health | called by `apply` only |
| Traffic counters, same directory | `traffic_used`, up/down per client | reset per inbound, per client, all | runtime counters first, rows afterwards |
| Sub-panels, `domain/subpanel` | tenants with user and traffic credit, users | user create/update/bulk action, master edit of a tenant | tenant row lock; then `applyAssignedClientChange` of the inbounds |
| Subscriptions and links, same directory | configs, subscriptions, expirations | extension, rotation, switching, consumption | the rows of the users; the clients of the inbounds |
| Servers, `domain/servers` | servers, join tokens, agents, nonces | create, issue token, enroll, heartbeat, list | agents over HTTP |
| Node installer and agent, `deployment/installer/node-install.sh`, `agent/` | `agent.env`, the running container, Xray's files | install, restart, heartbeat loop | the server routes, refused in maintenance |
| Auth, `services/auth-service.ts`, `database/security-repository.ts` | accounts, sessions, login attempts | login, authenticate, logout, change of password or name, edits of accounts, owner recovery | every route |
| Settings, `domain/settings` | one document per section with version, encrypted secrets, history | update, reset | `applyGlobalSettings` of the inbounds |
| API tokens, same directory | `api_tokens` | create, enable, disable, revoke, resolve | the authorization of every route |
| Migrations, owner bootstrap, `install.sh` | schema, first owner, release directory, compose files | install, update, repair, downgrade, rollback | containers, database |
| Web panel, `apps/web` | store of the signed-in user per tab, cookie | refresh, login, logout, navigation | HTTP |
| Shared schemas, config generation | none | pure conversions | - |

What is hard in each, and what makes it correct:

* **Inbounds pipeline.** Each mutation commits a desired revision and then
  drives a remote process through up to ten awaited calls, each of which may
  fail after it took effect; two requests on one instance are not ordered; the
  process may die in between. Correct means: what the panel calls applied is
  what the instance serves, a failure is visible, a rollback restores what was
  backed up, no revision is left open.
* **Sub-panels.** Sums and counts checked before an insert, under a tenant lock
  that not every writer takes. Correct means: a tenant never exceeds its user
  and traffic credit, a suspended tenant is granted nothing.
* **Subscriptions.** The expiration of a user lives in four tables and the
  credential in two; transactions lock the same rows in different orders; the
  pages of the inbounds delete under them. Correct means: the link opens the
  client, what is off is shown off, extensions add up, who was extended is not
  deleted as expired.
* **Servers.** Tokens used once, re-issued concurrently, three transactions
  that lock the same rows in different orders, a credential replaced while its
  heartbeats are under way, replayed heartbeats. Correct means: at most one
  outstanding token, only the newest credential is heard, a heartbeat counts
  once, ONLINE needs two observations.
* **Nodes.** A script that may die after any command, an answer lost after the
  token was used, an agent that goes on with an old credential, maintenance.
  Correct means: CONNECTED speaks of this host, one host is heard, and an agent
  with the accepted credential is heard in the end.
* **Auth.** A password check that takes time while sessions are revoked; limits
  that are counted and then acted on. Correct means: no session survives what
  revoked it, but for logins that overlapped; limits are exceeded by the
  overlapping requests at most.
* **Settings, API tokens.** Validation against rows that others change; a
  credential that creates credentials. Correct means: an enabled section has
  its secret, the history tells what was changed, no token carries more than
  who asked for it, and what is revoked stays revoked.
* **Deployment.** Scripts that are killed, repeated, or run twice at once.
  Correct means: one OWNER, each migration once and in order, no containers
  before their schema, a rollback that restores what was there.
* **Web panel.** Answers that arrive in another order than their requests were
  sent, or never, and a cookie that other tabs change. Correct means: the panel
  shows whom the API acts for, and leaves when nobody is signed in.

`PROJECT.json` lists these components with their status, and the hazards at
the line where they bite.

## 2. Modules

| Module | What it is |
|---|---|
| `SafeApply` | the inbounds pipeline with the runtime it drives |
| `ServerEnrollment`, `EnrollmentLifecycle` | join tokens, their exchange and heartbeats, lock by lock; the abstract lifecycle it implements |
| `AgentNonces` | replay protection of heartbeats against a network that repeats and delays |
| `SubpanelQuota`, `QuotaLedger`, `TrafficCredit` | the transactions of one sub-panel, query by query; the abstract ledger it implements; traffic limits and their sum |
| `Subscriptions` | the link, the subscription and the expiration of the users of one sub-panel, row lock by row lock |
| `Sessions` | accounts, logins and sessions, query by query |
| `Settings` | sections, secrets and history, query by query |
| `ApiTokens` | tokens and the two authentications of a request |
| `Deployment` | `install.sh`, the migrations, the bootstrap of the OWNER |
| `NodeInstall` | `node-install.sh` on several hosts, the agent's loop, maintenance |
| `WebSession` | one tab of the panel, its requests and the cookie |
| `MC...` | constants, bounds and symmetry of each for TLC; `MCSubpanelQuota` also has `SumAssumption`: `Allocated` is the sum |
| `SafeApplyProofs`, `ServerEnrollmentProofs`, `SubpanelQuotaProofs`, `SubscriptionsProofs`, `SessionsProofs` | theorems about the module of that name; the second also about the refinement of `EnrollmentLifecycle`, the third about `TrafficCredit` and the refinement of `QuotaLedger` |
| `AgentProofs`, `AccessProofs`, `MasterProofs` | theorems about `AgentNonces` and `NodeInstall`, about `ApiTokens` and `WebSession`, about `Settings` and `Deployment` |

How they compose: `ServerEnrollment` implements `EnrollmentLifecycle` and
`SubpanelQuota` implements `QuotaLedger`, both by `INSTANCE ... WITH` a
refinement mapping. `NodeInstall` puts hosts around the enrollment; its requests
are one step each, and it implements `EnrollmentLifecycle` too: the master that
`ServerEnrollment` has lock by lock and the one that the hosts talk to go through
the same lifecycle. `WebSession` and `ApiTokens` take from `Sessions` only
whether a session is alive. A definition whose comment begins with "Mutant" is a
plausible mistake in the definition that follows it; no specification uses it,
and the runs must find a property violated when it takes that definition's place.

### 2.1 SafeApply: state

| Variable | In the code |
|---|---|
| `rows` | table `inbounds` joined with `inbound_clients`, by id (`repository.ts` `baseRows`) |
| `retired` | ids of deleted rows: ids are random uuids, none returns |
| `revisions` | table `inbound_apply_revisions`, by the request that inserted the row (a request applies once) |
| `runtime` | the document the Xray process runs |
| `policy` | the stored Xray policy: the global part of documents and `allowHotApply` |
| `job` | the local variables of each request in progress: which call it awaits (`stage`), its copy of the row, the documents and plan of `apply`, or how it ended |

### 2.2 SafeApply: actions

| Action | Code |
|---|---|
| `Create`, `Duplicate` | `service.create`, `repository.create`, `duplicate`: the row is inserted in a transaction at revision 1 |
| `Open` | the row is read by the operations that start from it; the copy keeps the tag and `enabled` it had then |
| `WriteUpdate`, `WriteEnabled`, `WriteCreateClient`, `WriteDelete` | the write of the operation with its revision bump |
| `WriteClients`, then `MarkPending` | `rotateClient`, `deleteClient`, `deleteExpired`: two statements, not one transaction |
| `AssignedClientChange` | the sub-panel's transaction, which bumps the revision itself, then `applyAssignedClientChange` |
| `ApplyGlobalSettings` | the apply after a change of the Xray policy, for the first inbound of the instance |
| `Reread` | `getDesired` after the write: the tag and revision `apply` works from |
| `ReadPolicy`, `Build`, `ReadCurrent` | the first awaits of `apply`: capabilities and policy, the document built from all enabled rows of the instance, the running document and the plan (`ComputeApplyPlan`, from `apply-planner.ts`) |
| `BeginApply`, `MarkApplying` | the two statements of `beginApply` |
| `ValidateConfig`, `Backup` | the config test; `saveBackup` with `attachBackup` |
| `HotRemoveUsers`, `HotAddUsers`, `HotReplaceInbound`, `RestartWithConfig` | the runtime call of the plan |
| `HealthCheck`, `MarkApplySuccess` | end of the try block |
| `RestoreConfig`, `RestoreHealthCheck`, `MarkApplyFailure` | the catch block |
| `Remove` | `delete` after an apply that answered APPLIED; the revisions cascade |
| `Abort` | an answer 4xx/5xx from outside the try blocks |
| `Crash` | the process dies at one of `CrashStages`; nothing resumes a request |
| `ClientExpires`, `SavePolicy` | the clock; the settings page |

Every runtime call takes effect, or throws before, during or after it did (the
answer was lost), so each has up to three outcomes and `Call` and `Refused` are
the two ways to write them. Two facts about Xray are external to the
repository and are used as the code relies on them: an instance holds one
inbound per tag, so adding a tag it carries is refused, and user calls name an
inbound by its tag.

Abstractions: the order of the inbounds in a document is left out (a change of
order alone makes `computeApplyPlan` leave NOOP, never the reverse); a typed
configuration is one value; expiry and `enabled` of a client are one flag
`live`, because the builder reads only their conjunction (`ActiveClients`); a
client edit of the sub-panel is one of create, rotate (of VLESS and VMess with
the name, which is the uuid there), toggle, delete. What makes the build fail is
a listener in `InvalidListener`, or a client whose credential its protocol takes
none of (`Unfit`, as `config-builder.ts:28` and the adapters check it). No two
clients of an inbound have one email: only `createClient` gives one, to a user of
the tenant of the inbound, where the index of migration 003 makes it unique; the
portal's users have none, and `publicId` names them. `Summary`
is what the list of the inbounds says of a row. `getInstanceDesired` reads
the rows in one step. An error of the database inside `markApplyFailure` or
`beginApply` is not modelled (it would leave the revision open, like a crash).

### 2.3 ServerEnrollment

One server; others share no row with it but the nonces. State:

| Variable | In the code |
|---|---|
| `server` | `servers.status` |
| `tokens` | table `server_join_tokens`: `used_at`, `revoked_at` set or not, `expires_at` passed or not |
| `agents` | table `server_agents`, the row named by its credential |
| `stale` | `last_heartbeat_at` is null or more than 90 s ago |
| `tx` | the transactions in progress: where they are, and the rows they have locked |
| `minted`, `known` | which credentials exist; which tokens and credentials arrived at the node (an answer may be lost) |
| `heard` | history: heartbeats accepted from the credential in force |

| Action | Code (`domain/servers/repository.ts`) |
|---|---|
| `Create` | `create` |
| `IssueChecks`, `IssueCommits` | `issueJoinToken`: the status of the locked server; revocation of the outstanding tokens and the insert |
| `EnrollFinds`, `EnrollChecks`, `EnrollCommits` | `enroll`: the locking join of token and server; `joinTokenUsable`; the writes |
| `HeartbeatFinds`, `HeartbeatCommits` | `heartbeat`: the locking join of agent and server; the writes, with `nextHeartbeatStatus` |
| `Arrive` | the routes, and who calls them: an administrator, the installer, the agent |
| `Lock`, `RollBack` | PostgreSQL: a row lock is granted; a statement fails, the client dies, or one transaction of a cycle is aborted |
| `TokenExpires`, `HeartbeatMissed` | time |

`Wanted` gives the rows the next statement locks, evaluated again when the lock
is granted, as READ COMMITTED does. The writes of a transaction are shown at its
commit: its rows are locked until then, and no other operation reads them
without a lock (`list` and `agentStatus` read committed rows and write
nothing). That a query which joins two tables locks the row of the first one
first is how the executor visits the row marks of these queries; the reverse
order only removes one of the deadlocks.

`EnrollmentLifecycle` has four atomic steps, `Create`, `Issue`, `Enroll`,
`Observe`; the mapping takes the status, the tokens outstanding, the credential
of the only agent row and the history, so each commit is one abstract step and
everything else a stutter.

### 2.4 AgentNonces

`sent` is the network: it delivers a request at any time, any number of times,
or never. `work` holds the deliveries being served, with the time of the
timestamp check and the time of `BEGIN` (which `received_at` defaults to);
`nonces` is the table `agent_request_nonces`. `Deliver` is the check of line 75,
`BeginTransaction` the wait for a connection, `LockAgent`, `ReplayCheck` and
`Accept` lines 77 to 101; `Accept` inserts the nonce and deletes the old ones, in
that order. `RollBack` is every other refusal or failure. `Send` takes any
timestamp, because the clock of a node may be wrong.

### 2.5 SubpanelQuota

| Variable | In the code |
|---|---|
| `tenant` | the row of `tenants`: status, whether `expires_at` has passed, `user_limit`, `traffic_quota` |
| `allowed` | `subpanel_settings.allowed_protocols` |
| `inbounds`, `assigned` | the ids in `inbounds`; `subpanel_inbound_assignments` of the tenant |
| `users` | `vpn_users` of the tenant with the inbound of their client: NULL once the inbound is deleted, because the client goes with it and the user stays |
| `tx` | the transactions in progress: the query they are at, and what the earlier ones returned |

`Promise.all` in `createUser`, `updateUser` and `userAction` queues its queries
on the one connection of the transaction: the settings (`Begin`), the tenant
`FOR UPDATE` (`Lock`), the inbound or the user (`FindInbound`, `FindUser`); the
totals are asked for when the tenant has answered, so they come last
(`ReadTotals`). `bulkAction` and `updateMaster` have no target. The checks of
`policy.ts` (`AssertCreateQuota`, `CreditAllows`) and the writes are the action
at stage "write": `CreateUser`, `UpdateUser`, `IncreaseTraffic`, `BulkIncrease`,
`DeleteUsers`, `UpdateMaster`. What a request asks for is chosen there, among
the values that pass; every refusal is `RollBack`. `UpdateTenant` is the master's
edit of a tenant, one UPDATE that waits for the row lock; `DeleteInbound` and
`DeleteClients` are the pages of the inbounds, which take no lock on the tenant.
The expiry of users is data (any visible user may be expired).

Adding up is counting: `Allocated` is the number of bytes granted, so that the
lemmas about it follow from those about finite sets.

Assumed: servers belong to the owner's tenant. `createClient` of the inbounds
inserts users for the tenant of the server without any quota; an administrator
who is a member of a sub-panel's tenant and creates a server there would get
around the quota, and the model does not cover that.

Two things the model shows by what it allows: the owner may set a credit while
unlimited users exist (`SUM` skips NULL), so the credit bounds the limits that
are numbers, and `QuotaLedger` promises only that nobody *becomes* unlimited
under a credit; and users whose inbound was deleted still count against both
limits although the portal no longer lists them (`Visible`).

`UsersPage` and `MasterSummary` are what the reseller and the owner are shown at
one moment (`quotaSnapshot`, `listUsers`, `listMaster`); they change nothing.

### 2.6 Subscriptions

| Variable | In the code |
|---|---|
| `now`, `panel` | the clock; the expiration of the tenant and `allow_subscription` |
| `users` | `vpn_users` with their row of `inbound_clients`: `subscription_enabled`, `expires_at`, the credential |
| `links` | the configs of a user that are not revoked: the credential and the expiration each was written with |
| `subs` | `subscriptions`: enabled or not, `expires_at` |
| `tx` | the requests in progress: whether they have read their target, the row locks they still need (`todo`) and hold |

`Begin` reads the settings; `ReadTarget` the target, with the lock of the tenant
for an edit; `Lookup` and `LookupRefused` are the reads of the rotation and of
the public link. `Acquire` grants a row lock, in the order of the statements
(`Plan`). The last lock comes with the commit: `CreateUser`, `PatchUser`,
`PatchSubscription`, `Extend`, `RotateCredential`, `DeleteUser`,
`DeleteExpired`, `SetSubscriptionEnabled`, `RotateSubscription`, `Answer` (the
consumption of a link), `DeleteClient` (the pages of the inbounds: the user and
what cascades from it), or `TargetGone`. `Fail` is every refusal and failure, the
victim of a deadlock included. Around them act `UpdateMaster` (the owner),
`RotateClient` and `DeleteInbound` (the pages of the inbounds), `Tick`.

The locks of `Plan` are those of the statements and of the foreign keys that can
block somebody: `rotateSubscription` and `setSubscriptionEnabled` end with a row
of `audit_logs`, whose foreign key takes the key of the tenant (`FOR KEY SHARE`)
while an edit holds that row `FOR UPDATE` (`TenantFree`). The audit row of an
edit asks for what the edit has already. `DeleteInbound` removes the client of a
user in one step; that its DELETE locks the inbound before its clients, where an
edit locks a client before it bumps the inbound, is a further pair of orders,
which is not modelled.

What the code does, and the model therefore allows:

* the owner's rotation of a client, and an update of an inbound, rewrite no
  config: the link keeps the old credential (`OwnerCredential` in `LinkMatches`);
* an edit with `expiresAt` and without `subscriptionEnabled` leaves
  `subscriptions.expires_at`; extending a user without expiration gives one;
* rotating the token of a disabled subscription enables it, and leaves
  `vpn_users.subscription_enabled` (`OffIsShownOff` therefore reads one way);
* `rotateSubscription` and `setSubscriptionEnabled` do not call
  `assertTenantActive`, against `docs/subpanel-architecture.md:43`;
* `consumeSubscription` does not read `allow_subscription` (line 20 of that
  document), and `updateUser` does not read the master's subscription setting.

`UserSummary`, `SubscriptionList`, `ConfigUri`, `UrlGiven` and `Export` are what
the pages of the portal show at one moment. A bulk action is that of one user;
over several users it is left out.

### 2.7 Sessions

| Variable | In the code |
|---|---|
| `accounts` | `admins`: role, status, user name, the password its hash is of |
| `sessions`, `order` | the rows of `sessions` that are neither revoked nor expired, and their order by `created_at`: `<<s, t>>` if `t` is newer |
| `guessed`, `limited` | the recent rows of `login_attempts`, by user name and address |
| `reqs` | the requests in progress, with what they have read |

A login is `Login` (counts the failures), `FindAdmin` (row, then the hash),
`RecordLoginFailure` or `CreateLoginSession`, `SelectActive` and `RevokeExcess`
(the limit of sessions: a query, then an update), `AnswerLogin`. Any other
request starts with `Authenticate` and is one of `Revoke`, `RevokeOthers`,
`VerifyCurrent` and then `ChangePassword`, or `ChangeUsername`. `CutOff` ends a
request anywhere. Outside: `CreateAdmin`, `UpdateAdmin`, `UpdateMaster` (the
administrator of a sub-panel), `ResetOwner` (the recovery script), `Idle`,
`Expire`, `Forget` (a failure leaves the window).

Three columns are history and steer nothing: `late` (the login was hashing
against a password that is gone when its session is inserted), `kept` (the
session from which the password was changed), `settled` (its login has enforced
the limit). `docs/authentication.md:14` and `docs/recovery.md:5` promise that a
change of password ends every other session; a login that overlaps the change
leaves one, which is what `late` stands for in `OldPasswordIsOut`.

### 2.8 Settings

| Variable | In the code |
|---|---|
| `rows` | `master_settings`: the document of a section and its version |
| `secrets` | the sections with a row in `master_setting_secrets` |
| `history` | the newest row of `settings_change_history` of each section, with whether its update had validated against data that changed since (history only) |
| `reqs` | the updates in progress |

`Patch` or `Reset` begins an update, `ReadRow` and `ReadSecrets` are the two
queries sent at once, `Validate` the check of the section (the secret an enabled
section needs, and for `tls` the `certificatePath`: `Uncertified` are the values
without it), `Save` the
transaction that finds and locks the document, `Insert` the one that finds none
(the first save of a section locks nothing, so two of them overlap up to the
insert). `CutOff` ends an update anywhere. There is no expected version: the
last writer wins. Two overlapping updates can leave the bot enabled without its
token (`service.ts:182` checks what was read before), two overlapping first
saves can set the version back to 1, and the form sends `""` for a secret it was
not shown, which clears one that was set meanwhile.

`Envelope` is what the page shows of a section (a secret as a sentinel, or as
nothing), and `Resubmitted` the update that the page sends when it is saved
unchanged. Such a save of a section without a secret sends the empty secret,
which the code counts as a change: it writes a version and a row of the history
that names the secret, though nothing differs.

### 2.9 Deployment

| Variable | In the code |
|---|---|
| `disk` | `current`, `compose.env`, `install-result.env`, the command line |
| `applied` | how often the effect of each migration was committed |
| `owners` | rows of `admins` with role OWNER |
| `running` | the release of the running containers |
| `run` | what each shell is doing, and how its last run ended |

The steps of `install.sh` in their order: `Link`, `SourceEnv` (which exports the
old `compose.env`), `WriteEnv`, `Backup`,
`Select` and `Execute` and `InsertRow` (`migrate.ts`: the rows of
`nr_migrations`, the file and its row in one transaction, per file),
`ReadOwners` and `CreateOwner` (`bootstrap-owner.ts`), `Up`, `Healthy` or
`Unhealthy` (the rollback), `NodeInstalled`, `Finish`. `Die` stops a shell after
any of them; `Recreate` is `nr-panel start` and `change-port`. A run is a first
install, an update, a repair or a downgrade by what it finds on the disk.

What the model shows besides: an update starts the images of the old release,
because the exported version wins (`install.sh:57`, against `docs/update.md:5`),
and a later `nr-panel start` starts the new ones without their migrations
(`SchemaFirst` is about the installer's own steps for that reason); a first
install that fails after the bootstrap of the owner cannot be completed; a retry
after an interrupted update "restores" the release that failed; nothing locks
`install.sh` (`alone` in `RestoredIsBefore`). Of `compose.env` only the key
`NR_PANEL_VERSION` is in the model, which is also the only one that the rollback
sets back (`install.sh:107`): the other keys stay as the failed run wrote them.

### 2.10 ApiTokens

| Variable | In the code |
|---|---|
| `admins` | role, status and permissions of the accounts |
| `tokens` | `api_tokens`: creator, permissions, enabled, over (revoked or expired); `by`, the credential it was created with, is history |
| `reqs` | the requests in progress: which of their two authentications they are at, and the identity they got |
| `held` | history: the permissions an account ever had |

`RequireRole` is the first authentication of a request and its check of the role;
`RequireTokenPermission`, or `ResolveSession` with `GetPermissions`, the second
one, whose identity the handler keeps. The handlers are `Create`, and `Find` (or
`FindNone`) followed by `Update`: two statements without a lock. Outside:
`UpdateAdmin`, `Expire`, `CutOff`. `docs/settings-architecture.md:44` (no token
carries more than its creator) holds. A token whose creator was demoted to
RESELLER still acts as ADMIN with the permissions it was given, which is why
`NoEscalation` speaks of permissions the creator ever had. Address lists and the
CSRF check are left out.

### 2.11 NodeInstall

| Variable | In the code |
|---|---|
| `server`, `tokens`, `agents`, `minted` | the rows of the master, as in `ServerEnrollment`; a token is outstanding, expired, or over (used or revoked) |
| `maintenance` | `general.maintenanceMode`; the hook of `app.ts:74` then refuses heartbeats and exchanges, and the OWNER may still issue tokens |
| `runs` | the runs of `node-install.sh`, with the command each was given |
| `env`, `agent`, `flight`, `xray` | by host: the credential in `agent.env`, the one the running container was started with, the one of the heartbeat on its way, what is there of Xray |
| `heard` | history: the hosts of the first two heartbeats accepted since the last exchange |

Master: `CreateServer`, `Regenerate` (each one POST; `createServer` of the page
makes both, and the second may fail), `TokenExpires`, `ToggleMaintenance`.
Script: `Launch`, `InstallXray` or `KeepXray`, `Enroll`, `Store`, `StartAgent`,
`AskOnline` and `AskAgain` (the loop that waits for ONLINE), `Die`. Agent:
`SendHeartbeat`, `Heartbeat`, `HeartbeatFails`, `Restart`. `Launch` assumes one run per
host at a time, and a heartbeat that was given up on is not accepted later.

`xray` feeds no property; it is there for what the next run finds and reports.

Run again on a host whose agent runs, the script leaves the container with the
credential it just had deleted: `systemctl enable --now` does not restart a unit
that is active (`docs/server-join.md:7`). Such a host is heard again after a
`Restart` only, and `AcceptedIsHeard` speaks of the credential of the container.
An interrupted installation of Xray is reported as preserved by the next run.

### 2.12 WebSession

`sessions` and `cookie` are shared with the other tabs; `tab` is the store of
`auth-store.ts` with the page shown, the calls of `/auth/me` in flight with the
cookie each carries, and the login or logout the tab waits for. `Load`,
`Return` (a step in the history), `Boundary` (the effect of `AuthBoundary`) and
`Retry` are the tab; `Submit`, `ServeLogin`, `LoggedIn`,
`NotLoggedIn`, `Land` a login; `Logout`, `ServeLogout`, `LoggedOut`,
`NotLoggedOut` a logout; `Serve`, `Answer`, `Fail` a call of `/auth/me`, which
is served and answered at some later moment, or never. `Revoke`,
`LoginElsewhere`, `LogoutElsewhere` are the API and the other tabs. A tab waits
for one login or logout at a time and is not reloaded meanwhile.

What `StaleIsExplained` has to except is what the code does: a tab acts for
another account once another tab has logged in; a refresh that joins an older
call after a step in the history shows the older answer. Besides: a logout that
does not reach the API leaves session and cookie alive; the late answer of a
logout clears the cookie of a newer login; a login over a live session leaves
the old one in the database.

## 3. Runs

Every run is finite and complete within its bounds, and every property of it is
violated by at least one plausible mistake in the code (`PROJECT.json`,
"mutants"). `CHECK_DEADLOCK` stays on everywhere: the environment can always
act, so a deadlock would be a modelling error; requests that wait for each other
are the subject of `DeadlocksNeedExchange` and `DeadlocksMixOrders`.

| Run | Question | Bounds, and why they are enough |
|---|---|---|
| `SafeApply` | does APPLIED mean current and served, and ROLLED_BACK restored? does disabling an inbound take that one out of service, and no other? | 2 inbounds, 2 tags, 3 listeners (one differs in `allocate`, one takes no client, one does not build), 2 emails, 2 credentials, 2 policies (one forbids hot applies), every operation, 2 serial requests: a request after a failed one, after any state; 942 458 states. `Bounded`: a client, one at a time, and the other policy, only while there has been one inbound; the first listener only under the other policy; a policy saved after an apply has read it waits |
| `SafeApplyConcurrent` | what holds without serialisation? is every revision settled? | 1 inbound, 2 interleaved requests out of deleteClient (two statements) and delete (the row goes while the other applies), the process dying during runtime calls |
| `Enrollment` | do the row locks keep one credential in force? does every interleaving implement the lifecycle? which transactions can deadlock? | 2 tokens, 2 credentials (one replaced and its replacement), 3 concurrent requests (an issue, an exchange and a heartbeat at once), any number in sequence; 71 945 states |
| `AgentNonces` | does a heartbeat count once? | 2 requests of up to 2 agents (one makes the master forget the nonce of the other), 2 connections; window 1, patience 1, retention 3, the least that suffices: with 2 the property fails; clock up to 7, past the retention of every nonce |
| `Quota` | do users and traffic stay within the credit? do the interleavings implement the ledger? | 2 users and a user limit up to 1, traffic up to 2 (two users of 1, one raised to 2, a sum that overflows the column), 1 inbound, 2 concurrent transactions |
| `Subscriptions` | do links, flags and expirations agree whatever overlaps? which requests can deadlock? | 1 user, 2 requests, 2 credentials of the portal (before and after a rotation) and 1 of the owner, 2 moments of expiry; 894 676 states. Two requests make a circle; longer ones are covered by the proof. `Bounded`: subscriptions are offered while requests are served |
| `Sessions` | who still holds a session? how far do overlapping logins exceed the limits? | 1 account, 2 names, 2 passwords, 1 address, 3 sessions over a limit of 2 (with a limit of 1 a selection that keeps one session too many could not be told from a right one), threshold 1, 2 requests; about 550 000 states. `Bounded`: failures are counted while there is no session; a session turns idle while there are two at most |
| `Settings` | is an enabled section backed by what it needs? does the history tell what changed? | the section `tls` with a secret, 2 values (without and with a certificate path), 2 updates, 3 versions: a first save and two more; 1 230 462 states |
| `Deployment` | one OWNER, each migration once, containers after their schema, a rollback that restores? | 2 shells, 2 releases: install, update, repair, downgrade, killed after any step and started again; 1 385 380 states |
| `ApiTokens` | can a token carry more than who asked for it, or act after its end? | the OWNER and another account, 2 permissions (the one needed to manage tokens and another), 2 tokens (one creates the other), 2 requests |
| `NodeInstall` | whom does CONNECTED speak of? which host is heard? does the master keep to the lifecycle? is an accepted agent heard in the end? | 2 hosts (one with a configuration of Xray), 2 runs, 2 tokens, 2 credentials, one poll of the status |
| `WebSession` | whom does the panel show? does a panel that asks with a dead session come out of it? does a logout end on the login page? | 3 sessions: of this tab, of another tab, and a newer one; 105 957 states |

The bounds called `Bounded` are state constraints of the MC modules; the
comment there says what they leave out. Symmetry is used where names are never
told apart and no liveness is checked.

**Fairness.** `SafeApply`: weak fairness of `Proceed(r)`, the code of a request
being served; Node resumes a request whenever its awaited call answers, and the
runtime and PostgreSQL are assumed to answer or to throw. `NodeInstall`: the script goes on (or dies where it
cannot), the loop of the agent has a timer and its requests a timeout, and a
heartbeat that is sent for ever arrives in the end (strong fairness of
`Heartbeat`, an assumption about the network). `WebSession`: a
call, a login or a logout ends, with its answer or without (weak fairness of
`Arrives` and `PostEnds`), and React runs its effects (strong fairness of
`Boundary`: a page that is reloaded just before each run of the effect would
never leave, and nobody reloads it for ever at that moment). The other modules
check no liveness and have no fairness.

What the runs show:

* `AppliedIsCurrent`, `AppliedIsServed`: with requests one at a time and whatever
  runtime call fails, an inbound that says APPLIED at its desired revision is
  served with exactly its stored listener and clients. This needs the planner's
  comparison of the whole documents, the removal of changed users before they are
  added, and the status PENDING of every write.
* `DisablingTakesOneOut`: a request that disables an inbound and answers APPLIED
  leaves nothing under the tag of that row, and every enabled inbound whose tag
  was on the instance when it planned still has it there, although the document
  it met may be what a failed apply left. It speaks of the tag the row has: an
  earlier tag, which a rename whose apply failed has left running, stays served,
  as it does after a deletion (see 4).
* `RollbackRestores`: ROLLED_BACK is recorded only when the instance runs the
  document that was backed up.
* `UnsettledIsExplained`, `EveryRevisionEnds`: when requests interleave freely,
  a row that is not settled belongs to a request at work, aborted or crashed,
  and no path through `apply` forgets its revision, not even when the row is
  deleted under it.
* `OnlyHolderIsHeard`: a heartbeat that passed its credential check keeps the
  agent row locked, so the exchange that replaces the credential comes before or
  after it, and no old heartbeat counts towards ONLINE.
* `FollowsLifecycle`: the whole enrollment, as a refinement.
* `DeadlocksNeedExchange`: `issueJoinToken` locks the server and then its tokens,
  `enroll` the token and then the server; `enroll` the server and then the
  agent, `heartbeat` the agent and then the server. Both pairs do deadlock in
  the model, and nothing else does: in every circle an exchange and one of the
  other two hold what the other asks for. PostgreSQL breaks it; one request
  fails with 500, the other goes on.
* `AcceptedOnce`: the window of 300 s on both sides of the clock and the
  retention of 24 h leave 85 800 s for one delivery; no timeout in the code
  bounds it, so this is an assumption (`Patience`).
* `WithinCredit`: every portal request reads the totals after it has the lock of
  the tenant and writes before it gives it back; deletions take no lock, but
  only lower the totals.
* `ImplementsLedger`: besides, no request grants anything once a suspension is
  committed, none makes a user unlimited under a credit, and the owner cannot
  set a limit below what is in use, not even while users are being created.
* `LinkMatches`, `OffIsShownOff`: four tables carry a copy of the expiration or
  of the switch; overlapping extensions, rotations and edits do not leave a link
  of an earlier state, and what was switched off is shown off.
* `ExtensionsAddUp`, `OnlyExpiredDeleted`: what a request has read of a user
  is still so when it writes, or was read again under the lock.
* `DeadlocksMixOrders`: there are two orders. The edits and the owner's deletion
  of a client take the user before the subscription, the edits with the lock of
  the tenant from their read on. `setSubscriptionEnabled` takes the subscription
  first and then the user; it and `rotateSubscription` come last to the key of
  the tenant, for the row of `audit_logs`. Every deadlock has one request of
  either order, as an extension and a rotation of the token have it; requests of
  one order never wait for each other in a circle.
* `SessionLimit`, `GuessesBounded`: both limits are counted and then acted on;
  they are exceeded by the overlapping logins at most.
* `OldPasswordIsOut`, `DisabledHoldsNone`: a change of password and the
  disabling of an account end the sessions in the transaction that makes them,
  so that only a login that was hashing meanwhile is left, and enabling an
  account brings no session back.
* `UnbackedIsExplained`, `HistoryIsComplete`: the validation of an update is
  sound, and its history complete, unless another update saved between its reads
  and its save. A check within the document, as that of the certificate of
  `tls`, holds without exception.
* `OneOwner`, `AppliedOnceInOrder`, `SchemaFirst`: the lock in
  `bootstrapOwner`, the row of a migration in the transaction of its file, and
  the order of the steps of the script hold against a second shell and against a
  kill after any step.
* `RestoredIsBefore`: the rollback of an update leaves the link and the version in
  `compose.env`, and with them the result file and the command line, as the run
  found them, if nobody else was at work.
* `NoEscalation`, `OverIsOver`: along chains of tokens that create tokens, and
  with permissions taken away between the two authentications.
* `ConnectedIsHeard`, `OneHostIsHeard`: a command pasted on two hosts, or
  issued again, never has two hosts heard, and CONNECTED is printed by the one
  that is. `InstallFollowsLifecycle`: seen from the server, all of that is the
  lifecycle of one server in `EnrollmentLifecycle`.
* `AcceptedIsHeard`: the loop of the agent never stops over a refusal or a
  loss.
* `StaleIsExplained`: calls of `/auth/me` are joined, never overtaken, and the
  panel asks again when it is mounted, so that after a login in the same tab it
  shows who logged in, whatever older call the login overlapped.
* `DeadSessionLeaves`, `LogoutLeaves`: a panel that asks with the cookie of a dead
  session, which the proxy lets in, comes to the login page, to the error page
  or to another user, whichever calls are late, lost or joined on the way; who
  logs out leaves although the API does not answer.

## 4. Where the code departs from its documents

| Document | What the code does |
|---|---|
| `docs/inbounds-xray-architecture.md:27` | applies that overlap on one instance plan against, and restore, each its own `previous` (`service.ts:212`): one ends APPLIED although the other removed what it applied. The properties about what is served are therefore stated under `Serialised` |
| `docs/inbounds-xray-architecture.md:16` | `deleteClient`, `rotateClient`, `deleteExpired` write the clients and the revision in two statements (`repository.ts:231`); a crash in between leaves APPLIED over a document that still serves the client. `CrashStages` of the runs has only the runtime calls |
| the delete route of the inbounds | a rename whose apply failed leaves the old tag running; a delete that follows removes the new tag, and the old inbound keeps running without a row (`service.ts:175`). The same with disabling: APPLIED is answered for the new tag, and the old one stays served. `AppliedIsServed` is about rows, `DisablingTakesOneOut` about the tag the row has |
| `ServersManagement.tsx:41` | the panel offers the install command for an OFFLINE server, but OFFLINE is computed by `list` and never stored: `issueJoinToken` (`repository.ts:45`) sees ONLINE and answers 409 |
| `docs/subpanel-architecture.md:11,28,32` | `createUser` reads the allowed protocols before it waits for the lock of the tenant: a protocol taken away meanwhile still gets a user |
| those quoted in 2.6 to 2.11 | likewise described there |

Production uses `UnavailableXrayRuntime`, whose every call fails: of the
outcomes of a runtime call in `SafeApply` this is one.

## 5. Proofs

The theorems hold for any constants that satisfy the assumption of their module;
TLC evaluates each assumption in its runs. Theorems marked * state a property
that is not in a run; those of the runs are named in 3.

`SafeApplyProofs`, for freely interleaved requests unless `Serialised` is said:

| Theorem | Argument |
|---|---|
| `TypeCorrect`* | `TypeOK` is inductive; one lemma per action. The delicate part is that the documents built, planned and edited stay documents |
| `BackedUpAlways`* | inductive with `TypeOK`: a request gets past `backup` only by writing the backup, its revision is only its own to write, and only `Remove` drops it |
| `UnsettledAlwaysExplained` | inductive with `TypeOK`: the action that leaves a row unsettled is that of a request which stays in `job`, and the request that ends `done` leaves a settled status or another request at work |
| `AppliedNeverAhead`* | `AheadInv` adds that an id is never both stored and retired, and that every request past `reread` holds a revision that its row has reached. The second is needed because `MarkApplySuccess` writes a number read many steps earlier, the first because a row created again under a used id would restart at revision 1 |
| `RollbackAlwaysRestores`, under `Serialised` | `RollbackInv`: one request runs (`Sole`), and one that is past the restore and about to record it finds the runtime on the document it backed up (`Restored`) |
| `AppliedAlwaysCurrent`, under `Serialised` | `CurrentInv`: `Sole`, and the revision a request holds after `reread` is the one its row still desires (`Fresh`) |
| `AppliedIsAlwaysServed`, under `Serialised` and `"bump" \notin CrashStages` | `ServedInv` relates every stage of the running request to the runtime: the row it holds and the tags it may touch (`Holds`); the document it was given, which serves every enabled row (`Aims`); the document it returns to, which serves every other applied row (`Returns`); how far the runtime has got between the two (`Reaches`). Each call of the plan, and each of its failures, leaves the entries of the other inbounds alone; tags name entries and emails name users (`UniqueTags`, `UniqueEmails`, `Proper`), without which removing by name would remove more. The second assumption excludes the death of the process between the two statements of a client change (`repository.ts:231`), after which the property is false (see 4) |
| `DisablingAlwaysTakesOneOut`, under the same two assumptions | `SparingInv` adds to `ServedInv` that a request past its first runtime call runs its whole target, or has left every entry of the backed-up document in place but those under its own tags (`Spares`). `ServedInv` alone is not enough: it says of the other inbounds what their rows say, and a row that is not settled says nothing of what is served |

`ServerEnrollmentProofs`:

| Theorem | Argument |
|---|---|
| `Invariance`, `TypeCorrect`* | `IInv` adds to `TypeOK`: a row is locked by one transaction (`Exclusive`); a transaction past a stage holds the rows of that stage, and they are as its check found them (`Orderly`); the agent row exists only for a server past `REGISTERED` (`AgentMeansJoined`). Without `Orderly` a commit could act on a check that another commit made void |
| `OneOutstandingAlways`*, `ExchangedOrRevokedAlways`* | the issuer holds the server row and every outstanding token; an exchange needs both the token and the server |
| `DeadlocksAlwaysNeedExchange` | with `IInv`, what a transaction holds at each of its stages (`HInv`): somebody in a circle has the server, or else each would be at its first row and hold nothing; whom that one waits for holds its own token or credential alone and so waits for the server in turn, and one of the two is an exchange |
| `OnlyHolderIsHeardAlways`, `StatusIsObservedAlways`* | a heartbeat holds the agent row that an exchange must delete |
| `ImplementsLifecycle` | `Init` maps to `Init`; the three commits and `Create` map to the abstract steps (the guards of which are what `IInv` gives), all other actions to stutters |

`AgentProofs` about `AgentNonces`, for any `Window`, `Patience`, `Retention` with
`2 * Window + Patience <= Retention` (`RetentionAssumption`):

| Theorem | Argument |
|---|---|
| `TypeCorrect`*, `AcceptedOnceAlways` | `IInv` says that an accepted request is in the table, or `Closed`: later than its timestamp plus window plus patience, when no delivery of it is under way and none passes the check. A nonce was received at most `Window` before the timestamp of its request, so deleting it after `Retention` closes it. The row lock keeps the replay check true until the insert |
| `StillFreshIsRememberedAlways`* | a closed request is not fresh |

`AgentProofs` about `NodeInstall`, for any hosts, runs, credentials and polls:

| Theorem | Argument |
|---|---|
| `NodeTypeCorrect`*, `ConnectedIsAlwaysHeard`, `OneHostIsAlwaysHeard` | `NodeInv` adds to `NodeTypeOK`: one credential is accepted and no two runs were given the same (`OneHolder`); a host has its credentials, in the file, in the agent and in a heartbeat under way, from a run there (`HeldWhereRun`); the status says how many heartbeats of the accepted credential were heard, all from the host of its run (`Hearing`); if a run that told CONNECTED still has the accepted credential, the status has not gone back since (`ToldOnline`); before the exchange a run has no credential (`NoneYet`). The last three hold together only: an exchange anywhere sets the status back, and makes the credential of every other run void at once |
| `InstallImplementsLifecycle` | with `NodeInv`, two facts about the tokens: at most one is outstanding (`OneToken`), and a run has a token that was issued (`Commanded`). `Regenerate` maps to `Issue`, the exchange of a run to `Enroll`, an accepted heartbeat to `Observe` (by `Hearing`), and what the hosts do otherwise to stutters |

`SubpanelQuotaProofs`, which first has what the sum does when a limit is set, a
user is added, users are deleted, or raised together (by an injection of the new
bytes into users times increase):

| Theorem | Argument |
|---|---|
| `Invariance`, `TypeCorrect`* | `IInv` adds to `TypeOK` and the two limits what a transaction may rely on when it writes: one holder of the lock (`OneHolder`); the totals it read are not below the present ones (`TotalsCover`); the limit of its target is the one it read, if the target is still there (`LimitKept`); the tenant is still active and the inbound still assigned, if it exists (`StillActive`, `StillAssigned`) |
| `WithinUserLimitAlways`*, `WithinCreditAlways`, `CreatedOnAssignedAlways`* | conjuncts of `IInv` |
| `Refinement` | the writes of the portal map to `Grant` and `Release`, the edits of the owner to `Restrict`, all the rest to stutters |
| `PagesAlwaysAddUp`* | from `IInv`: both limits hold, so what is left is never cut off at 0 |

`SubscriptionsProofs`, for any users, requests, credentials and times:

| Theorem | Argument |
|---|---|
| `TypeCorrect`, `LinkAlwaysMatches`, `OffIsAlwaysShownOff` | `IInv` adds four facts about the requests. A request asks for its locks in the order of its plan (`LocksInOrder`); a user that is being created is nobody else's (`NewIds`); one edit at a time is past its read, since it holds the lock of the tenant (`OneEdit`); what an edit read of the expiration is still so (`UpToDate`). The last one is what makes `replaceConfig` right, which writes the expiration it read earlier; it needs `OneEdit`, and that what takes no lock of the tenant (the switches, the pages of the inbounds) changes no expiration (`SameEnds`). One lemma, `WritesKeeps`, covers every write to one user |
| `ExtensionsAlwaysAddUp`, `OnlyExpiredAreDeleted` | action properties, from `UpToDate` |
| `DeadlocksAlwaysMixOrders` | from `LocksInOrder`. Without a request that takes the user first nobody has the tenant, and a circle would go from the subscription to the user to the tenant and no further; without one that takes the subscription first nobody holds a subscription, which whoever is waited for asks for |
| `PagesAlwaysAgree`* | from `IInv`: what the lists, the link and the exports show are functions of the same rows |

`SessionsProofs`, `MasterProofs` about `Settings`, `AccessProofs` about `ApiTokens`:

| Theorem | Argument |
|---|---|
| `Sessions`: `OldPasswordIsAlwaysOut`, `DisabledAlwaysHoldsNone` | inductive with the shapes of accounts, sessions and requests: a session is inserted `late` or with the present password, and whoever changes a password or disables an account revokes in the same transaction |
| `TypeCorrect` of `Sessions`, `SessionLimitHolds` | `Within`, for any set `Q` of the logins that have selected and not yet revoked: of the sessions that are settled or belong to a login of `Q`, at most `MaxSessions` are outside what `Q` will revoke (`Left`). It has to hold for every `Q` because each of the overlapping logins may be the next to revoke, and for a new selection it is a fact about orders: fewer than n elements have fewer than n newer ones (`NewestAreFew`). The property is the case `Q = {}` |
| `GuessesAlwaysBounded` | `GuessInv`: the wrong guesses counted at a name or at an address, and the logins there that the lockout has let through, are together at most `Threshold - 1` and the number of requests. A login is let through only when fewer than `Threshold` guesses are counted, and then at most every request is one; after that each guess counted ends a login. Needs `Request` finite, which the assumption says |
| `Settings`: `TypeCorrect`*, `UnbackedAlwaysExplained` | inductive with `Requests`: what an update has read has the shape of a document, and a save that enables a section without its secret had read that there was one |
| `HistoryAlwaysComplete`, `FoundAlwaysOverwritten`* | action properties, from the same invariant; only `Save` and `Insert` touch the rows |
| `PageAlwaysRoundTrips`* | from the same invariant: an enabled section without its secret has a history that says why |
| `ApiTokens`: `TypeCorrect`*, `NoEscalationAlways` | `IInv` adds that `held` covers the present permissions (`Accounts`) and that the identity kept by a handler is that of its credential (`Identities`). Without it a handler could create with permissions nobody gave it |
| `OverIsOverAlways` | by cases on the actions: both authentications refuse a token that is over, and every other step ends a request or leaves it as it is |

`MasterProofs` about `Deployment`, for any number of shells and releases:

| Theorem | Argument |
|---|---|
| `MachineTypeCorrect` | inductive with `Prepared`: past `linked` an installer has an image of some release, and the disk a pointer and a `compose.env`, which no step of another shell takes away |
| `OneOwnerAlways` | `OneWrites`: one shell is past the count, under the lock, and then there is no OWNER |
| `AppliedAlwaysOnceInOrder` | `FileNext`: the file a shell executes is the least without a row in its release, so the ones before it are applied, and no step takes that back; at `insert` it is still not applied, since `OneWrites` lets one shell be there with that file. That the loop finds the least is the lemma `FirstMissing` |
| `SchemaAlwaysFirst` | `SchemaReady`: past the migrations all of those of its image are applied. It is the image, not the version, that both migrates and is started |
| `RestoredIsAlwaysBefore` | `AloneUndoes`: while an installer that began alone still is, target, image and the part of the disk it has not written are those of `before`. A shell that starts meanwhile clears `alone` |

`AccessProofs` about `WebSession`, for any sessions:

| Theorem | Argument |
|---|---|
| `WebTypeCorrect` | `WellFormed`: the calls of `/auth/me` are what `activeRequest` says, one at a time, and the store is authenticated exactly with a user |
| `StaleIsAlwaysExplained` | `Current`: on a panel whose cookie nobody changed and which joined no earlier call, every call under way carries its cookie, and the user shown after one is that of the cookie |

The invariants `NodeInv`, `DeployInv` and `WebInv` were checked by TLC on the
configurations of the runs before they were proved. The modules that share a
proof module name their parts apart (`NodeInit`, `DeployNext`, `WebSpec`).

Only model-checked: the liveness properties `EveryRevisionEnds`,
`AcceptedIsHeard`, `DeadSessionLeaves` and `LogoutLeaves`, since fairness is out of the prover's reach. Every invariant, action property
and refinement of the runs is a theorem.

## 6. Not modelled

* **Traffic counters.** `resetTraffic` resets the counters of the runtime one by
  one and the rows afterwards; nothing in the repository increments a counter,
  and the only runtime refuses the call, so there is no behaviour to check.
* **Shared schemas, config generation, formatting of links.** Pure conversions
  of data. The search for a port of `duplicate` always ends: it stops at a free
  port or where it began.
* **Several Xray instances.** Rows of other instances are never read by an apply.
* **Bulk actions over several users**, the appearance settings of the portal,
  tenants and the audit log in `Sessions`, address lists of tokens, the values of
  the settings and their connection tests.
* **The questions of `install.sh`**, ports and paths, `nr-panel uninstall`, the
  agent of the local server; downloads and checksums of the node installer.
* **The pages of the web panel** other than who is signed in.
* A failure of the database inside `beginApply` or `markApplyFailure`, which
  would leave the revision open like a crash.

What would come next: an abstract apply that changes row and runtime at once,
implemented by the serialised `SafeApply` (`ServedInv` has the facts for it).
