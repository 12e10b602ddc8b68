------------------------------ MODULE SafeApply ------------------------------
(***************************************************************************)
(* The inbounds pipeline of the API for one Xray instance: the desired     *)
(* rows in PostgreSQL, the HTTP requests that mutate them, and the apply   *)
(* that every mutation runs afterwards (InboundService.apply).             *)
(*                                                                         *)
(* A request is a process.  Each of its awaited calls is one action, so    *)
(* requests interleave between any two of them, as they do in the code:    *)
(* nothing serialises two applies on one instance.                         *)
(*                                                                         *)
(* Abstractions.                                                           *)
(*  - A document of Xray is its global part and a set of inbound entries;  *)
(*    the order of the entries is not kept.                                *)
(*  - An inbound's typed configuration, port included, is one Listener.    *)
(*  - A client is live when it is enabled and not expired: only live       *)
(*    clients are built into the document.                                 *)
(*  - getInstanceDesired reads the rows of the instance in one step.       *)
(*  - A call of the runtime takes effect, or throws; when it throws it may *)
(*    have taken effect (the answer was lost) or taken part of it.         *)
(***************************************************************************)
EXTENDS Naturals

CONSTANTS
  Inbound,          \* identifiers of inbound rows (uuids: never used twice)
  Tag,              \* Xray tags, unique in an instance
  Listener,         \* typed configurations of an inbound, without its clients
  InvalidListener,  \* the ones the typed adapters refuse to build
  Allocation,       \* Allocation[l]: the advanced "allocate" field of l
  Email,            \* what names a client in Xray
  Credential,       \* a credential, with the flow of its client
  Unfit,            \* Unfit[l]: credentials that do not go with listener l
  Global,           \* the log, stats and policy part of a document
  Policy,           \* the Xray policies an administrator may store
  Request,          \* HTTP requests, each served once
  Offered,          \* bound: the operations the requests ask for
  Serialised,       \* bound: TRUE when one request ends before the next starts
  CrashStages       \* bound: the stages at which the API process may die

ASSUME ConstantsAssumption ==
  /\ InvalidListener \subseteq Listener
  /\ Unfit \in [Listener -> SUBSET Credential]
  /\ Allocation \in [Listener -> Nat]
  /\ Serialised \in BOOLEAN
  /\ Policy \subseteq [global : Global, hotApply : BOOLEAN]

VARIABLES
  rows,       \* table inbounds, with inbound_clients: a function on stored ids
  retired,    \* ids of deleted rows
  revisions,  \* table inbound_apply_revisions: by the request that wrote it
  runtime,    \* the document the Xray instance runs
  policy,     \* the stored Xray policy
  job         \* the requests in progress, and how the others ended

vars == <<rows, retired, revisions, runtime, policy, job>>

-----------------------------------------------------------------------------
Client == [email : Email, credential : Credential, live : BOOLEAN]
User == [email : Email, credential : Credential]
Entry == [tag : Tag, listener : Listener, users : SUBSET User]
Document == [global : Global, inbounds : SUBSET Entry]

Settled == {"APPLIED", "FAILED", "ROLLED_BACK"}

\* applied = 0 stands for the NULL of a row that was never applied.
Row == [tag : Tag, listener : Listener, clients : SUBSET Client,
        enabled : BOOLEAN, desired : Nat, applied : Nat,
        status : {"PENDING", "APPLYING"} \cup Settled]

Revision == [inb : Inbound, revision : Nat, backup : BOOLEAN,
             status : {"VALIDATING", "APPLYING"} \cup Settled]

Strategy == {"NOOP", "HOT_CLIENTS", "HOT_INBOUND", "RESTART_REQUIRED"}
Operation == {"create", "update", "setEnabled", "createClient", "rotateClient",
              "deleteClient", "deleteExpired", "delete", "assigned", "global"}
Ended == {"done", "aborted", "crashed"}
Mutating == {"hotRemove", "hotAdd", "hotReplace", "restart"}
Stage == {"write", "bump", "reread", "policy", "build", "current", "begin",
          "applying", "validate", "backup", "health", "success", "restore",
          "restoreHealth", "failure", "remove"} \cup Mutating

\* tag, enabled and revision are the caller's copy of the row; oldTags holds
\* the previousTag of the apply, and is empty when it is null.
Job == [op : Operation, inb : Inbound, stage : Stage, oldTags : SUBSET Tag,
        tag : Tag, enabled : BOOLEAN, revision : Nat, global : Global,
        hot : BOOLEAN, desired : Document, previous : Document,
        strategy : Strategy, doomed : BOOLEAN, rolledBack : BOOLEAN]
EndedJob == [inb : Inbound, stage : Ended]

-----------------------------------------------------------------------------
(* Building documents and planning an apply *)

\* The adapters accept the configuration of the row and the clients that are
\* enabled, live ones or, if lapsed, others that have expired since.
Builds(row, lapsed) ==
  /\ row.listener \notin InvalidListener
  /\ \A c \in row.clients : c.live \/ lapsed => c.credential \notin Unfit[row.listener]

BuildEntry(row) ==
  [tag |-> row.tag, listener |-> row.listener,
   users |-> {[email |-> c.email, credential |-> c.credential] :
                c \in {d \in row.clients : d.live}}]

EnabledIds == {i \in DOMAIN rows : rows[i].enabled}

\* Mutant: the filter on enabled inbounds is dropped.
BuildDocumentOfAll(global) ==
  [global |-> global, inbounds |-> {BuildEntry(rows[i]) : i \in DOMAIN rows}]

BuildDocument(global) ==
  [global |-> global, inbounds |-> {BuildEntry(rows[i]) : i \in EnabledIds}]

WithTag(document, tags) == {e \in document.inbounds : e.tag \in tags}
UsersOf(document, tags) == UNION {e.users : e \in WithTag(document, tags)}

\* Mutant: two entries of one tag are taken to differ in their users only.
PlanByTag(previous, next, oldTags, tag) ==
  LET new == WithTag(next, {tag}) IN
  IF previous = next THEN "NOOP"
  ELSE IF previous.global # next.global THEN "RESTART_REQUIRED"
  ELSE IF new # {} /\ \E p \in WithTag(previous, oldTags) : p.tag = tag
       THEN "HOT_CLIENTS" ELSE "HOT_INBOUND"

ComputeApplyPlan(previous, next, oldTags, tag) ==
  LET old == WithTag(previous, oldTags)
      new == WithTag(next, {tag})
      Differ(f(_)) == \E p \in old, n \in new : f(p) # f(n)
      Listening(e) == <<e.tag, e.listener>>
      Allocated(e) == Allocation[e.listener]
  IN  IF previous = next THEN "NOOP"
      ELSE IF previous.global # next.global THEN "RESTART_REQUIRED"
      ELSE IF old = {} \/ new = {} THEN "HOT_INBOUND"
      ELSE IF ~Differ(Listening) THEN "HOT_CLIENTS"
      ELSE IF Differ(Allocated) THEN "RESTART_REQUIRED" ELSE "HOT_INBOUND"

\* Mutant: only the users that are gone are removed, not the changed ones.
GoneEmails(j) ==
  {u.email : u \in UsersOf(j.previous, j.oldTags)}
    \ {u.email : u \in UsersOf(j.desired, {j.tag})}

\* A changed user is both removed and added.
RemovedEmails(j) ==
  {u.email : u \in UsersOf(j.previous, j.oldTags) \ UsersOf(j.desired, {j.tag})}
AddedUsers(j) == UsersOf(j.desired, {j.tag}) \ UsersOf(j.previous, j.oldTags)

\* The first runtime call of a plan.
FirstCall(j) ==
  CASE j.strategy = "NOOP" -> "health"
    [] j.strategy = "HOT_INBOUND" -> "hotReplace"
    [] j.strategy = "RESTART_REQUIRED" -> "restart"
    [] j.strategy = "HOT_CLIENTS" ->
         IF RemovedEmails(j) # {} THEN "hotRemove"
         ELSE IF AddedUsers(j) # {} THEN "hotAdd" ELSE "health"

-----------------------------------------------------------------------------
(* The database *)

TagsOf(ids) == {rows[i].tag : i \in ids}

\* Mutant: the status of the last apply is kept.
PendingKeepingStatus(row) == [row EXCEPT !.desired = @ + 1]

\* Every mutation of a row ends with a new desired revision, not yet applied.
Pending(row) == [row EXCEPT !.desired = @ + 1, !.status = "PENDING"]

\* UPDATE ... WHERE id = key changes nothing when there is no such row.
Updated(table, key, record) ==
  [k \in DOMAIN table |-> IF k = key THEN record ELSE table[k]]
Inserted(table, key, record) ==
  [k \in DOMAIN table \cup {key} |-> IF k = key THEN record ELSE table[k]]

Rewrite(i, row) == rows' = Updated(rows, i, Pending(row))

\* No two clients of an inbound have one name: an email is given by createClient
\* only, to a user of the inbound's tenant, and UNIQUE there; who has none is
\* named by a uuid.
Newcomers(cs) == {d \in Client : \A b \in cs : b.email # d.email}

\* The sets of clients that one client operation can turn cs into.
WithNewClient(cs) == {cs \cup {c} : c \in Newcomers(cs)}
WithRotatedClient(cs) ==
  {(cs \ {c}) \cup {[c EXCEPT !.credential = k]} : c \in cs, k \in Credential}

\* The sub-panel makes the new credential of VLESS and VMess the uuid as well.
WithRenamedClient(cs) ==
  {(cs \ {c}) \cup {[d EXCEPT !.live = c.live]} : c \in cs, d \in Newcomers(cs)}
WithToggledClient(cs) == {(cs \ {c}) \cup {[c EXCEPT !.live = ~@]} : c \in cs}
WithoutClient(cs) == {cs \ {c} : c \in cs}
WithoutExpired(cs) ==
  {cs \ gone : gone \in SUBSET {c \in cs : ~c.live} \ {{}}}

ClientEdits(op, cs) ==
  CASE op = "rotateClient" -> WithRotatedClient(cs)
    [] op = "deleteClient" -> WithoutClient(cs)
    [] op = "deleteExpired" -> WithoutExpired(cs)

-----------------------------------------------------------------------------
(* Requests *)

Running(r) == r \in DOMAIN job /\ job[r].stage \notin Ended
At(r, stage) == r \in DOMAIN job /\ job[r].stage = stage
Stored(r) == job[r].inb \in DOMAIN rows
Quiet == \A r \in DOMAIN job : ~Running(r)

Goto(r, stage) == job' = [job EXCEPT ![r].stage = stage]
End(r, how) == job' = [job EXCEPT ![r] = [inb |-> job[r].inb, stage |-> how]]

Nothing == [global |-> policy.global, inbounds |-> {}]

\* A new request whose copy of the row is row.
Start(r, op, i, row, oldTags, stage) ==
  /\ r \in Request \ DOMAIN job /\ op \in Offered
  /\ Serialised => Quiet
  /\ job' = Inserted(job, r,
       [op |-> op, inb |-> i, stage |-> stage, oldTags |-> oldTags,
        tag |-> row.tag, enabled |-> row.enabled, revision |-> row.desired,
        global |-> Nothing.global, hot |-> FALSE, desired |-> Nothing,
        previous |-> Nothing, strategy |-> "NOOP", doomed |-> FALSE,
        rolledBack |-> FALSE])

\* service.create and service.duplicate: the row is inserted at revision 1,
\* without clients and never applied.
InsertInbound(r, t, l, e) ==
  \E i \in Inbound \ (DOMAIN rows \cup retired) :
    LET row == [tag |-> t, listener |-> l, clients |-> {}, enabled |-> e,
                desired |-> 1, applied |-> 0, status |-> "PENDING"]
    IN  /\ rows' = Inserted(rows, i, row)
        /\ Start(r, "create", i, row, {}, "reread")

FreeTags == Tag \ TagsOf(DOMAIN rows)

Create(r) ==
  \E t \in FreeTags, l \in Listener, e \in BOOLEAN : InsertInbound(r, t, l, e)

\* The copy is disabled, under a generated tag.
Duplicate(r) ==
  \E t \in FreeTags, source \in DOMAIN rows :
    InsertInbound(r, t, rows[source].listener, FALSE)

\* The other operations on an inbound begin by reading its row.
Open(r) ==
  \E i \in DOMAIN rows, op \in Operation \ {"create", "assigned", "global"} :
    /\ Start(r, op, i, rows[i], {rows[i].tag}, "write")
    /\ UNCHANGED rows

\* applyAssignedClientChange: the sub-panel committed a client change and its
\* revision in one transaction; the row is read after it.
AssignedClientChange(r) ==
  \E i \in DOMAIN rows :
    LET cs == rows[i].clients IN
    /\ \E new \in WithNewClient(cs) \cup WithRotatedClient(cs) \cup WithRenamedClient(cs)
                   \cup WithToggledClient(cs) \cup WithoutClient(cs) :
         Rewrite(i, [rows[i] EXCEPT !.clients = new])
    /\ Start(r, "assigned", i, rows[i], {rows[i].tag}, "reread")

\* applyGlobalSettings: the first inbound of the instance is applied as it is.
ApplyGlobalSettings(r) ==
  \E i \in DOMAIN rows :
    /\ Start(r, "global", i, rows[i], {rows[i].tag}, "policy")
    /\ UNCHANGED rows

Submit(r) ==
  /\ \/ Create(r) \/ Duplicate(r) \/ Open(r)
     \/ AssignedClientChange(r) \/ ApplyGlobalSettings(r)
  /\ UNCHANGED <<retired, revisions, runtime, policy>>

-----------------------------------------------------------------------------
(* Writing the desired state *)

Writing(r, op) == At(r, "write") /\ job[r].op = op /\ Stored(r)

\* The PATCH is merged with the row read before it, so every column is
\* written.  UNIQUE(xray_instance_id, tag) refuses a tag in use (see Abort).
WriteUpdate(r) ==
  LET i == job[r].inb IN
  /\ Writing(r, "update")
  /\ \E t \in Tag \ TagsOf(DOMAIN rows \ {i}), l \in Listener, e \in BOOLEAN :
       Rewrite(i, [rows[i] EXCEPT !.tag = t, !.listener = l, !.enabled = e])
  /\ Goto(r, "reread")

WriteEnabled(r) ==
  LET i == job[r].inb IN
  /\ Writing(r, "setEnabled")
  /\ \E e \in BOOLEAN : Rewrite(i, [rows[i] EXCEPT !.enabled = e])
  /\ Goto(r, "reread")

\* createClient inserts the client and the new revision in one transaction.
WriteCreateClient(r) ==
  LET i == job[r].inb IN
  /\ Writing(r, "createClient")
  /\ \E new \in WithNewClient(rows[i].clients) :
       Rewrite(i, [rows[i] EXCEPT !.clients = new])
  /\ Goto(r, "reread")

\* rotateClient, deleteClient and deleteExpired change the clients first and
\* mark the row pending in a later statement.
WriteClients(r) ==
  LET i == job[r].inb IN
  \E op \in {"rotateClient", "deleteClient", "deleteExpired"} :
    /\ Writing(r, op)
    /\ \E new \in ClientEdits(op, rows[i].clients) :
         rows' = Updated(rows, i, [rows[i] EXCEPT !.clients = new])
    /\ Goto(r, "bump")

\* deleteExpired on an inbound without an expired client changes nothing.
NothingExpired(r) ==
  /\ Writing(r, "deleteExpired")
  /\ End(r, "done")
  /\ UNCHANGED rows

MarkPending(r) ==
  /\ At(r, "bump") /\ Stored(r)
  /\ Rewrite(job[r].inb, rows[job[r].inb])
  /\ Goto(r, "reread")

\* delete first disables the row, unless it was read as disabled.
WriteDelete(r) ==
  LET i == job[r].inb IN
  /\ Writing(r, "delete")
  /\ \/ /\ job[r].enabled
        /\ Rewrite(i, [rows[i] EXCEPT !.enabled = FALSE])
        /\ Goto(r, "reread")
     \/ /\ ~job[r].enabled
        /\ Goto(r, "policy")
        /\ UNCHANGED rows

\* The repository returns the row as it is after the write.  Only update,
\* setEnabled, deleteClient and delete keep the tag read before the write.
Reread(r) ==
  /\ At(r, "reread") /\ Stored(r)
  /\ LET row == rows[job[r].inb] IN
     job' = [job EXCEPT ![r].stage = "policy", ![r].tag = row.tag,
               ![r].enabled = row.enabled, ![r].revision = row.desired,
               ![r].oldTags =
                 IF job[r].op \in {"createClient", "rotateClient", "deleteExpired",
                                   "assigned"} THEN {row.tag} ELSE @]
  /\ UNCHANGED rows

Write(r) ==
  /\ \/ WriteUpdate(r) \/ WriteEnabled(r) \/ WriteCreateClient(r)
     \/ WriteClients(r) \/ NothingExpired(r) \/ MarkPending(r)
     \/ WriteDelete(r) \/ Reread(r)
  /\ UNCHANGED <<retired, revisions, runtime, policy>>

-----------------------------------------------------------------------------
(* The apply, up to the first runtime call (service.apply 198-231) *)

\* Capabilities and stored policy.  A runtime without the hot operation the
\* plan needs makes the apply as cold as a policy that forbids hot applies.
ReadPolicy(r) ==
  /\ At(r, "policy")
  /\ \E hot \in (IF policy.hotApply THEN BOOLEAN ELSE {FALSE}) :
       job' = [job EXCEPT ![r].stage = "build", ![r].hot = hot,
                 ![r].global = policy.global]
  /\ UNCHANGED <<rows, revisions>>

\* One inbound that does not build fails the apply of the whole instance.
Build(r) ==
  /\ At(r, "build")
  /\ \E lapsed \in BOOLEAN :
       LET broken == \E i \in EnabledIds : ~Builds(rows[i], lapsed) IN
       job' = [job EXCEPT
         ![r].stage = IF broken THEN "begin" ELSE "current",
         ![r].doomed = broken,
         ![r].desired = IF broken THEN @ ELSE BuildDocument(job[r].global)]
  /\ UNCHANGED <<rows, revisions>>

Plan(j) ==
  LET plan == ComputeApplyPlan(runtime, j.desired, j.oldTags, j.tag) IN
  IF plan \in {"HOT_CLIENTS", "HOT_INBOUND"} /\ ~j.hot THEN "RESTART_REQUIRED"
  ELSE plan

ReadCurrent(r) ==
  /\ At(r, "current")
  /\ \/ job' = [job EXCEPT ![r].stage = "begin", ![r].previous = runtime,
                 ![r].strategy = Plan(job[r])]
     \/ job' = [job EXCEPT ![r].stage = "begin", ![r].doomed = TRUE]
  /\ UNCHANGED <<rows, revisions>>

\* beginApply, first statement: the foreign key needs the inbound's row.
BeginApply(r) ==
  /\ At(r, "begin") /\ Stored(r)
  /\ revisions' = Inserted(revisions, r,
       [inb |-> job[r].inb, revision |-> job[r].revision, backup |-> FALSE,
        status |-> "VALIDATING"])
  /\ Goto(r, "applying")
  /\ UNCHANGED rows

\* beginApply, second statement.
MarkApplying(r) ==
  /\ At(r, "applying")
  /\ rows' = Updated(rows, job[r].inb,
                     [rows[job[r].inb] EXCEPT !.status = "APPLYING"])
  /\ Goto(r, IF job[r].doomed THEN "failure" ELSE "validate")
  /\ UNCHANGED revisions

\* Mutant: the config test is moved out of the try block.
ValidateOutside(r) ==
  /\ At(r, "validate")
  /\ Goto(r, "backup") \/ End(r, "aborted")
  /\ UNCHANGED <<rows, revisions>>

ValidateConfig(r) ==
  /\ At(r, "validate")
  /\ Goto(r, "backup") \/ Goto(r, "failure")
  /\ UNCHANGED <<rows, revisions>>

\* saveBackup and attachBackup.
Backup(r) ==
  /\ At(r, "backup")
  /\ \/ /\ revisions' = Updated(revisions, r,
            [revisions[r] EXCEPT !.backup = TRUE, !.status = "APPLYING"])
        /\ Goto(r, FirstCall(job[r]))
     \/ /\ Goto(r, "failure")
        /\ UNCHANGED revisions
  /\ UNCHANGED rows

Prepare(r) ==
  /\ \/ ReadPolicy(r) \/ Build(r) \/ ReadCurrent(r) \/ BeginApply(r)
     \/ MarkApplying(r) \/ ValidateConfig(r) \/ Backup(r)
  /\ UNCHANGED <<retired, runtime, policy>>

-----------------------------------------------------------------------------
(* The runtime *)

\* A call that would leave the runtime as after, or throw on the way there.
Call(r, after, partly, next) ==
  /\ \/ runtime' = after /\ Goto(r, next)
     \/ runtime' \in {runtime, after} \cup partly /\ Goto(r, "restore")

\* A call the runtime refuses.
Refused(r, left) ==
  /\ runtime' = left
  /\ Goto(r, "restore")

\* The users of the tagged entry, without those of emails and with users.
EditUsers(tags, emails, users) ==
  [runtime EXCEPT !.inbounds =
     {IF e.tag \in tags
        THEN [e EXCEPT !.users = {u \in @ : u.email \notin emails} \cup users]
        ELSE e : e \in @}]

Carries(tags) == WithTag(runtime, tags) # {}

HotRemoveUsers(r) ==
  LET j == job[r] IN
  /\ At(r, "hotRemove")
  /\ IF Carries(j.oldTags)
     THEN Call(r, EditUsers(j.oldTags, RemovedEmails(j), {}), {},
               IF AddedUsers(j) # {} THEN "hotAdd" ELSE "health")
     ELSE Refused(r, runtime)

HotAddUsers(r) ==
  LET j == job[r] IN
  /\ At(r, "hotAdd")
  /\ IF Carries({j.tag})
     THEN Call(r, EditUsers({j.tag}, {}, AddedUsers(j)), {}, "health")
     ELSE Refused(r, runtime)

\* The old entry is removed, then the new one, if there is one, is added: a
\* running instance never carries two inbounds of one tag.
HotReplaceInbound(r) ==
  LET j == job[r]
      new == WithTag(j.desired, {j.tag})
      without == [runtime EXCEPT !.inbounds = {e \in @ : e.tag \notin j.oldTags}]
  IN
  /\ At(r, "hotReplace")
  /\ IF new # {} /\ WithTag(without, {j.tag}) # {}
     THEN Refused(r, without)
     ELSE Call(r, [without EXCEPT !.inbounds = @ \cup new], {without}, "health")

RestartWithConfig(r) ==
  /\ At(r, "restart")
  /\ Call(r, job[r].desired, {}, "health")

\* A failed apply is rolled back unless its plan was NOOP.
Unwind(r) == Goto(r, IF job[r].strategy = "NOOP" THEN "failure" ELSE "restore")

HealthCheck(r) ==
  /\ At(r, "health")
  /\ Goto(r, "success") \/ Unwind(r)
  /\ UNCHANGED runtime

\* Mutant: an error of restoreConfig is swallowed.
RestoreBestEffort(r) ==
  /\ At(r, "restore")
  /\ runtime' \in {runtime, job[r].previous}
  /\ Goto(r, "restoreHealth")

RestoreConfig(r) ==
  /\ At(r, "restore")
  /\ \/ runtime' = job[r].previous /\ Goto(r, "restoreHealth")
     \/ runtime' \in {runtime, job[r].previous} /\ Goto(r, "failure")

RestoreHealthCheck(r) ==
  /\ At(r, "restoreHealth")
  /\ \E ok \in BOOLEAN :
       job' = [job EXCEPT ![r].stage = "failure", ![r].rolledBack = ok]
  /\ UNCHANGED runtime

Perform(r) ==
  /\ \/ HotRemoveUsers(r) \/ HotAddUsers(r) \/ HotReplaceInbound(r)
     \/ RestartWithConfig(r) \/ HealthCheck(r) \/ RestoreConfig(r)
     \/ RestoreHealthCheck(r)
  /\ UNCHANGED <<rows, retired, revisions, policy>>

-----------------------------------------------------------------------------
(* Recording the result *)

Record(r, status) ==
  revisions' = Updated(revisions, r, [revisions[r] EXCEPT !.status = status])

\* The row takes the revision the request read, whatever it holds by now.
\* The transaction may fail, and then the apply is unwound.
MarkApplySuccess(r) ==
  LET i == job[r].inb IN
  /\ At(r, "success")
  /\ \/ /\ Record(r, "APPLIED")
        /\ rows' = Updated(rows, i,
             [rows[i] EXCEPT !.status = "APPLIED", !.applied = job[r].revision])
        /\ IF job[r].op = "delete" THEN Goto(r, "remove") ELSE End(r, "done")
     \/ /\ Unwind(r)
        /\ UNCHANGED <<rows, revisions>>
  /\ UNCHANGED retired

\* Mutant: a failure is recorded in the revision only.
MarkRevisionFailure(r) ==
  /\ At(r, "failure")
  /\ Record(r, IF job[r].rolledBack THEN "ROLLED_BACK" ELSE "FAILED")
  /\ End(r, "done")
  /\ UNCHANGED <<rows, retired>>

MarkApplyFailure(r) ==
  LET i == job[r].inb
      status == IF job[r].rolledBack THEN "ROLLED_BACK" ELSE "FAILED"
  IN
  /\ At(r, "failure")
  /\ UNCHANGED retired
  /\ Record(r, status)
  /\ rows' = Updated(rows, i, [rows[i] EXCEPT !.status = status])
  /\ End(r, "done")

\* delete removes the row once its apply is APPLIED; the revisions cascade.
Remove(r) ==
  LET i == job[r].inb IN
  /\ At(r, "remove") /\ Stored(r)
  /\ rows' = [k \in DOMAIN rows \ {i} |-> rows[k]]
  /\ revisions' = [q \in {p \in DOMAIN revisions : revisions[p].inb # i} |->
                     revisions[q]]
  /\ retired' = retired \cup {i}
  /\ End(r, "done")

-----------------------------------------------------------------------------
(* What ends a request early, and the rest of the world *)

\* An answer 4xx or 5xx from outside the try blocks: the input or a UNIQUE
\* constraint is violated, the runtime or the policy cannot be read, or the
\* row was deleted meanwhile.
Abort(r) ==
  /\ \/ At(r, "write") \/ At(r, "policy")
     \/ /\ \E s \in {"bump", "reread", "begin", "remove"} : At(r, s)
        /\ ~Stored(r)
  /\ End(r, "aborted")
  /\ UNCHANGED <<rows, retired, revisions>>

\* The API process dies: nothing resumes the request.
Crash(r) ==
  /\ Running(r) /\ job[r].stage \in CrashStages
  /\ End(r, "crashed")
  /\ UNCHANGED <<rows, retired, revisions, runtime, policy>>

\* The expiry of a client passes; no row is written.
ClientExpires(i) ==
  /\ i \in DOMAIN rows
  /\ \E c \in rows[i].clients :
       /\ c.live
       /\ rows' = [rows EXCEPT ![i].clients = (@ \ {c}) \cup {[c EXCEPT !.live = FALSE]}]
  /\ UNCHANGED <<retired, revisions, runtime, policy, job>>

\* The settings page stores another Xray policy.
SavePolicy ==
  /\ policy' \in Policy
  /\ UNCHANGED <<rows, retired, revisions, runtime, job>>

-----------------------------------------------------------------------------
\* A panel at rest: every stored row was created, then edited or given a
\* client, and is applied; the instance runs the document of the rows.
AppliedRow ==
  {row \in [tag : Tag, listener : Listener,
            clients : {{}} \cup {{c} : c \in Client}, enabled : BOOLEAN,
            desired : {2}, applied : {2}, status : {"APPLIED"}] : Builds(row, FALSE)}

Init ==
  /\ \E stored \in SUBSET Inbound : rows \in [stored -> AppliedRow]
  /\ \A i, k \in DOMAIN rows : i # k => rows[i].tag # rows[k].tag
  /\ policy \in Policy
  /\ runtime = BuildDocument(policy.global)
  /\ retired = {}
  /\ revisions = [r \in {} |-> {}]
  /\ job = [r \in {} |-> {}]

Conclude(r) ==
  /\ \/ MarkApplySuccess(r) \/ MarkApplyFailure(r) \/ Remove(r) \/ Abort(r)
  /\ UNCHANGED <<runtime, policy>>

\* The code of a request that is being served.
Proceed(r) == Write(r) \/ Prepare(r) \/ Perform(r) \/ Conclude(r)

Next == \/ \E r \in Request : Submit(r) \/ Proceed(r) \/ Crash(r)
        \/ \E i \in Inbound : ClientExpires(i)
        \/ SavePolicy

Spec == Init /\ [][Next]_vars

\* Node runs the continuations of a request it serves: none is forgotten.
FairSpec == Spec /\ \A r \in Request : WF_vars(Proceed(r))

-----------------------------------------------------------------------------
(* Properties *)

RowsOK == DOMAIN rows \subseteq Inbound /\ rows \in [DOMAIN rows -> Row]
RevisionsOK ==
  DOMAIN revisions \subseteq Request /\ revisions \in [DOMAIN revisions -> Revision]
JobOK == DOMAIN job \subseteq Request /\ job \in [DOMAIN job -> Job \cup EndedJob]

\* Types of the tables, of the runtime and of the requests.
TypeOK ==
  /\ RowsOK /\ RevisionsOK /\ JobOK
  /\ retired \subseteq Inbound
  /\ runtime \in Document
  /\ policy \in Policy

\* However requests interleave, the panel never says that a revision was
\* applied which the row has not reached: markApplySuccess writes the number
\* that was read back after the write, maybe a stale one, never a later one.
AppliedNotAhead == \A i \in DOMAIN rows : rows[i].applied =< rows[i].desired

\* A request that may touch the runtime, or that reports on what it did
\* there, has its backup attached to its revision first, and the revision
\* says so; only the deletion of the inbound takes the revision away.
BackedUp ==
  \A r \in DOMAIN job :
    (/\ job[r].stage \in Mutating \cup {"health", "success", "restore", "restoreHealth"}
     /\ r \in DOMAIN revisions)
      => revisions[r].backup /\ revisions[r].status = "APPLYING"

\* A row is left PENDING or APPLYING only while a request that wrote it is
\* still at work, or after one that was aborted or died: when all requests
\* end well, the last writer of the status leaves it settled.
UnsettledIsExplained ==
  \A i \in DOMAIN rows :
    rows[i].status \notin Settled =>
      \E r \in DOMAIN job : job[r].inb = i /\ job[r].stage \notin {"write", "done"}

\* Between requests, APPLIED stands for the latest desired revision.
AppliedIsCurrent ==
  Quiet => \A i \in DOMAIN rows :
    rows[i].status = "APPLIED" => rows[i].applied = rows[i].desired

\* The clients that the list of the inbounds counts as active.
ActiveClients(i) == {c \in rows[i].clients : c.live}

\* An inbound in that list.
Summary(i) ==
  [applyStatus |-> rows[i].status, desiredRevision |-> rows[i].desired,
   appliedRevision |-> rows[i].applied, clients |-> rows[i].clients,
   activeClients |-> ActiveClients(i)]

\* The instance serves row i as it is stored.  A client that expired since
\* the last apply may or may not still be there: no job removes it.
Serves(i) ==
  LET Names(u, c) == u.email = c.email /\ u.credential = c.credential IN
  \E e \in WithTag(runtime, {rows[i].tag}) :
    /\ e.listener = rows[i].listener
    /\ \A u \in e.users : \E c \in Summary(i).clients : Names(u, c)
    /\ \A c \in Summary(i).activeClients : \E u \in e.users : Names(u, c)

\* The list says that the inbound is applied.
SaidApplied(i) ==
  Summary(i).applyStatus = "APPLIED" /\ Summary(i).appliedRevision = Summary(i).desiredRevision

\* Between requests, an enabled inbound that the panel calls applied at its
\* desired revision is served exactly as it is stored.
AppliedIsServed ==
  Quiet => \A i \in EnabledIds : SaidApplied(i) => Serves(i)

\* A request that disables an inbound and answers APPLIED leaves nothing on the
\* instance under the tag of that inbound, and interrupts none of the enabled
\* ones: those that were served when it planned are served.  Its plan, hot or
\* cold, met whatever document failed applies had left.  An entry they left
\* under a tag that no row has is not spoken of: it may stay.
DisablingTakesOneOut ==
  [][\A r \in Request :
       (/\ At(r, "success") /\ At(r, "done")'
        /\ job[r].op = "setEnabled" /\ ~job[r].enabled)
         => /\ ~Carries({rows[job[r].inb].tag})
            /\ \A i \in EnabledIds :
                 WithTag(job[r].previous, {rows[i].tag}) # {} => Carries({rows[i].tag})]_vars

\* A revision that ends ROLLED_BACK leaves the instance on the very document
\* that was backed up for it.
RollbackRestores ==
  [][\A r \in DOMAIN revisions \cap DOMAIN revisions' :
       (revisions'[r].status = "ROLLED_BACK" /\ revisions[r].status # "ROLLED_BACK")
         => runtime = job[r].previous]_vars

\* The result of every apply is recorded: a revision that was begun ends
\* APPLIED, FAILED or ROLLED_BACK, unless its inbound is deleted or the process
\* dies.
EveryRevisionEnds ==
  \A r \in Request :
    [](r \in DOMAIN revisions =>
        <>(r \in DOMAIN revisions =>
             revisions[r].status \in Settled \/ job[r].stage = "crashed"))

=============================================================================
