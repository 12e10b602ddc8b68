--------------------------- MODULE SafeApplyProofs ---------------------------
(* Theorems about SafeApply, for every value of its constants.              *)
EXTENDS SafeApply, TLAPS

-----------------------------------------------------------------------------
(* Tables: functions whose domain grows and shrinks *)

\* An UPDATE keeps the keys of a table, and the type of its records if the
\* new record has it.
LEMMA UpdatedType ==
  ASSUME NEW S, NEW table, table \in [DOMAIN table -> S], NEW key, NEW record,
         key \in DOMAIN table => record \in S
  PROVE  /\ DOMAIN Updated(table, key, record) = DOMAIN table
         /\ Updated(table, key, record) \in [DOMAIN table -> S]
  BY DEF Updated

\* A request in a stage of the pipeline has all the fields of a Job.
LEMMA AtIsJob ==
  ASSUME JobOK, NEW r, NEW stage \in Stage, At(r, stage)
  PROVE  job[r] \in Job /\ r \in DOMAIN job /\ r \in Request
  BY DEF JobOK, At, Job, EndedJob, Ended, Stage, Mutating

\* A request that moves on stays a Job.
LEMMA GotoType ==
  ASSUME JobOK, NEW r, r \in DOMAIN job, job[r] \in Job,
         NEW stage \in Stage, Goto(r, stage)
  PROVE  JobOK'
  BY DEF JobOK, Goto, Job

\* A request that ends keeps the identifier of its inbound.
LEMMA EndType ==
  ASSUME JobOK, NEW r, r \in DOMAIN job, job[r].inb \in Inbound,
         NEW how \in Ended, End(r, how)
  PROVE  JobOK'
  BY DEF JobOK, End, EndedJob

\* A document with no inbound, and one built from the rows, is a document.
LEMMA DocumentType ==
  ASSUME RowsOK, policy \in Policy, NEW global \in Global
  PROVE  Nothing \in Document /\ BuildDocument(global) \in Document
<1>1. policy.global \in Global
  BY ConstantsAssumption
<1>2. Nothing \in Document
  BY <1>1 DEF Nothing, Document
<1>3. ASSUME NEW i \in DOMAIN rows PROVE BuildEntry(rows[i]) \in Entry
  BY <1>3 DEF RowsOK, Row, BuildEntry, Entry, Client, User
<1>4. BuildDocument(global) \in Document
  BY <1>3 DEF BuildDocument, Document, EnabledIds
<1> QED BY <1>2, <1>4

-----------------------------------------------------------------------------
(* Type correctness *)

\* A new request is well typed when the row it copies is.
LEMMA StartType ==
  ASSUME TypeOK, NEW r \in Request, NEW op \in Operation, NEW i \in Inbound,
         NEW row \in Row, NEW oldTags \in SUBSET Tag, NEW stage \in Stage,
         Start(r, op, i, row, oldTags, stage)
  PROVE  JobOK'
<1> DEFINE new ==
       [op |-> op, inb |-> i, stage |-> stage, oldTags |-> oldTags,
        tag |-> row.tag, enabled |-> row.enabled, revision |-> row.desired,
        global |-> Nothing.global, hot |-> FALSE, desired |-> Nothing,
        previous |-> Nothing, strategy |-> "NOOP", doomed |-> FALSE,
        rolledBack |-> FALSE]
<1>1. Nothing \in Document /\ Nothing.global \in Global
  BY DocumentType, ConstantsAssumption DEF TypeOK, Document
<1>2. new \in Job
  BY <1>1 DEF Job, Row, Strategy
<1>3. job' = Inserted(job, r, new)
  BY DEF Start
<1> HIDE DEF new
<1> QED
  BY <1>2, <1>3 DEF TypeOK, JobOK, Inserted

\* A pending row is a row.
LEMMA PendingType ==
  ASSUME NEW row \in Row PROVE Pending(row) \in Row
<1>1. row.desired + 1 \in Nat
  BY DEF Row
<1> QED BY <1>1 DEF Pending, Row

LEMMA RewriteType ==
  ASSUME RowsOK, NEW i, NEW row \in Row, Rewrite(i, row)
  PROVE  RowsOK' /\ DOMAIN rows' = DOMAIN rows
<1>1. Pending(row) \in Row
  BY PendingType
<1>2. /\ DOMAIN Updated(rows, i, Pending(row)) = DOMAIN rows
      /\ Updated(rows, i, Pending(row)) \in [DOMAIN rows -> Row]
  BY <1>1, UpdatedType DEF RowsOK
<1> QED BY <1>2 DEF Rewrite, RowsOK

LEMMA InsertInboundType ==
  ASSUME TypeOK, NEW r \in Request, NEW t \in Tag, NEW l \in Listener,
         NEW e \in BOOLEAN, InsertInbound(r, t, l, e)
  PROVE  RowsOK' /\ JobOK'
<1> DEFINE row == [tag |-> t, listener |-> l, clients |-> {}, enabled |-> e,
                   desired |-> 1, applied |-> 0, status |-> "PENDING"]
<1>1. row \in Row
  BY DEF Row
<1>2. PICK i \in Inbound \ (DOMAIN rows \cup retired) :
        /\ rows' = Inserted(rows, i, row)
        /\ Start(r, "create", i, row, {}, "reread")
  BY DEF InsertInbound
<1> HIDE DEF row
<1>3. /\ DOMAIN rows' = DOMAIN rows \cup {i}
      /\ rows' \in [DOMAIN rows \cup {i} -> Row]
  BY <1>1, <1>2 DEF Inserted, TypeOK, RowsOK
<1>4. RowsOK'
  BY <1>3 DEF TypeOK, RowsOK
<1>5. JobOK'
  BY <1>1, <1>2, StartType DEF Operation, Stage
<1> QED BY <1>4, <1>5

\* Whatever a client operation turns a set of clients into is a set of clients.
LEMMA EditsType ==
  ASSUME NEW cs \in SUBSET Client
  PROVE  /\ WithNewClient(cs) \subseteq SUBSET Client
         /\ WithRotatedClient(cs) \subseteq SUBSET Client
         /\ WithRenamedClient(cs) \subseteq SUBSET Client
         /\ WithToggledClient(cs) \subseteq SUBSET Client
         /\ WithoutClient(cs) \subseteq SUBSET Client
         /\ WithoutExpired(cs) \subseteq SUBSET Client
<1>1. WithNewClient(cs) \subseteq SUBSET Client
  BY DEF WithNewClient, Newcomers
<1>2. ASSUME NEW c \in cs, NEW k \in Credential
      PROVE  [c EXCEPT !.credential = k] \in Client
  BY DEF Client
<1>3. WithRotatedClient(cs) \subseteq SUBSET Client
  BY <1>2 DEF WithRotatedClient
<1>4. ASSUME NEW c \in cs PROVE [c EXCEPT !.live = ~@] \in Client
  BY DEF Client
<1>5. WithToggledClient(cs) \subseteq SUBSET Client
  BY <1>4 DEF WithToggledClient
<1>6. WithoutClient(cs) \subseteq SUBSET Client
  BY DEF WithoutClient
<1>7. WithoutExpired(cs) \subseteq SUBSET Client
  BY DEF WithoutExpired
<1>8. ASSUME NEW c \in cs, NEW d \in Newcomers(cs) PROVE [d EXCEPT !.live = c.live] \in Client
  BY DEF Newcomers, Client
<1>9. WithRenamedClient(cs) \subseteq SUBSET Client
  BY <1>8 DEF WithRenamedClient
<1> QED BY <1>1, <1>3, <1>5, <1>6, <1>7, <1>9

LEMMA SubmitType ==
  ASSUME TypeOK, NEW r \in Request, Submit(r)
  PROVE  TypeOK'
<1> USE DEF TypeOK
<1>0. RevisionsOK' /\ retired' \subseteq Inbound /\ runtime' \in Document /\ policy' \in Policy
  BY DEF Submit, RevisionsOK
<1>1. CASE Create(r)
  BY <1>0, <1>1, InsertInboundType DEF Create, FreeTags
<1>2. CASE Duplicate(r)
  <2>1. PICK t \in FreeTags, source \in DOMAIN rows :
          InsertInbound(r, t, rows[source].listener, FALSE)
    BY <1>2 DEF Duplicate
  <2>2. rows[source].listener \in Listener
    BY DEF RowsOK, Row
  <2> QED BY <1>0, <2>1, <2>2, InsertInboundType DEF FreeTags
<1>3. CASE Open(r)
  <2>1. PICK i \in DOMAIN rows, op \in Operation :
          /\ Start(r, op, i, rows[i], {rows[i].tag}, "write")
          /\ UNCHANGED rows
    BY <1>3 DEF Open
  <2>2. i \in Inbound /\ rows[i] \in Row /\ rows[i].tag \in Tag
    BY DEF RowsOK, Row
  <2>3. JobOK'
    BY <2>1, <2>2, StartType DEF Stage
  <2>4. RowsOK'
    BY <2>1 DEF RowsOK
  <2> QED BY <1>0, <2>3, <2>4
<1>4. CASE AssignedClientChange(r)
  <2>1. PICK i \in DOMAIN rows :
          /\ \E new \in WithNewClient(rows[i].clients) \cup WithRotatedClient(rows[i].clients)
                   \cup WithRenamedClient(rows[i].clients)
                   \cup WithToggledClient(rows[i].clients) \cup WithoutClient(rows[i].clients) :
               Rewrite(i, [rows[i] EXCEPT !.clients = new])
          /\ Start(r, "assigned", i, rows[i], {rows[i].tag}, "reread")
    BY <1>4 DEF AssignedClientChange
  <2>2. i \in Inbound /\ rows[i] \in Row /\ rows[i].tag \in Tag
        /\ rows[i].clients \in SUBSET Client
    BY DEF RowsOK, Row
  <2>3. PICK new \in SUBSET Client : Rewrite(i, [rows[i] EXCEPT !.clients = new])
    BY <2>1, <2>2, EditsType
  <2>4. [rows[i] EXCEPT !.clients = new] \in Row
    BY <2>2, <2>3 DEF Row
  <2>5. RowsOK'
    BY <2>3, <2>4, RewriteType
  <2>6. JobOK'
    BY <2>1, <2>2, StartType DEF Stage, Operation
  <2> QED BY <1>0, <2>5, <2>6
<1>5. CASE ApplyGlobalSettings(r)
  <2>1. PICK i \in DOMAIN rows :
          /\ Start(r, "global", i, rows[i], {rows[i].tag}, "policy")
          /\ UNCHANGED rows
    BY <1>5 DEF ApplyGlobalSettings
  <2>2. i \in Inbound /\ rows[i] \in Row /\ rows[i].tag \in Tag
    BY DEF RowsOK, Row
  <2>3. JobOK'
    BY <2>1, <2>2, StartType DEF Stage, Operation
  <2>4. RowsOK'
    BY <2>1 DEF RowsOK
  <2> QED BY <1>0, <2>3, <2>4
<1> QED BY <1>1, <1>2, <1>3, <1>4, <1>5 DEF Submit

\* The row a request at work on a stored inbound writes or reads.
LEMMA StoredRow ==
  ASSUME TypeOK, NEW r, r \in DOMAIN job, Stored(r)
  PROVE  /\ job[r].inb \in DOMAIN rows
         /\ rows[job[r].inb] \in Row
         /\ rows[job[r].inb].clients \in SUBSET Client
  BY DEF TypeOK, RowsOK, Stored, Row

LEMMA WriteType ==
  ASSUME TypeOK, NEW r \in Request, Write(r)
  PROVE  TypeOK'
<1> USE DEF TypeOK
<1> DEFINE i == job[r].inb
<1>0. RevisionsOK' /\ retired' \subseteq Inbound /\ runtime' \in Document /\ policy' \in Policy
  BY DEF Write, RevisionsOK
<1>1. CASE WriteUpdate(r)
  <2>1. job[r] \in Job /\ r \in DOMAIN job /\ rows[i] \in Row
    BY <1>1, AtIsJob, StoredRow DEF WriteUpdate, Writing, Stage
  <2>2. PICK t \in Tag, l \in Listener, e \in BOOLEAN :
          Rewrite(i, [rows[i] EXCEPT !.tag = t, !.listener = l, !.enabled = e])
    BY <1>1 DEF WriteUpdate
  <2>3. [rows[i] EXCEPT !.tag = t, !.listener = l, !.enabled = e] \in Row
    BY <2>1 DEF Row
  <2>4. RowsOK'
    BY <2>2, <2>3, RewriteType
  <2>5. JobOK'
    BY <1>1, <2>1, GotoType DEF WriteUpdate, Stage
  <2> QED BY <1>0, <2>4, <2>5
<1>2. CASE WriteEnabled(r)
  <2>1. job[r] \in Job /\ r \in DOMAIN job /\ rows[i] \in Row
    BY <1>2, AtIsJob, StoredRow DEF WriteEnabled, Writing, Stage
  <2>2. PICK e \in BOOLEAN : Rewrite(i, [rows[i] EXCEPT !.enabled = e])
    BY <1>2 DEF WriteEnabled
  <2>3. [rows[i] EXCEPT !.enabled = e] \in Row
    BY <2>1 DEF Row
  <2>4. RowsOK'
    BY <2>2, <2>3, RewriteType
  <2>5. JobOK'
    BY <1>2, <2>1, GotoType DEF WriteEnabled, Stage
  <2> QED BY <1>0, <2>4, <2>5
<1>3. CASE WriteCreateClient(r)
  <2>1. /\ job[r] \in Job /\ r \in DOMAIN job /\ rows[i] \in Row
        /\ rows[i].clients \in SUBSET Client
    BY <1>3, AtIsJob, StoredRow DEF WriteCreateClient, Writing, Stage
  <2>2. PICK new \in SUBSET Client : Rewrite(i, [rows[i] EXCEPT !.clients = new])
    BY <1>3, <2>1, EditsType DEF WriteCreateClient
  <2>3. [rows[i] EXCEPT !.clients = new] \in Row
    BY <2>1, <2>2 DEF Row
  <2>4. RowsOK'
    BY <2>2, <2>3, RewriteType
  <2>5. JobOK'
    BY <1>3, <2>1, GotoType DEF WriteCreateClient, Stage
  <2> QED BY <1>0, <2>4, <2>5
<1>4. CASE WriteClients(r)
  <2>1. PICK op \in {"rotateClient", "deleteClient", "deleteExpired"} :
          /\ Writing(r, op)
          /\ \E new \in ClientEdits(op, rows[i].clients) :
               rows' = Updated(rows, i, [rows[i] EXCEPT !.clients = new])
          /\ Goto(r, "bump")
    BY <1>4 DEF WriteClients
  <2>2. /\ job[r] \in Job /\ r \in DOMAIN job /\ rows[i] \in Row
        /\ rows[i].clients \in SUBSET Client
    BY <2>1, AtIsJob, StoredRow DEF Writing, Stage
  <2>3. ClientEdits(op, rows[i].clients) \subseteq SUBSET Client
    BY <2>1, <2>2, EditsType DEF ClientEdits
  <2>4. PICK new \in SUBSET Client :
          rows' = Updated(rows, i, [rows[i] EXCEPT !.clients = new])
    BY <2>1, <2>3
  <2>5. [rows[i] EXCEPT !.clients = new] \in Row
    BY <2>2, <2>4 DEF Row
  <2>6. RowsOK'
    BY <2>4, <2>5 DEF Updated, RowsOK
  <2>7. JobOK'
    BY <2>1, <2>2, GotoType DEF Stage
  <2> QED BY <1>0, <2>6, <2>7
<1>5. CASE NothingExpired(r)
  <2>1. job[r] \in Job /\ r \in DOMAIN job
    BY <1>5, AtIsJob DEF NothingExpired, Writing, Stage
  <2>2. JobOK'
    BY <1>5, <2>1, EndType DEF NothingExpired, Ended, Job
  <2>3. RowsOK'
    BY <1>5 DEF NothingExpired, RowsOK
  <2> QED BY <1>0, <2>2, <2>3
<1>6. CASE MarkPending(r)
  <2>1. job[r] \in Job /\ r \in DOMAIN job /\ rows[i] \in Row
    BY <1>6, AtIsJob, StoredRow DEF MarkPending, Stage
  <2>2. RowsOK'
    BY <1>6, <2>1, RewriteType DEF MarkPending
  <2>3. JobOK'
    BY <1>6, <2>1, GotoType DEF MarkPending, Stage
  <2> QED BY <1>0, <2>2, <2>3
<1>7. CASE WriteDelete(r)
  <2>1. job[r] \in Job /\ r \in DOMAIN job /\ rows[i] \in Row
    BY <1>7, AtIsJob, StoredRow DEF WriteDelete, Writing, Stage
  <2>2. [rows[i] EXCEPT !.enabled = FALSE] \in Row
    BY <2>1 DEF Row
  <2>3. RowsOK'
    <3>1. CASE Rewrite(i, [rows[i] EXCEPT !.enabled = FALSE])
      BY <2>2, <3>1, RewriteType
    <3>2. CASE UNCHANGED rows
      BY <3>2 DEF RowsOK
    <3> QED BY <1>7, <3>1, <3>2 DEF WriteDelete
  <2>4. JobOK'
    BY <1>7, <2>1, GotoType DEF WriteDelete, Stage
  <2> QED BY <1>0, <2>3, <2>4
<1>8. CASE Reread(r)
  <2>1. job[r] \in Job /\ r \in DOMAIN job /\ rows[i] \in Row
    BY <1>8, AtIsJob, StoredRow DEF Reread, Stage
  <2>2. PICK oldTags \in SUBSET Tag :
          job' = [job EXCEPT ![r].stage = "policy", ![r].tag = rows[i].tag,
                    ![r].enabled = rows[i].enabled, ![r].revision = rows[i].desired,
                    ![r].oldTags = oldTags]
    <3>1. rows[i].tag \in Tag /\ job[r].oldTags \in SUBSET Tag
      BY <2>1 DEF Row, Job
    <3> QED BY <1>8, <3>1 DEF Reread
  <2>3. JobOK'
    BY <2>1, <2>2 DEF JobOK, Job, Row, Stage
  <2>4. RowsOK'
    BY <1>8 DEF Reread, RowsOK
  <2> QED BY <1>0, <2>3, <2>4
<1> QED BY <1>1, <1>2, <1>3, <1>4, <1>5, <1>6, <1>7, <1>8 DEF Write

\* The plan of an apply is one of the four strategies.
LEMMA PlanType ==
  ASSUME NEW j PROVE Plan(j) \in Strategy
<1>1. ComputeApplyPlan(runtime, j.desired, j.oldTags, j.tag) \in Strategy
  BY DEF ComputeApplyPlan, Strategy
<1> QED BY <1>1 DEF Plan, Strategy

\* The first runtime call of a plan is a stage that may touch the runtime.
LEMMA FirstCallStage ==
  ASSUME NEW j, j.strategy \in Strategy
  PROVE  FirstCall(j) \in Mutating \cup {"health"}
  BY DEF FirstCall, Strategy, Mutating

LEMMA PrepareType ==
  ASSUME TypeOK, NEW r \in Request, Prepare(r)
  PROVE  TypeOK'
<1> USE DEF TypeOK
<1> DEFINE i == job[r].inb
<1>0. retired' \subseteq Inbound /\ runtime' \in Document /\ policy' \in Policy
  BY DEF Prepare
<1>1. CASE ReadPolicy(r)
  <2>1. job[r] \in Job /\ r \in DOMAIN job
    BY <1>1, AtIsJob DEF ReadPolicy, Stage
  <2>2. policy.global \in Global
    BY ConstantsAssumption
  <2>3. PICK hot \in BOOLEAN :
          job' = [job EXCEPT ![r].stage = "build", ![r].hot = hot,
                    ![r].global = policy.global]
    BY <1>1 DEF ReadPolicy
  <2>4. JobOK'
    BY <2>1, <2>2, <2>3 DEF JobOK, Job, Stage
  <2>5. RowsOK' /\ RevisionsOK'
    BY <1>1 DEF ReadPolicy, RowsOK, RevisionsOK
  <2> QED BY <1>0, <2>4, <2>5
<1>2. CASE Build(r)
  <2>1. job[r] \in Job /\ r \in DOMAIN job
    BY <1>2, AtIsJob DEF Build, Stage
  <2>2. job[r].desired \in Document /\ BuildDocument(job[r].global) \in Document
    BY <2>1, DocumentType DEF Job
  <2>3. PICK stage \in Stage, broken \in BOOLEAN, document \in Document :
          job' = [job EXCEPT ![r].stage = stage, ![r].doomed = broken,
                    ![r].desired = document]
    BY <1>2, <2>2 DEF Build, Stage
  <2>4. JobOK'
    BY <2>1, <2>3 DEF JobOK, Job
  <2>5. RowsOK' /\ RevisionsOK'
    BY <1>2 DEF Build, RowsOK, RevisionsOK
  <2> QED BY <1>0, <2>4, <2>5
<1>3. CASE ReadCurrent(r)
  <2>1. job[r] \in Job /\ r \in DOMAIN job
    BY <1>3, AtIsJob DEF ReadCurrent, Stage
  <2>2. JobOK'
    <3>1. CASE job' = [job EXCEPT ![r].stage = "begin", ![r].previous = runtime,
                         ![r].strategy = Plan(job[r])]
      <4>1. Plan(job[r]) \in Strategy
        BY PlanType
      <4> QED BY <2>1, <3>1, <4>1 DEF JobOK, Job, Stage
    <3>2. CASE job' = [job EXCEPT ![r].stage = "begin", ![r].doomed = TRUE]
      BY <2>1, <3>2 DEF JobOK, Job, Stage
    <3> QED BY <1>3, <3>1, <3>2 DEF ReadCurrent
  <2>3. RowsOK' /\ RevisionsOK'
    BY <1>3 DEF ReadCurrent, RowsOK, RevisionsOK
  <2> QED BY <1>0, <2>2, <2>3
<1>4. CASE BeginApply(r)
  <2>1. job[r] \in Job /\ r \in DOMAIN job
    BY <1>4, AtIsJob DEF BeginApply, Stage
  <2> DEFINE new == [inb |-> i, revision |-> job[r].revision, backup |-> FALSE,
                     status |-> "VALIDATING"]
  <2>2. new \in Revision
    BY <2>1 DEF Revision, Job
  <2>3. revisions' = Inserted(revisions, r, new)
    BY <1>4 DEF BeginApply
  <2> HIDE DEF new
  <2>4. RevisionsOK'
    BY <2>2, <2>3 DEF RevisionsOK, Inserted
  <2>5. JobOK'
    BY <1>4, <2>1, GotoType DEF BeginApply, Stage
  <2>6. RowsOK'
    BY <1>4 DEF BeginApply, RowsOK
  <2> QED BY <1>0, <2>4, <2>5, <2>6
<1>5. CASE MarkApplying(r)
  <2>1. job[r] \in Job /\ r \in DOMAIN job
    BY <1>5, AtIsJob DEF MarkApplying, Stage
  <2>2. i \in DOMAIN rows => [rows[i] EXCEPT !.status = "APPLYING"] \in Row
    BY DEF RowsOK, Row
  <2>3. RowsOK'
    BY <1>5, <2>2 DEF MarkApplying, Updated, RowsOK
  <2>4. JobOK'
    BY <1>5, <2>1, GotoType DEF MarkApplying, Stage
  <2>5. RevisionsOK'
    BY <1>5 DEF MarkApplying, RevisionsOK
  <2> QED BY <1>0, <2>3, <2>4, <2>5
<1>6. CASE ValidateConfig(r)
  <2>1. job[r] \in Job /\ r \in DOMAIN job
    BY <1>6, AtIsJob DEF ValidateConfig, Stage
  <2>2. JobOK'
    BY <1>6, <2>1, GotoType DEF ValidateConfig, Stage
  <2>3. RowsOK' /\ RevisionsOK'
    BY <1>6 DEF ValidateConfig, RowsOK, RevisionsOK
  <2> QED BY <1>0, <2>2, <2>3
<1>7. CASE Backup(r)
  <2>1. job[r] \in Job /\ r \in DOMAIN job
    BY <1>7, AtIsJob DEF Backup, Stage
  <2>2. FirstCall(job[r]) \in Stage
    BY <2>1, FirstCallStage DEF Job, Stage
  <2>3. JobOK'
    BY <1>7, <2>1, <2>2, GotoType DEF Backup, Stage
  <2>4. r \in DOMAIN revisions =>
          [revisions[r] EXCEPT !.backup = TRUE, !.status = "APPLYING"] \in Revision
    BY DEF RevisionsOK, Revision
  <2>5. RevisionsOK'
    BY <1>7, <2>4 DEF Backup, Updated, RevisionsOK
  <2>6. RowsOK'
    BY <1>7 DEF Backup, RowsOK
  <2> QED BY <1>0, <2>3, <2>5, <2>6
<1> QED BY <1>1, <1>2, <1>3, <1>4, <1>5, <1>6, <1>7 DEF Prepare

\* What Build leaves of the request's record, and what it sets.
LEMMA BuildEffect ==
  ASSUME NEW r \in DOMAIN job, job[r] \in Job, Build(r)
  PROVE  /\ UNCHANGED <<rows, revisions>>
         /\ job'[r].inb = job[r].inb /\ job'[r].op = job[r].op
         /\ job'[r].tag = job[r].tag /\ job'[r].oldTags = job[r].oldTags
         /\ job'[r].enabled = job[r].enabled /\ job'[r].revision = job[r].revision
         /\ job'[r].rolledBack = job[r].rolledBack
         /\ \/ job'[r].stage = "begin" /\ job'[r].doomed = TRUE
            \/ job'[r].stage = "current" /\ job'[r].desired = BuildDocument(job[r].global)
<1>1. PICK broken \in BOOLEAN :
        job' = [job EXCEPT ![r].stage = IF broken THEN "begin" ELSE "current",
                  ![r].doomed = broken,
                  ![r].desired = IF broken THEN @ ELSE BuildDocument(job[r].global)]
  BY DEF Build
<1>2. CASE broken
  BY <1>1, <1>2 DEF Build, Job
<1>3. CASE ~broken
  BY <1>1, <1>3 DEF Build, Job
<1> QED BY <1>2, <1>3

\* A call of the runtime leaves it on a document.
LEMMA CallType ==
  ASSUME TypeOK, NEW r, r \in DOMAIN job, job[r] \in Job,
         NEW after \in Document, NEW partly \in SUBSET Document, NEW next \in Stage,
         Call(r, after, partly, next)
  PROVE  runtime' \in Document /\ JobOK'
  BY GotoType DEF Call, TypeOK, Stage

LEMMA EditUsersType ==
  ASSUME TypeOK, NEW tags, NEW emails, NEW users \in SUBSET User
  PROVE  EditUsers(tags, emails, users) \in Document
<1>1. ASSUME NEW e \in Entry
      PROVE  [e EXCEPT !.users = {u \in @ : u.email \notin emails} \cup users] \in Entry
  BY DEF Entry
<1>2. runtime \in Document
  BY DEF TypeOK
<1> QED BY <1>1, <1>2 DEF EditUsers, Document

LEMMA UsersOfType ==
  ASSUME NEW document \in Document, NEW tags
  PROVE  UsersOf(document, tags) \in SUBSET User
  BY DEF UsersOf, WithTag, Document, Entry

LEMMA PerformType ==
  ASSUME TypeOK, NEW r \in Request, Perform(r)
  PROVE  TypeOK'
<1> DEFINE j == job[r]
<1> SUFFICES JobOK' /\ runtime' \in Document
  BY DEF Perform, TypeOK, RowsOK, RevisionsOK
<1>0. JobOK /\ runtime \in Document
  BY DEF TypeOK
<1>1. CASE HotRemoveUsers(r)
  <2>1. job[r] \in Job /\ r \in DOMAIN job
    BY <1>0, <1>1, AtIsJob DEF HotRemoveUsers, Stage, Mutating
  <2>2. EditUsers(j.oldTags, RemovedEmails(j), {}) \in Document
    BY EditUsersType
  <2>3. CASE Carries(j.oldTags)
    <3> DEFINE next == IF AddedUsers(j) # {} THEN "hotAdd" ELSE "health"
    <3>1. next \in Stage
      BY DEF Stage, Mutating
    <3>2. Call(r, EditUsers(j.oldTags, RemovedEmails(j), {}), {}, next)
      BY <1>1, <2>3 DEF HotRemoveUsers
    <3> HIDE DEF next
    <3> QED BY <2>1, <2>2, <3>1, <3>2, CallType
  <2>4. CASE ~Carries(j.oldTags)
    BY <1>0, <1>1, <2>1, <2>4, GotoType DEF HotRemoveUsers, Refused, Stage
  <2> QED BY <2>3, <2>4
<1>2. CASE HotAddUsers(r)
  <2>1. job[r] \in Job /\ r \in DOMAIN job
    BY <1>0, <1>2, AtIsJob DEF HotAddUsers, Stage, Mutating
  <2>2. AddedUsers(j) \in SUBSET User
    BY <2>1, UsersOfType DEF AddedUsers, Job
  <2>3. EditUsers({j.tag}, {}, AddedUsers(j)) \in Document
    BY <2>2, EditUsersType
  <2>4. CASE Carries({j.tag})
    BY <1>2, <2>1, <2>3, <2>4, CallType DEF HotAddUsers, Stage
  <2>5. CASE ~Carries({j.tag})
    BY <1>0, <1>2, <2>1, <2>5, GotoType DEF HotAddUsers, Refused, Stage
  <2> QED BY <2>4, <2>5
<1>3. CASE HotReplaceInbound(r)
  <2> DEFINE new == WithTag(j.desired, {j.tag})
             without == [runtime EXCEPT !.inbounds = {e \in @ : e.tag \notin j.oldTags}]
             with == [without EXCEPT !.inbounds = @ \cup new]
  <2>1. job[r] \in Job /\ r \in DOMAIN job
    BY <1>0, <1>3, AtIsJob DEF HotReplaceInbound, Stage, Mutating
  <2>2. new \subseteq Entry
    BY <2>1 DEF WithTag, Job, Document
  <2>3. without \in Document
    BY <1>0 DEF Document
  <2>4. with \in Document
    BY <2>2, <2>3 DEF Document
  <2>5. Refused(r, without) \/ Call(r, with, {without}, "health")
    BY <1>3 DEF HotReplaceInbound
  <2> HIDE DEF new, without, with
  <2>6. CASE Refused(r, without)
    BY <1>0, <2>1, <2>3, <2>6, GotoType DEF Refused, Stage
  <2>7. CASE Call(r, with, {without}, "health")
    BY <2>1, <2>3, <2>4, <2>7, CallType DEF Stage
  <2> QED BY <2>5, <2>6, <2>7
<1>4. CASE RestartWithConfig(r)
  <2>1. job[r] \in Job /\ r \in DOMAIN job /\ job[r].desired \in Document
    BY <1>0, <1>4, AtIsJob DEF RestartWithConfig, Stage, Mutating, Job
  <2> QED BY <1>4, <2>1, CallType DEF RestartWithConfig, Stage
<1>5. CASE HealthCheck(r)
  <2>1. job[r] \in Job /\ r \in DOMAIN job
    BY <1>0, <1>5, AtIsJob DEF HealthCheck, Stage
  <2> QED BY <1>0, <1>5, <2>1, GotoType DEF HealthCheck, Unwind, Stage
<1>6. CASE RestoreConfig(r)
  <2>1. job[r] \in Job /\ r \in DOMAIN job /\ job[r].previous \in Document
    BY <1>0, <1>6, AtIsJob DEF RestoreConfig, Stage, Job
  <2> QED BY <1>0, <1>6, <2>1, GotoType DEF RestoreConfig, Stage
<1>7. CASE RestoreHealthCheck(r)
  <2>1. job[r] \in Job /\ r \in DOMAIN job
    BY <1>0, <1>7, AtIsJob DEF RestoreHealthCheck, Stage
  <2>2. JobOK'
    BY <1>0, <1>7, <2>1 DEF RestoreHealthCheck, JobOK, Job, Stage
  <2> QED BY <1>0, <1>7, <2>2 DEF RestoreHealthCheck
<1> QED BY <1>1, <1>2, <1>3, <1>4, <1>5, <1>6, <1>7 DEF Perform

\* A recorded result is one of the statuses of a revision.
LEMMA RecordType ==
  ASSUME TypeOK, NEW r, NEW status \in Settled, Record(r, status)
  PROVE  RevisionsOK'
<1>1. r \in DOMAIN revisions => [revisions[r] EXCEPT !.status = status] \in Revision
  BY DEF TypeOK, RevisionsOK, Revision
<1> QED BY <1>1 DEF Record, Updated, TypeOK, RevisionsOK

LEMMA ConcludeType ==
  ASSUME TypeOK, NEW r \in Request, Conclude(r)
  PROVE  TypeOK'
<1> USE DEF TypeOK
<1> DEFINE i == job[r].inb
<1>0. runtime' \in Document /\ policy' \in Policy
  BY DEF Conclude
<1>1. CASE MarkApplySuccess(r)
  <2>1. /\ job[r] \in Job /\ r \in DOMAIN job
        /\ job[r].inb \in Inbound /\ job[r].revision \in Nat
    BY <1>1, AtIsJob DEF MarkApplySuccess, Stage, Job
  <2>2. JobOK'
    BY <1>1, <2>1, GotoType, EndType DEF MarkApplySuccess, Unwind, Stage, Ended
  <2>3. RevisionsOK'
    <3>1. CASE Record(r, "APPLIED")
      BY <3>1, RecordType DEF Settled
    <3>2. CASE UNCHANGED revisions
      BY <3>2 DEF RevisionsOK
    <3> QED BY <1>1, <3>1, <3>2 DEF MarkApplySuccess
  <2>4. i \in DOMAIN rows =>
          [rows[i] EXCEPT !.status = "APPLIED", !.applied = job[r].revision] \in Row
    BY <2>1 DEF RowsOK, Row, Settled
  <2>5. RowsOK'
    BY <1>1, <2>4 DEF MarkApplySuccess, Updated, RowsOK
  <2> QED BY <1>0, <1>1, <2>2, <2>3, <2>5 DEF MarkApplySuccess
<1>2. CASE MarkApplyFailure(r)
  <2> DEFINE status == IF job[r].rolledBack THEN "ROLLED_BACK" ELSE "FAILED"
  <2>1. job[r] \in Job /\ r \in DOMAIN job /\ job[r].inb \in Inbound
    BY <1>2, AtIsJob DEF MarkApplyFailure, Stage, Job
  <2>2. status \in Settled
    BY DEF Settled
  <2>3. /\ Record(r, status)
        /\ rows' = Updated(rows, i, [rows[i] EXCEPT !.status = status])
        /\ retired' = retired
    BY <1>2 DEF MarkApplyFailure
  <2> HIDE DEF status
  <2>4. RevisionsOK'
    BY <2>2, <2>3, RecordType
  <2>5. i \in DOMAIN rows => [rows[i] EXCEPT !.status = status] \in Row
    BY <2>2 DEF RowsOK, Row
  <2>6. RowsOK'
    BY <2>3, <2>5 DEF Updated, RowsOK
  <2>7. JobOK'
    BY <1>2, <2>1, EndType DEF MarkApplyFailure, Ended
  <2> QED BY <1>0, <2>3, <2>4, <2>6, <2>7
<1>3. CASE Remove(r)
  <2>1. job[r] \in Job /\ r \in DOMAIN job /\ job[r].inb \in Inbound
    BY <1>3, AtIsJob DEF Remove, Stage, Job
  <2>2. RowsOK'
    BY <1>3 DEF Remove, RowsOK
  <2>3. RevisionsOK'
    BY <1>3 DEF Remove, RevisionsOK
  <2>4. JobOK'
    BY <1>3, <2>1, EndType DEF Remove, Ended
  <2>5. retired' \subseteq Inbound
    BY <1>3, <2>1 DEF Remove
  <2> QED BY <1>0, <2>2, <2>3, <2>4, <2>5
<1>4. CASE Abort(r)
  <2>1. job[r] \in Job /\ r \in DOMAIN job /\ job[r].inb \in Inbound
    BY <1>4, AtIsJob DEF Abort, Stage, Job
  <2>2. JobOK'
    BY <1>4, <2>1, EndType DEF Abort, Ended
  <2> QED BY <1>0, <1>4, <2>2 DEF Abort, RowsOK, RevisionsOK
<1> QED BY <1>1, <1>2, <1>3, <1>4 DEF Conclude

LEMMA CrashType ==
  ASSUME TypeOK, NEW r \in Request, Crash(r)
  PROVE  TypeOK'
<1>1. r \in DOMAIN job /\ job[r].inb \in Inbound
  BY DEF Crash, Running, TypeOK, JobOK, Job, EndedJob
<1>2. JobOK'
  BY <1>1, EndType DEF Crash, TypeOK, Ended
<1> QED BY <1>2 DEF Crash, TypeOK, RowsOK, RevisionsOK

LEMMA ClientExpiresType ==
  ASSUME TypeOK, NEW i \in Inbound, ClientExpires(i)
  PROVE  TypeOK'
<1>1. /\ i \in DOMAIN rows /\ rows[i] \in Row
      /\ rows[i].clients \in SUBSET Client
  BY DEF ClientExpires, TypeOK, RowsOK, Row
<1>2. PICK c \in rows[i].clients :
        rows' = [rows EXCEPT ![i].clients = (@ \ {c}) \cup {[c EXCEPT !.live = FALSE]}]
  BY DEF ClientExpires
<1>3. [c EXCEPT !.live = FALSE] \in Client
  BY <1>1, <1>2 DEF Client
<1>4. PICK new \in SUBSET Client : rows' = [rows EXCEPT ![i].clients = new]
  BY <1>1, <1>2, <1>3
<1>5. RowsOK'
  BY <1>1, <1>4 DEF TypeOK, RowsOK, Row
<1> QED BY <1>5 DEF ClientExpires, TypeOK, RevisionsOK, JobOK

LEMMA AppliedRowIs ==
  ASSUME NEW row \in AppliedRow
  PROVE  /\ row \in [tag : Tag, listener : Listener, clients : SUBSET Client,
                     enabled : BOOLEAN, desired : {2}, applied : {2}, status : {"APPLIED"}]
         /\ row.clients \in {{}} \cup {{c} : c \in Client}
         /\ row.desired = 2 /\ row.applied = 2 /\ row.status = "APPLIED"
<1>1. row \in [tag : Tag, listener : Listener,
               clients : {{}} \cup {{c} : c \in Client}, enabled : BOOLEAN,
               desired : {2}, applied : {2}, status : {"APPLIED"}]
  BY DEF AppliedRow
<1>2. row.clients \in SUBSET Client
  BY <1>1
<1> QED BY <1>1, <1>2

LEMMA InitType == Init => TypeOK
<1> SUFFICES ASSUME Init PROVE TypeOK
  OBVIOUS
<1>1. RowsOK
  <2>1. PICK stored \in SUBSET Inbound : rows \in [stored -> AppliedRow]
    BY DEF Init
  <2>2. AppliedRow \subseteq Row
    BY AppliedRowIs DEF Row, Settled
  <2> QED BY <2>1, <2>2 DEF RowsOK
<1>2. policy \in Policy /\ policy.global \in Global
  BY ConstantsAssumption DEF Init
<1>3. runtime \in Document
  BY <1>1, <1>2, DocumentType DEF Init
<1>4. RevisionsOK /\ JobOK /\ retired \subseteq Inbound
  BY DEF Init, RevisionsOK, JobOK
<1> QED BY <1>1, <1>2, <1>3, <1>4 DEF TypeOK

LEMMA TypeInductive == TypeOK /\ [Next]_vars => TypeOK'
<1> SUFFICES ASSUME TypeOK, [Next]_vars PROVE TypeOK'
  OBVIOUS
<1>1. CASE UNCHANGED vars
  BY <1>1 DEF vars, TypeOK, RowsOK, RevisionsOK, JobOK
<1>2. ASSUME NEW r \in Request, Submit(r) PROVE TypeOK'
  BY <1>2, SubmitType
<1>3. ASSUME NEW r \in Request, Proceed(r) PROVE TypeOK'
  BY <1>3, WriteType, PrepareType, PerformType, ConcludeType DEF Proceed
<1>4. ASSUME NEW r \in Request, Crash(r) PROVE TypeOK'
  BY <1>4, CrashType
<1>5. ASSUME NEW i \in Inbound, ClientExpires(i) PROVE TypeOK'
  BY <1>5, ClientExpiresType
<1>6. CASE SavePolicy
  BY <1>6 DEF SavePolicy, TypeOK, RowsOK, RevisionsOK, JobOK
<1> QED BY <1>1, <1>2, <1>3, <1>4, <1>5, <1>6 DEF Next

\* Whatever the instance stores and however requests interleave, die and are
\* refused, the tables, the running document and the copies the requests keep
\* stay well formed.
THEOREM TypeCorrect == Spec => []TypeOK
  BY InitType, TypeInductive, PTL DEF Spec

-----------------------------------------------------------------------------
(* A request changes its own copies and its own revision only *)

OnlyOwn(r) ==
  /\ DOMAIN job' = DOMAIN job \cup {r}
  /\ \A q \in DOMAIN job' \ {r} : q \in DOMAIN job /\ job'[q] = job[q]
  /\ \A q \in DOMAIN revisions' \ {r} :
       q \in DOMAIN revisions /\ revisions'[q] = revisions[q]

\* Only a request in the pipeline proceeds.
LEMMA ProceedIsJob ==
  ASSUME TypeOK, NEW r \in Request, Proceed(r)
  PROVE  r \in DOMAIN job /\ job[r] \in Job
<1> USE AtIsJob DEF TypeOK, Stage, Mutating
<1>1. CASE Write(r)
  BY <1>1 DEF Write, WriteUpdate, WriteEnabled, WriteCreateClient, WriteClients,
     NothingExpired, MarkPending, WriteDelete, Reread, Writing
<1>2. CASE Prepare(r)
  BY <1>2 DEF Prepare, ReadPolicy, Build, ReadCurrent, BeginApply, MarkApplying,
     ValidateConfig, Backup
<1>3. CASE Perform(r)
  BY <1>3 DEF Perform, HotRemoveUsers, HotAddUsers, HotReplaceInbound,
     RestartWithConfig, HealthCheck, RestoreConfig, RestoreHealthCheck
<1>4. CASE Conclude(r)
  BY <1>4 DEF Conclude, MarkApplySuccess, MarkApplyFailure, Remove, Abort
<1> QED BY <1>1, <1>2, <1>3, <1>4 DEF Proceed

LEMMA OwnSubmit ==
  ASSUME NEW r \in Request, Submit(r) PROVE OnlyOwn(r)
<1>1. \A op, i, row, oldTags, stage :
        Start(r, op, i, row, oldTags, stage) =>
          /\ DOMAIN job' = DOMAIN job \cup {r}
          /\ \A q \in DOMAIN job' \ {r} : q \in DOMAIN job /\ job'[q] = job[q]
  BY DEF Start, Inserted
<1>2. UNCHANGED revisions
  BY DEF Submit
<1> QED
  BY <1>1, <1>2 DEF OnlyOwn, Submit, Create, Duplicate, InsertInbound, Open,
                    AssignedClientChange, ApplyGlobalSettings

LEMMA OwnWrite ==
  ASSUME NEW r \in Request, r \in DOMAIN job, Write(r) PROVE OnlyOwn(r)
  BY DEF OnlyOwn, Write, WriteUpdate, WriteEnabled, WriteCreateClient, WriteClients,
         NothingExpired, MarkPending, WriteDelete, Reread, Goto, End

LEMMA OwnPrepare ==
  ASSUME NEW r \in Request, r \in DOMAIN job, Prepare(r) PROVE OnlyOwn(r)
  BY DEF OnlyOwn, Prepare, ReadPolicy, Build, ReadCurrent, BeginApply, MarkApplying,
         ValidateConfig, Backup, Goto, End, Inserted, Updated

LEMMA OwnPerform ==
  ASSUME NEW r \in Request, r \in DOMAIN job, Perform(r) PROVE OnlyOwn(r)
  BY DEF OnlyOwn, Perform, HotRemoveUsers, HotAddUsers, HotReplaceInbound,
         RestartWithConfig, HealthCheck, RestoreConfig, RestoreHealthCheck,
         Call, Refused, Unwind, Goto

LEMMA OwnConclude ==
  ASSUME NEW r \in Request, r \in DOMAIN job, Conclude(r) PROVE OnlyOwn(r)
  BY DEF OnlyOwn, Conclude, MarkApplySuccess, MarkApplyFailure, Remove, Abort,
         Record, Unwind, Goto, End, Updated

-----------------------------------------------------------------------------
(* The backup is taken before the runtime is touched *)

Touching == Mutating \cup {"health", "success", "restore", "restoreHealth"}

BackedUpFor(r) ==
  (r \in DOMAIN job /\ job[r].stage \in Touching /\ r \in DOMAIN revisions)
    => revisions[r].backup /\ revisions[r].status = "APPLYING"

\* It is enough to look at the request that moves.
LEMMA BackedUpOwn ==
  ASSUME BackedUp, NEW r, OnlyOwn(r), BackedUpFor(r)'
  PROVE  BackedUp'
  BY DEF BackedUp, BackedUpFor, OnlyOwn, Touching

LEMMA BackedUpSubmit ==
  ASSUME BackedUp, NEW r \in Request, Submit(r) PROVE BackedUp'
<1> DEFINE Starts(stage) == \E op, i, row, oldTags : Start(r, op, i, row, oldTags, stage)
<1>1. Starts("write") \/ Starts("reread") \/ Starts("policy")
  BY DEF Submit, Create, Duplicate, InsertInbound, Open, AssignedClientChange,
         ApplyGlobalSettings
<1>2. ASSUME NEW stage, Starts(stage) PROVE job'[r].stage = stage
  BY <1>2 DEF Start, Inserted
<1> HIDE DEF Starts
<1>3. BackedUpFor(r)'
  BY <1>1, <1>2 DEF BackedUpFor, Touching, Mutating
<1> QED BY <1>3, OwnSubmit, BackedUpOwn

LEMMA GotoStage ==
  ASSUME NEW r, r \in DOMAIN job, job[r] \in Job, NEW stage, Goto(r, stage)
  PROVE  job'[r].stage = stage
  BY DEF Goto, Job

LEMMA BackedUpWrite ==
  ASSUME TypeOK, BackedUp, NEW r \in Request, Write(r) PROVE BackedUp'
<1>1. r \in DOMAIN job /\ job[r] \in Job
  BY ProceedIsJob DEF Proceed
<1>2. \/ \E stage \in {"bump", "reread", "policy"} : Goto(r, stage)
      \/ End(r, "done")
      \/ Reread(r)
  BY DEF Write, WriteUpdate, WriteEnabled, WriteCreateClient, WriteClients,
         NothingExpired, MarkPending, WriteDelete
<1>3. job'[r].stage \in {"bump", "reread", "policy", "done"}
  <2>1. CASE End(r, "done")
    BY <1>1, <2>1 DEF End
  <2>2. CASE Reread(r)
    BY <1>1, <2>2 DEF Reread, Job
  <2> QED BY <1>1, <1>2, <2>1, <2>2, GotoStage
<1>4. BackedUpFor(r)'
  BY <1>3 DEF BackedUpFor, Touching, Mutating
<1> QED BY <1>1, <1>4, OwnWrite, BackedUpOwn

LEMMA BackedUpPrepare ==
  ASSUME TypeOK, BackedUp, NEW r \in Request, Prepare(r) PROVE BackedUp'
<1>1. r \in DOMAIN job /\ job[r] \in Job
  BY ProceedIsJob DEF Proceed
<1>2. CASE Backup(r)
  <2>1. CASE Goto(r, "failure")
    <3>1. job'[r].stage = "failure"
      BY <1>1, <2>1 DEF Goto, Job
    <3> QED BY <1>1, <3>1, OwnPrepare, BackedUpOwn DEF BackedUpFor, Touching, Mutating
  <2>2. CASE revisions' = Updated(revisions, r,
               [revisions[r] EXCEPT !.backup = TRUE, !.status = "APPLYING"])
    <3>1. r \in DOMAIN revisions' =>
            /\ revisions[r] \in Revision
            /\ revisions'[r] = [revisions[r] EXCEPT !.backup = TRUE, !.status = "APPLYING"]
      BY <2>2 DEF Updated, TypeOK, RevisionsOK
    <3>2. BackedUpFor(r)'
      BY <3>1 DEF BackedUpFor, Revision
    <3> QED BY <1>1, <3>2, OwnPrepare, BackedUpOwn
  <2> QED BY <1>2, <2>1, <2>2 DEF Backup
<1>3. CASE ~Backup(r)
  <2>1. job'[r].stage \in {"build", "current", "begin", "applying", "validate",
                           "backup", "failure"}
    <3>1. CASE BeginApply(r) \/ MarkApplying(r) \/ ValidateConfig(r)
      BY <1>1, <3>1, GotoStage DEF BeginApply, MarkApplying, ValidateConfig
    <3>2. CASE ReadPolicy(r)
      BY <1>1, <3>2 DEF ReadPolicy, Job
    <3>3. CASE Build(r)
      BY <1>1, <3>3, BuildEffect
    <3>4. CASE ReadCurrent(r)
      BY <1>1, <3>4 DEF ReadCurrent, Job
    <3> QED BY <1>3, <3>1, <3>2, <3>3, <3>4 DEF Prepare
  <2> QED BY <1>1, <2>1, OwnPrepare, BackedUpOwn DEF BackedUpFor, Touching, Mutating
<1> QED BY <1>2, <1>3

LEMMA BackedUpPerform ==
  ASSUME TypeOK, BackedUp, NEW r \in Request, Perform(r) PROVE BackedUp'
<1>1. r \in DOMAIN job /\ job[r].stage \in Touching
  BY DEF Perform, HotRemoveUsers, HotAddUsers, HotReplaceInbound, RestartWithConfig,
     HealthCheck, RestoreConfig, RestoreHealthCheck, At, Touching, Mutating
<1>2. UNCHANGED revisions
  BY DEF Perform
<1>3. BackedUpFor(r)'
  BY <1>1, <1>2 DEF BackedUp, BackedUpFor, Touching
<1> QED BY <1>1, <1>3, OwnPerform, BackedUpOwn

LEMMA BackedUpConclude ==
  ASSUME TypeOK, BackedUp, NEW r \in Request, Conclude(r) PROVE BackedUp'
<1>1. r \in DOMAIN job /\ job[r] \in Job
  BY ProceedIsJob DEF Proceed
<1>2. CASE MarkApplySuccess(r) /\ Unwind(r) /\ UNCHANGED revisions
  <2>1. job[r].stage \in Touching
    BY <1>2 DEF MarkApplySuccess, At, Touching
  <2>2. BackedUpFor(r)'
    BY <1>1, <1>2, <2>1 DEF BackedUp, BackedUpFor, Touching
  <2> QED BY <1>1, <2>2, OwnConclude, BackedUpOwn
<1>3. CASE ~(MarkApplySuccess(r) /\ Unwind(r) /\ UNCHANGED revisions)
  <2>1. job'[r].stage \in {"remove", "done", "aborted"}
    BY <1>1, <1>3 DEF Conclude, MarkApplySuccess, MarkApplyFailure, Remove, Abort,
       Job, Goto, End
  <2> QED BY <1>1, <2>1, OwnConclude, BackedUpOwn DEF BackedUpFor, Touching, Mutating
<1> QED BY <1>2, <1>3

\* However two applies of one inbound interleave, a request reaches the runtime,
\* or reports on it, only with its backup stored and attached to a revision that
\* says APPLYING: the catch block always has a document to restore.
THEOREM BackedUpAlways == Spec => []BackedUp
<1>1. Init => BackedUp
  BY DEF Init, BackedUp
<1>2. TypeOK /\ BackedUp /\ [Next]_vars => BackedUp'
  <2> SUFFICES ASSUME TypeOK, BackedUp, [Next]_vars PROVE BackedUp'
    OBVIOUS
  <2>1. CASE UNCHANGED <<job, revisions>>
    BY <2>1 DEF BackedUp
  <2>2. ASSUME NEW r \in Request, Submit(r) PROVE BackedUp'
    BY <2>2, BackedUpSubmit
  <2>3. ASSUME NEW r \in Request, Proceed(r) PROVE BackedUp'
    BY <2>3, BackedUpWrite, BackedUpPrepare, BackedUpPerform, BackedUpConclude
       DEF Proceed
  <2>4. ASSUME NEW r \in Request, Crash(r) PROVE BackedUp'
    <3>1. OnlyOwn(r) /\ BackedUpFor(r)'
      BY <2>4 DEF Crash, Running, End, OnlyOwn, BackedUpFor, Touching, Mutating
    <3> QED BY <3>1, BackedUpOwn
  <2> QED BY <2>1, <2>2, <2>3, <2>4 DEF Next, ClientExpires, SavePolicy, vars
<1> QED BY <1>1, <1>2, TypeCorrect, PTL DEF Spec

-----------------------------------------------------------------------------
(* An unsettled row is explained by a request *)

\* The step of a request on row i leaves the status of the other rows.
OnlyStatusOf(i) ==
  \A k \in DOMAIN rows' \ {i} : k \in DOMAIN rows /\ rows'[k].status = rows[k].status

\* A request explains the row it works on as long as it neither waits for its
\* write nor is done, and then it has settled it.
LEMMA ExplainedOwn ==
  ASSUME UnsettledIsExplained, NEW r, r \in DOMAIN job, OnlyOwn(r),
         job'[r].inb = job[r].inb, OnlyStatusOf(job[r].inb),
         \/ job'[r].stage \notin {"write", "done"}
         \/ job[r].inb \in DOMAIN rows' => rows'[job[r].inb].status \in Settled
  PROVE  UnsettledIsExplained'
<1> DEFINE Explains(q, i) == job[q].inb = i /\ job[q].stage \notin {"write", "done"}
<1> SUFFICES ASSUME NEW i \in DOMAIN rows', rows'[i].status \notin Settled
             PROVE  \E q \in DOMAIN job' : Explains(q, i)'
  BY DEF UnsettledIsExplained
<1>1. CASE i = job[r].inb
  BY <1>1 DEF OnlyOwn
<1>2. CASE i # job[r].inb
  <2>1. PICK q \in DOMAIN job : Explains(q, i)
    BY <1>2 DEF OnlyStatusOf, UnsettledIsExplained
  <2>2. q # r
    BY <1>2, <2>1
  <2> QED BY <2>1, <2>2 DEF OnlyOwn
<1> QED BY <1>1, <1>2

LEMMA ExplainedSubmit ==
  ASSUME UnsettledIsExplained, NEW r \in Request, Submit(r)
  PROVE  UnsettledIsExplained'
<1> DEFINE Explains(q, i) == job[q].inb = i /\ job[q].stage \notin {"write", "done"}
<1>1. r \notin DOMAIN job
  BY DEF Submit, Create, Duplicate, InsertInbound, Open, AssignedClientChange,
     ApplyGlobalSettings, Start
<1>2. ASSUME NEW i \in DOMAIN rows, i \in DOMAIN rows', rows'[i].status = rows[i].status,
             rows'[i].status \notin Settled
      PROVE  \E q \in DOMAIN job' : Explains(q, i)'
  <2>1. PICK q \in DOMAIN job : Explains(q, i)
    BY <1>2 DEF UnsettledIsExplained
  <2> QED BY <1>1, <2>1, OwnSubmit DEF OnlyOwn
<1>3. CASE UNCHANGED rows
  BY <1>2, <1>3 DEF UnsettledIsExplained
<1>4. CASE \E t, l, e : InsertInbound(r, t, l, e)
  <2>1. PICK t, l, e : InsertInbound(r, t, l, e)
    BY <1>4
  <2>2. PICK i, row :
          /\ i \in Inbound \ (DOMAIN rows \cup retired)
          /\ rows' = Inserted(rows, i, row)
          /\ Start(r, "create", i, row, {}, "reread")
    BY <2>1 DEF InsertInbound
  <2>3. r \in DOMAIN job' /\ Explains(r, i)'
    BY <2>2 DEF Start, Inserted
  <2>4. \A k \in DOMAIN rows' \ {i} : k \in DOMAIN rows /\ rows'[k].status = rows[k].status
    BY <2>2 DEF Inserted
  <2> QED BY <1>2, <2>3, <2>4 DEF UnsettledIsExplained
<1>5. CASE AssignedClientChange(r)
  <2>1. PICK i, row :
          /\ i \in DOMAIN rows
          /\ Rewrite(i, row)
          /\ Start(r, "assigned", i, rows[i], {rows[i].tag}, "reread")
    BY <1>5 DEF AssignedClientChange
  <2>2. r \in DOMAIN job' /\ Explains(r, i)'
    BY <2>1 DEF Start, Inserted
  <2>3. \A k \in DOMAIN rows' \ {i} : k \in DOMAIN rows /\ rows'[k].status = rows[k].status
    BY <2>1 DEF Rewrite, Updated
  <2> QED BY <1>2, <2>2, <2>3 DEF UnsettledIsExplained
<1> QED BY <1>3, <1>4, <1>5 DEF Submit, Create, Duplicate, Open, ApplyGlobalSettings

LEMMA GotoKeepsInbound ==
  ASSUME NEW r, r \in DOMAIN job, job[r] \in Job, NEW stage, Goto(r, stage)
  PROVE  job'[r].inb = job[r].inb
  BY DEF Goto, Job

LEMMA ExplainedWrite ==
  ASSUME TypeOK, UnsettledIsExplained, NEW r \in Request, Write(r)
  PROVE  UnsettledIsExplained'
<1>1. r \in DOMAIN job /\ job[r] \in Job
  BY ProceedIsJob DEF Proceed
<1>2. OnlyOwn(r)
  BY <1>1, OwnWrite
<1>3. OnlyStatusOf(job[r].inb)
  BY DEF OnlyStatusOf, Write, WriteUpdate, WriteEnabled, WriteCreateClient, WriteClients,
         NothingExpired, MarkPending, WriteDelete, Reread, Rewrite, Updated
<1>4. CASE NothingExpired(r)
  <2>1. job[r].stage = "write" /\ UNCHANGED rows
    BY <1>4 DEF NothingExpired, Writing, At
  <2> SUFFICES ASSUME NEW i \in DOMAIN rows, rows[i].status \notin Settled
               PROVE  \E q \in DOMAIN job' :
                        job'[q].inb = i /\ job'[q].stage \notin {"write", "done"}
    BY <2>1 DEF UnsettledIsExplained
  <2>2. PICK q \in DOMAIN job : job[q].inb = i /\ job[q].stage \notin {"write", "done"}
    BY DEF UnsettledIsExplained
  <2> QED BY <1>2, <2>1, <2>2 DEF OnlyOwn
<1>5. CASE \E stage \in {"bump", "reread", "policy"} : Goto(r, stage)
  <2>1. job'[r].inb = job[r].inb /\ job'[r].stage \notin {"write", "done"}
    BY <1>1, <1>5, GotoStage, GotoKeepsInbound
  <2> QED BY <1>1, <1>2, <1>3, <2>1, ExplainedOwn
<1>6. CASE Reread(r)
  <2>1. job'[r].inb = job[r].inb /\ job'[r].stage = "policy"
    BY <1>1, <1>6 DEF Reread, Job
  <2> QED BY <1>1, <1>2, <1>3, <2>1, ExplainedOwn
<1> QED BY <1>4, <1>5, <1>6 DEF Write, WriteUpdate, WriteEnabled, WriteCreateClient,
           WriteClients, MarkPending, WriteDelete

LEMMA ExplainedPrepare ==
  ASSUME TypeOK, UnsettledIsExplained, NEW r \in Request, Prepare(r)
  PROVE  UnsettledIsExplained'
<1>1. r \in DOMAIN job /\ job[r] \in Job
  BY ProceedIsJob DEF Proceed
<1>2. OnlyOwn(r)
  BY <1>1, OwnPrepare
<1>3. OnlyStatusOf(job[r].inb)
  BY DEF OnlyStatusOf, Prepare, ReadPolicy, Build, ReadCurrent, BeginApply, MarkApplying,
         ValidateConfig, Backup, Updated
<1>4. job'[r].inb = job[r].inb /\ job'[r].stage \notin {"write", "done"}
  <2>1. CASE BeginApply(r) \/ MarkApplying(r) \/ ValidateConfig(r) \/ Backup(r)
    <3>1. FirstCall(job[r]) \in Mutating \cup {"health"}
      BY <1>1, FirstCallStage DEF Job
    <3>2. PICK stage : Goto(r, stage) /\ stage \notin {"write", "done"}
      BY <2>1, <3>1 DEF BeginApply, MarkApplying, ValidateConfig, Backup, Mutating
    <3> QED BY <1>1, <3>2, GotoStage, GotoKeepsInbound
  <2>2. CASE ReadPolicy(r)
    BY <1>1, <2>2 DEF ReadPolicy, Job
  <2>3. CASE Build(r)
    BY <1>1, <2>3, BuildEffect
  <2>4. CASE ReadCurrent(r)
    BY <1>1, <2>4 DEF ReadCurrent, Job
  <2> QED BY <2>1, <2>2, <2>3, <2>4 DEF Prepare
<1> QED BY <1>1, <1>2, <1>3, <1>4, ExplainedOwn

LEMMA ExplainedPerform ==
  ASSUME TypeOK, UnsettledIsExplained, NEW r \in Request, Perform(r)
  PROVE  UnsettledIsExplained'
<1>1. r \in DOMAIN job /\ job[r] \in Job
  BY ProceedIsJob DEF Proceed
<1>2. OnlyOwn(r) /\ OnlyStatusOf(job[r].inb)
  BY <1>1, OwnPerform DEF OnlyStatusOf, Perform
<1>3. job'[r].inb = job[r].inb /\ job'[r].stage \notin {"write", "done"}
  <2>1. CASE RestoreHealthCheck(r)
    BY <1>1, <2>1 DEF RestoreHealthCheck, Job
  <2>2. CASE ~RestoreHealthCheck(r)
    <3>1. PICK stage : Goto(r, stage) /\ stage \notin {"write", "done"}
      BY <2>2 DEF Perform, HotRemoveUsers, HotAddUsers, HotReplaceInbound,
         RestartWithConfig, HealthCheck, RestoreConfig, Call, Refused, Unwind
    <3> QED BY <1>1, <3>1, GotoStage, GotoKeepsInbound
  <2> QED BY <2>1, <2>2
<1> QED BY <1>1, <1>2, <1>3, ExplainedOwn

LEMMA ExplainedConclude ==
  ASSUME TypeOK, UnsettledIsExplained, NEW r \in Request, Conclude(r)
  PROVE  UnsettledIsExplained'
<1> DEFINE i == job[r].inb
<1>1. r \in DOMAIN job /\ job[r] \in Job
  BY ProceedIsJob DEF Proceed
<1>2. OnlyOwn(r)
  BY <1>1, OwnConclude
<1>3. OnlyStatusOf(i)
  BY DEF OnlyStatusOf, Conclude, MarkApplySuccess, MarkApplyFailure, Remove, Abort, Updated
<1>4. job'[r].inb = i
  <2>1. \/ \E stage : Goto(r, stage)
        \/ \E how : End(r, how)
    BY DEF Conclude, MarkApplySuccess, MarkApplyFailure, Remove, Abort, Unwind
  <2> QED BY <1>1, <2>1, GotoKeepsInbound DEF End
<1>5. \/ job'[r].stage \notin {"write", "done"}
      \/ i \in DOMAIN rows' => rows'[i].status \in Settled
  <2>1. CASE MarkApplySuccess(r)
    <3>1. CASE Unwind(r)
      BY <1>1, <3>1, GotoStage DEF Unwind
    <3>2. CASE rows' = Updated(rows, i,
             [rows[i] EXCEPT !.status = "APPLIED", !.applied = job[r].revision])
      BY <3>2 DEF Updated, TypeOK, RowsOK, Row, Settled
    <3> QED BY <2>1, <3>1, <3>2 DEF MarkApplySuccess
  <2>2. CASE MarkApplyFailure(r)
    <3>1. PICK status \in Settled :
            rows' = Updated(rows, i, [rows[i] EXCEPT !.status = status])
      BY <2>2 DEF MarkApplyFailure, Settled
    <3> QED BY <3>1 DEF Updated, TypeOK, RowsOK, Row
  <2>3. CASE Remove(r)
    BY <2>3 DEF Remove
  <2>4. CASE Abort(r)
    BY <1>1, <2>4 DEF Abort, End
  <2> QED BY <2>1, <2>2, <2>3, <2>4 DEF Conclude
<1> QED BY <1>1, <1>2, <1>3, <1>4, <1>5, ExplainedOwn

\* However requests interleave, a row left PENDING or APPLYING is explained by a
\* request still at work on it, aborted or crashed: of the requests that all
\* end well, the last one that wrote the status settled it.
THEOREM UnsettledAlwaysExplained == Spec => []UnsettledIsExplained
<1>1. Init => UnsettledIsExplained
  <2> SUFFICES ASSUME Init PROVE UnsettledIsExplained
    OBVIOUS
  <2>1. PICK stored \in SUBSET Inbound : rows \in [stored -> AppliedRow]
    BY DEF Init
  <2> QED BY <2>1, AppliedRowIs DEF UnsettledIsExplained, Settled
<1>2. TypeOK /\ UnsettledIsExplained /\ [Next]_vars => UnsettledIsExplained'
  <2> SUFFICES ASSUME TypeOK, UnsettledIsExplained, [Next]_vars
               PROVE  UnsettledIsExplained'
    OBVIOUS
  <2>1. CASE UNCHANGED <<rows, job>>
    BY <2>1 DEF UnsettledIsExplained
  <2>2. ASSUME NEW r \in Request, Submit(r) PROVE UnsettledIsExplained'
    BY <2>2, ExplainedSubmit
  <2>3. ASSUME NEW r \in Request, Proceed(r) PROVE UnsettledIsExplained'
    BY <2>3, ExplainedWrite, ExplainedPrepare, ExplainedPerform, ExplainedConclude
       DEF Proceed
  <2>4. ASSUME NEW r \in Request, Crash(r) PROVE UnsettledIsExplained'
    <3>1. r \in DOMAIN job /\ End(r, "crashed") /\ UNCHANGED <<rows, revisions>>
      BY <2>4 DEF Crash, Running
    <3>2. OnlyOwn(r) /\ OnlyStatusOf(job[r].inb)
      BY <3>1 DEF OnlyOwn, OnlyStatusOf, End
    <3>3. job'[r].inb = job[r].inb /\ job'[r].stage \notin {"write", "done"}
      BY <3>1 DEF End
    <3> QED BY <3>1, <3>2, <3>3, ExplainedOwn
  <2>5. ASSUME NEW i \in Inbound, ClientExpires(i) PROVE UnsettledIsExplained'
    <3>1. /\ DOMAIN rows' = DOMAIN rows /\ job' = job
          /\ \A k \in DOMAIN rows : rows'[k].status = rows[k].status
      BY <2>5 DEF ClientExpires, TypeOK, RowsOK, Row
    <3> QED BY <3>1 DEF UnsettledIsExplained
  <2> QED BY <2>1, <2>2, <2>3, <2>4, <2>5 DEF Next, SavePolicy, vars
<1> QED BY <1>1, <1>2, TypeCorrect, PTL DEF Spec

-----------------------------------------------------------------------------
(* A row is never applied ahead of its desired revision *)

\* The revision a request holds is one its row has reached: desired never
\* falls, and the identifier of a deleted row is not used again.
Reached(q) ==
  job[q].stage \notin Ended =>
    /\ job[q].inb \in DOMAIN rows \cup retired
    /\ job[q].inb \in DOMAIN rows => job[q].revision =< rows[job[q].inb].desired

AheadInv ==
  /\ TypeOK
  /\ AppliedNotAhead
  /\ DOMAIN rows \cap retired = {}
  /\ \A q \in DOMAIN job : Reached(q)

\* What every step does to the rows.
RowsAdvance ==
  /\ DOMAIN rows \cup retired \subseteq DOMAIN rows' \cup retired'
  /\ DOMAIN rows' \cap retired' = {} /\ retired \subseteq retired'
  /\ \A i \in DOMAIN rows \cap DOMAIN rows' : rows[i].desired =< rows'[i].desired

\* The requests that do not move keep to revisions their rows have reached.
LEMMA ReachedOthers ==
  ASSUME AheadInv, TypeOK', RowsAdvance, NEW r, OnlyOwn(r), r \in DOMAIN job',
         Reached(r)'
  PROVE  DOMAIN rows' \cap retired' = {} /\ \A q \in DOMAIN job' : Reached(q)'
<1> SUFFICES ASSUME NEW q \in DOMAIN job' \ {r} PROVE Reached(q)'
  BY DEF RowsAdvance
<1>1. q \in DOMAIN job /\ job'[q] = job[q] /\ Reached(q)
  BY DEF OnlyOwn, AheadInv
<1> DEFINE i == job[q].inb
<1>2. CASE job[q].stage \in Ended
  BY <1>1, <1>2 DEF Reached
<1>3. CASE job[q].stage \notin Ended
  <2>1. i \in DOMAIN rows' \cup retired'
    BY <1>1, <1>3 DEF Reached, RowsAdvance
  <2>2. ASSUME i \in DOMAIN rows' PROVE job[q].revision =< rows'[i].desired
    <3>1. i \in DOMAIN rows
      BY <1>1, <1>3, <2>2 DEF Reached, RowsAdvance
    <3>2. job[q].revision =< rows[i].desired /\ rows[i].desired =< rows'[i].desired
      BY <1>1, <1>3, <2>2, <3>1 DEF Reached, RowsAdvance
    <3>3. job[q].revision \in Nat /\ rows[i].desired \in Nat /\ rows'[i].desired \in Nat
      BY <1>1, <1>3, <2>2, <3>1
         DEF AheadInv, TypeOK, RowsOK, JobOK, Job, EndedJob, Row
    <3> QED BY <3>2, <3>3
  <2> QED BY <1>1, <2>1, <2>2 DEF Reached
<1> QED BY <1>2, <1>3

\* A request that moves on and keeps its revision, or that ends.
LEMMA ReachedOwn ==
  ASSUME AheadInv, TypeOK', RowsAdvance, NEW r, r \in DOMAIN job, job[r] \in Job,
         \/ job'[r].stage \in Ended
         \/ job'[r].inb = job[r].inb /\ job'[r].revision = job[r].revision
  PROVE  Reached(r)'
<1> DEFINE i == job[r].inb
<1>1. CASE job'[r].stage \in Ended
  BY <1>1 DEF Reached
<1>2. CASE job'[r].inb = i /\ job'[r].revision = job[r].revision
  <2>1. Reached(r) /\ job[r].stage \notin Ended /\ job[r].revision \in Nat
    BY DEF AheadInv, Job, Ended, Stage, Mutating
  <2>2. i \in DOMAIN rows' \cup retired'
    BY <2>1 DEF Reached, RowsAdvance
  <2>3. ASSUME i \in DOMAIN rows' PROVE job[r].revision =< rows'[i].desired
    <3>1. i \in DOMAIN rows
      BY <2>1, <2>3 DEF Reached, RowsAdvance
    <3>2. job[r].revision =< rows[i].desired /\ rows[i].desired =< rows'[i].desired
      BY <2>1, <2>3, <3>1 DEF Reached, RowsAdvance
    <3>3. rows[i].desired \in Nat /\ rows'[i].desired \in Nat
      BY <2>3, <3>1 DEF AheadInv, TypeOK, RowsOK, Row
    <3> QED BY <2>1, <3>2, <3>3
  <2> QED BY <1>2, <2>2, <2>3 DEF Reached
<1> QED BY <1>1, <1>2

\* A row written by an UPDATE: its desired revision is kept or grows, and so
\* does what the invariant says of the row.
LEMMA UpdatedAdvances ==
  ASSUME AheadInv, NEW i, NEW row, rows' = Updated(rows, i, row), retired' = retired,
         i \in DOMAIN rows => rows[i].desired =< row.desired /\ row.applied =< row.desired
  PROVE  RowsAdvance /\ AppliedNotAhead'
<1>1. \A k \in DOMAIN rows : rows[k].desired \in Nat
  BY DEF AheadInv, TypeOK, RowsOK, Row
<1>2. DOMAIN rows' = DOMAIN rows
  BY DEF Updated
<1>3. \A k \in DOMAIN rows : rows[k].desired =< rows'[k].desired
  BY <1>1 DEF Updated
<1>4. AppliedNotAhead'
  BY DEF AheadInv, AppliedNotAhead, Updated
<1> QED BY <1>2, <1>3, <1>4 DEF RowsAdvance, AheadInv

LEMMA RewriteAdvances ==
  ASSUME AheadInv, NEW i \in DOMAIN rows, NEW row \in Row,
         row.desired = rows[i].desired, row.applied = rows[i].applied,
         Rewrite(i, row), retired' = retired
  PROVE  RowsAdvance /\ AppliedNotAhead'
<1>1. rows[i].applied =< rows[i].desired /\ row.applied \in Nat /\ row.desired \in Nat
  BY DEF AheadInv, AppliedNotAhead, Row
<1>2. /\ Pending(row).desired = row.desired + 1
      /\ Pending(row).applied = row.applied
  BY DEF Pending, Row
<1>3. /\ rows[i].desired =< Pending(row).desired
      /\ Pending(row).applied =< Pending(row).desired
  BY <1>1, <1>2
<1> QED BY <1>3, UpdatedAdvances DEF Rewrite

LEMMA UnchangedAdvances ==
  ASSUME AheadInv, UNCHANGED <<rows, retired>> PROVE RowsAdvance /\ AppliedNotAhead'
<1>1. \A i \in DOMAIN rows : rows[i].desired \in Nat
  BY DEF AheadInv, TypeOK, RowsOK, Row
<1> QED BY <1>1 DEF AheadInv, RowsAdvance, AppliedNotAhead

\* A request that moves to another stage, or ends.
LEMMA GotoKeepsRevision ==
  ASSUME NEW r, r \in DOMAIN job, job[r] \in Job,
         (\E stage : Goto(r, stage)) \/ (\E how \in Ended : End(r, how))
  PROVE  \/ job'[r].stage \in Ended
         \/ job'[r].inb = job[r].inb /\ job'[r].revision = job[r].revision
  BY DEF Goto, End, Job

LEMMA AheadSubmit ==
  ASSUME AheadInv, NEW r \in Request, Submit(r) PROVE AheadInv'
<1>0. TypeOK'
  BY SubmitType DEF AheadInv
<1>1. OnlyOwn(r) /\ r \in DOMAIN job'
  BY OwnSubmit DEF OnlyOwn
<1>2. retired' = retired
  BY DEF Submit
\* The new request holds the desired revision of the row it read or inserted.
<1> DEFINE Holds(i, row) ==
      /\ r \in DOMAIN job' /\ job'[r].inb = i /\ job'[r].revision = row.desired
<1>3. \A op, i, row, oldTags, stage :
        Start(r, op, i, row, oldTags, stage) => Holds(i, row)
  BY DEF Start, Inserted
<1>4. RowsAdvance /\ AppliedNotAhead' /\ Reached(r)'
  <2>1. CASE \E t, l, e : InsertInbound(r, t, l, e)
    <3>1. PICK t, l, e : InsertInbound(r, t, l, e)
      BY <2>1
    <3> DEFINE row == [tag |-> t, listener |-> l, clients |-> {}, enabled |-> e,
                       desired |-> 1, applied |-> 0, status |-> "PENDING"]
    <3>2. PICK i \in Inbound \ (DOMAIN rows \cup retired) :
            /\ rows' = Inserted(rows, i, row)
            /\ Start(r, "create", i, row, {}, "reread")
      BY <3>1 DEF InsertInbound
    <3>3. Holds(i, row)
      BY <1>3, <3>2
    <3>4. \A k \in DOMAIN rows : rows[k].desired \in Nat /\ rows[k].applied =< rows[k].desired
      BY DEF AheadInv, AppliedNotAhead, TypeOK, RowsOK, Row
    <3>5. /\ DOMAIN rows' = DOMAIN rows \cup {i}
          /\ rows'[i] = row /\ \A k \in DOMAIN rows : rows'[k] = rows[k]
      BY <3>2 DEF Inserted
    <3>6. RowsAdvance
      BY <1>2, <3>2, <3>4, <3>5 DEF AheadInv, RowsAdvance
    <3>7. AppliedNotAhead'
      BY <3>4, <3>5 DEF AppliedNotAhead
    <3>8. Reached(r)'
      BY <3>3, <3>5 DEF Reached
    <3> QED BY <3>6, <3>7, <3>8
  <2>2. CASE UNCHANGED rows /\ \E i, op, oldTags, stage :
                i \in DOMAIN rows /\ Start(r, op, i, rows[i], oldTags, stage)
    <3>1. PICK i, op, oldTags, stage :
            i \in DOMAIN rows /\ Start(r, op, i, rows[i], oldTags, stage)
      BY <2>2
    <3>2. Holds(i, rows[i]) /\ rows[i].desired \in Nat
      BY <1>3, <3>1 DEF AheadInv, TypeOK, RowsOK, Row
    <3>3. Reached(r)'
      BY <2>2, <3>1, <3>2 DEF Reached
    <3> QED BY <1>2, <2>2, <3>3, UnchangedAdvances
  <2>3. CASE AssignedClientChange(r)
    <3>1. PICK i \in DOMAIN rows, new \in SUBSET Client :
            /\ Rewrite(i, [rows[i] EXCEPT !.clients = new])
            /\ Start(r, "assigned", i, rows[i], {rows[i].tag}, "reread")
      <4>1. \A i \in DOMAIN rows : rows[i].clients \in SUBSET Client
        BY DEF AheadInv, TypeOK, RowsOK, Row
      <4> QED BY <2>3, <4>1, EditsType DEF AssignedClientChange
    <3> DEFINE row == [rows[i] EXCEPT !.clients = new]
    <3>2. /\ rows[i] \in Row /\ row \in Row
          /\ row.desired = rows[i].desired /\ row.applied = rows[i].applied
      BY DEF AheadInv, TypeOK, RowsOK, Row
    <3>3. Rewrite(i, row)
      BY <3>1
    <3> HIDE DEF row
    <3>4. RowsAdvance /\ AppliedNotAhead'
      BY <1>2, <3>2, <3>3, RewriteAdvances
    <3>5. DOMAIN rows' = DOMAIN rows
      BY <3>3 DEF Rewrite, Updated
    <3>6. rows[i].desired =< rows'[i].desired
      BY <3>4, <3>5 DEF RowsAdvance
    <3>7. Holds(i, rows[i])
      BY <1>3, <3>1
    <3>8. Reached(r)'
      BY <3>5, <3>6, <3>7 DEF Reached
    <3> QED BY <3>4, <3>8
  <2> QED BY <2>1, <2>2, <2>3 DEF Submit, Create, Duplicate, Open, ApplyGlobalSettings
<1> QED BY <1>0, <1>1, <1>4, ReachedOthers DEF AheadInv

LEMMA AheadWrite ==
  ASSUME AheadInv, NEW r \in Request, Write(r) PROVE AheadInv'
<1> DEFINE i == job[r].inb
<1>0. TypeOK'
  BY WriteType DEF AheadInv
<1>1. r \in DOMAIN job /\ job[r] \in Job
  BY ProceedIsJob DEF AheadInv, Proceed
<1>2. OnlyOwn(r) /\ r \in DOMAIN job' /\ retired' = retired
  BY <1>1, OwnWrite DEF OnlyOwn, Write
<1>3. RowsAdvance /\ AppliedNotAhead'
  <2>1. CASE \E row \in Row : /\ i \in DOMAIN rows /\ Rewrite(i, row)
                              /\ row.desired = rows[i].desired
                              /\ row.applied = rows[i].applied
    BY <1>2, <2>1, RewriteAdvances
  <2>2. CASE UNCHANGED rows
    BY <1>2, <2>2, UnchangedAdvances
  <2>3. CASE WriteClients(r)
    <3>1. PICK new :
            rows' = Updated(rows, i, [rows[i] EXCEPT !.clients = new])
      BY <2>3 DEF WriteClients
    <3> DEFINE row == [rows[i] EXCEPT !.clients = new]
    <3>2. i \in DOMAIN rows =>
            /\ row.desired = rows[i].desired /\ row.applied = rows[i].applied
            /\ rows[i].desired \in Nat /\ rows[i].applied =< rows[i].desired
      BY DEF AheadInv, AppliedNotAhead, TypeOK, RowsOK, Row
    <3>3. i \in DOMAIN rows =>
            rows[i].desired =< row.desired /\ row.applied =< row.desired
      BY <3>2
    <3>4. rows' = Updated(rows, i, row)
      BY <3>1
    <3> HIDE DEF row
    <3> QED BY <1>2, <3>3, <3>4, UpdatedAdvances
  <2>4. CASE WriteUpdate(r) \/ WriteEnabled(r) \/ WriteCreateClient(r)
             \/ MarkPending(r) \/ WriteDelete(r)
    <3>1. i \in DOMAIN rows /\ rows[i] \in Row /\ rows[i].clients \in SUBSET Client
      BY <1>1, <2>4, StoredRow DEF AheadInv, WriteUpdate, WriteEnabled,
         WriteCreateClient, MarkPending, WriteDelete, Writing
    <3> DEFINE Same(row) == /\ row \in Row /\ row.desired = rows[i].desired
                            /\ row.applied = rows[i].applied
    <3>2. ASSUME NEW row, Same(row), Rewrite(i, row)
          PROVE  RowsAdvance /\ AppliedNotAhead'
      BY <2>1, <3>1, <3>2
    <3>3. Same(rows[i])
      BY <3>1
    <3>4. CASE WriteUpdate(r)
      <4>1. PICK t \in Tag, l \in Listener, e \in BOOLEAN :
              Rewrite(i, [rows[i] EXCEPT !.tag = t, !.listener = l, !.enabled = e])
        BY <3>4 DEF WriteUpdate
      <4>2. Same([rows[i] EXCEPT !.tag = t, !.listener = l, !.enabled = e])
        BY <3>1 DEF Row
      <4> HIDE DEF Same
      <4> QED BY <3>2, <4>1, <4>2
    <3>5. ASSUME NEW e \in BOOLEAN, Rewrite(i, [rows[i] EXCEPT !.enabled = e])
          PROVE  RowsAdvance /\ AppliedNotAhead'
      <4>1. Same([rows[i] EXCEPT !.enabled = e])
        BY <3>1 DEF Row
      <4> HIDE DEF Same
      <4> QED BY <3>2, <3>5, <4>1
    <3>6. CASE WriteCreateClient(r)
      <4>1. PICK cs \in SUBSET Client : Rewrite(i, [rows[i] EXCEPT !.clients = cs])
        BY <3>1, <3>6, EditsType DEF WriteCreateClient
      <4>2. Same([rows[i] EXCEPT !.clients = cs])
        BY <3>1 DEF Row
      <4> HIDE DEF Same
      <4> QED BY <3>2, <4>1, <4>2
    <3>7. CASE MarkPending(r)
      <4> HIDE DEF Same
      <4> QED BY <3>2, <3>3, <3>7 DEF MarkPending
    <3>8. CASE WriteEnabled(r)
      BY <3>5, <3>8 DEF WriteEnabled
    <3>9. CASE WriteDelete(r)
      BY <2>2, <3>5, <3>9 DEF WriteDelete
    <3> QED BY <2>4, <3>4, <3>6, <3>7, <3>8, <3>9
  <2> QED BY <2>2, <2>3, <2>4 DEF Write, NothingExpired, Reread
<1>4. Reached(r)'
  <2>1. CASE Reread(r)
    <3>1. /\ i \in DOMAIN rows /\ UNCHANGED rows /\ rows[i].desired \in Nat
          /\ job'[r].inb = i /\ job'[r].revision = rows[i].desired
      BY <1>1, <2>1, StoredRow DEF AheadInv, Reread, Job, Row
    <3> QED BY <3>1 DEF Reached
  <2>2. CASE ~Reread(r)
    <3>1. (\E stage : Goto(r, stage)) \/ (\E how \in Ended : End(r, how))
      BY <2>2 DEF Write, WriteUpdate, WriteEnabled, WriteCreateClient, WriteClients,
         NothingExpired, MarkPending, WriteDelete, Ended
    <3> QED BY <1>0, <1>1, <1>3, <3>1, GotoKeepsRevision, ReachedOwn
  <2> QED BY <2>1, <2>2
<1> QED BY <1>0, <1>2, <1>3, <1>4, ReachedOthers DEF AheadInv

LEMMA AheadPrepare ==
  ASSUME AheadInv, NEW r \in Request, Prepare(r) PROVE AheadInv'
<1> DEFINE i == job[r].inb
<1>0. TypeOK'
  BY PrepareType DEF AheadInv
<1>1. r \in DOMAIN job /\ job[r] \in Job
  BY ProceedIsJob DEF AheadInv, Proceed
<1>2. OnlyOwn(r) /\ r \in DOMAIN job' /\ retired' = retired
  BY <1>1, OwnPrepare DEF OnlyOwn, Prepare
<1>3. RowsAdvance /\ AppliedNotAhead'
  <2>1. CASE UNCHANGED rows
    BY <1>2, <2>1, UnchangedAdvances
  <2>2. CASE MarkApplying(r)
    <3> DEFINE row == [rows[i] EXCEPT !.status = "APPLYING"]
    <3>1. i \in DOMAIN rows =>
            /\ row.desired = rows[i].desired /\ row.applied = rows[i].applied
            /\ rows[i].desired \in Nat /\ rows[i].applied =< rows[i].desired
      BY DEF AheadInv, AppliedNotAhead, TypeOK, RowsOK, Row
    <3>2. i \in DOMAIN rows =>
            rows[i].desired =< row.desired /\ row.applied =< row.desired
      BY <3>1
    <3>3. rows' = Updated(rows, i, row)
      BY <2>2 DEF MarkApplying
    <3> HIDE DEF row
    <3> QED BY <1>2, <3>2, <3>3, UpdatedAdvances
  <2> QED BY <2>1, <2>2 DEF Prepare, ReadPolicy, Build, ReadCurrent, BeginApply,
             ValidateConfig, Backup
<1>4. job'[r].inb = i /\ job'[r].revision = job[r].revision
  <2>1. CASE \E stage : Goto(r, stage)
    BY <1>1, <2>1 DEF Goto, Job
  <2>2. CASE ReadPolicy(r)
    BY <1>1, <2>2 DEF ReadPolicy, Job
  <2>3. CASE Build(r)
    BY <1>1, <2>3, BuildEffect
  <2>4. CASE ReadCurrent(r)
    BY <1>1, <2>4 DEF ReadCurrent, Job
  <2> QED BY <2>1, <2>2, <2>3, <2>4 DEF Prepare, BeginApply, MarkApplying,
             ValidateConfig, Backup
<1>5. Reached(r)'
  BY <1>0, <1>1, <1>3, <1>4, ReachedOwn
<1> QED BY <1>0, <1>2, <1>3, <1>5, ReachedOthers DEF AheadInv

LEMMA AheadPerform ==
  ASSUME AheadInv, NEW r \in Request, Perform(r) PROVE AheadInv'
<1>0. TypeOK'
  BY PerformType DEF AheadInv
<1>1. r \in DOMAIN job /\ job[r] \in Job
  BY ProceedIsJob DEF AheadInv, Proceed
<1>2. OnlyOwn(r) /\ r \in DOMAIN job' /\ UNCHANGED <<rows, retired>>
  BY <1>1, OwnPerform DEF OnlyOwn, Perform
<1>3. RowsAdvance /\ AppliedNotAhead'
  BY <1>2, UnchangedAdvances
<1>4. job'[r].inb = job[r].inb /\ job'[r].revision = job[r].revision
  <2>1. CASE \E stage : Goto(r, stage)
    BY <1>1, <2>1 DEF Goto, Job
  <2>2. CASE RestoreHealthCheck(r)
    BY <1>1, <2>2 DEF RestoreHealthCheck, Job
  <2> QED BY <2>1, <2>2 DEF Perform, HotRemoveUsers, HotAddUsers, HotReplaceInbound,
             RestartWithConfig, HealthCheck, RestoreConfig, Call, Refused, Unwind
<1>5. Reached(r)'
  BY <1>0, <1>1, <1>3, <1>4, ReachedOwn
<1> QED BY <1>0, <1>2, <1>3, <1>5, ReachedOthers DEF AheadInv

LEMMA AheadConclude ==
  ASSUME AheadInv, NEW r \in Request, Conclude(r) PROVE AheadInv'
<1> DEFINE i == job[r].inb
<1>0. TypeOK'
  BY ConcludeType DEF AheadInv
<1>1. r \in DOMAIN job /\ job[r] \in Job
  BY ProceedIsJob DEF AheadInv, Proceed
<1>2. OnlyOwn(r) /\ r \in DOMAIN job'
  BY <1>1, OwnConclude DEF OnlyOwn
<1>3. RowsAdvance /\ AppliedNotAhead'
  <2>1. CASE UNCHANGED <<rows, retired>>
    BY <2>1, UnchangedAdvances
\* The revision recorded as applied is one the row has reached.
  <2>2. CASE /\ UNCHANGED retired
             /\ rows' = Updated(rows, i,
                  [rows[i] EXCEPT !.status = "APPLIED", !.applied = job[r].revision])
    <3> DEFINE row == [rows[i] EXCEPT !.status = "APPLIED", !.applied = job[r].revision]
    <3>1. i \in DOMAIN rows => job[r].revision =< rows[i].desired
      BY <1>1 DEF AheadInv, Reached, Job, Ended, Stage, Mutating
    <3>2. i \in DOMAIN rows =>
            /\ row.desired = rows[i].desired /\ row.applied = job[r].revision
            /\ rows[i].desired \in Nat
      BY DEF AheadInv, TypeOK, RowsOK, Row
    <3>3. i \in DOMAIN rows =>
            rows[i].desired =< row.desired /\ row.applied =< row.desired
      BY <3>1, <3>2
    <3>4. rows' = Updated(rows, i, row)
      BY <2>2
    <3> HIDE DEF row
    <3> QED BY <2>2, <3>3, <3>4, UpdatedAdvances
  <2>3. CASE MarkApplyFailure(r)
    <3>1. PICK status :
            rows' = Updated(rows, i, [rows[i] EXCEPT !.status = status])
      BY <2>3 DEF MarkApplyFailure
    <3> DEFINE row == [rows[i] EXCEPT !.status = status]
    <3>2. i \in DOMAIN rows =>
            /\ row.desired = rows[i].desired /\ row.applied = rows[i].applied
            /\ rows[i].desired \in Nat /\ rows[i].applied =< rows[i].desired
      BY DEF AheadInv, AppliedNotAhead, TypeOK, RowsOK, Row
    <3>3. i \in DOMAIN rows =>
            rows[i].desired =< row.desired /\ row.applied =< row.desired
      BY <3>2
    <3>4. rows' = Updated(rows, i, row) /\ retired' = retired
      BY <2>3, <3>1 DEF MarkApplyFailure
    <3> HIDE DEF row
    <3> QED BY <3>3, <3>4, UpdatedAdvances
  <2>4. CASE Remove(r)
    <3>1. /\ DOMAIN rows' = DOMAIN rows \ {i} /\ retired' = retired \cup {i}
          /\ \A k \in DOMAIN rows' : rows'[k] = rows[k]
      BY <2>4 DEF Remove
    <3>2. \A k \in DOMAIN rows : rows[k].desired \in Nat
      BY DEF AheadInv, TypeOK, RowsOK, Row
    <3>3. RowsAdvance
      BY <3>1, <3>2 DEF AheadInv, RowsAdvance
    <3> QED BY <3>1, <3>3 DEF AheadInv, AppliedNotAhead
  <2> QED BY <2>1, <2>2, <2>3, <2>4 DEF Conclude, MarkApplySuccess, Abort
<1>4. (\E stage : Goto(r, stage)) \/ (\E how \in Ended : End(r, how))
  BY DEF Conclude, MarkApplySuccess, MarkApplyFailure, Remove, Abort, Unwind, Ended
<1>5. Reached(r)'
  BY <1>0, <1>1, <1>3, <1>4, GotoKeepsRevision, ReachedOwn
<1> QED BY <1>0, <1>2, <1>3, <1>5, ReachedOthers DEF AheadInv

LEMMA AheadInductive == AheadInv /\ [Next]_vars => AheadInv'
<1> SUFFICES ASSUME AheadInv, [Next]_vars PROVE AheadInv'
  OBVIOUS
<1>0. TypeOK'
  BY TypeInductive DEF AheadInv
<1>1. CASE UNCHANGED <<rows, retired, job>>
  BY <1>0, <1>1 DEF AheadInv, AppliedNotAhead, Reached
<1>2. ASSUME NEW r \in Request, Submit(r) PROVE AheadInv'
  BY <1>2, AheadSubmit
<1>3. ASSUME NEW r \in Request, Proceed(r) PROVE AheadInv'
  BY <1>3, AheadWrite, AheadPrepare, AheadPerform, AheadConclude DEF Proceed
<1>4. ASSUME NEW r \in Request, Crash(r) PROVE AheadInv'
  <2>1. /\ r \in DOMAIN job /\ job'[r].stage \in Ended
        /\ DOMAIN job' = DOMAIN job /\ \A q \in DOMAIN job \ {r} : job'[q] = job[q]
        /\ UNCHANGED <<rows, retired>>
    BY <1>4 DEF Crash, Running, End, Ended
  <2> QED BY <1>0, <2>1 DEF AheadInv, AppliedNotAhead, Reached
<1>5. ASSUME NEW i \in Inbound, ClientExpires(i) PROVE AheadInv'
  <2>1. /\ DOMAIN rows' = DOMAIN rows /\ UNCHANGED <<job, retired>>
        /\ \A k \in DOMAIN rows : /\ rows'[k].desired = rows[k].desired
                                  /\ rows'[k].applied = rows[k].applied
    BY <1>5 DEF ClientExpires, AheadInv, TypeOK, RowsOK, Row
  <2> QED BY <1>0, <2>1 DEF AheadInv, AppliedNotAhead, Reached
<1> QED BY <1>1, <1>2, <1>3, <1>4, <1>5 DEF Next, SavePolicy, vars

\* However requests interleave on an inbound, and even when one records a
\* revision that is stale by then, the revision the panel calls applied is never
\* ahead of the one that is desired.
THEOREM AppliedNeverAhead == Spec => []AppliedNotAhead
<1>1. Init => AheadInv
  <2> SUFFICES ASSUME Init PROVE AheadInv
    OBVIOUS
  <2>1. PICK stored \in SUBSET Inbound : rows \in [stored -> AppliedRow]
    BY DEF Init
  <2>2. AppliedNotAhead
    BY <2>1, AppliedRowIs DEF AppliedNotAhead
  <2>3. retired = {} /\ DOMAIN job = {}
    BY DEF Init
  <2> QED BY <2>2, <2>3, InitType DEF AheadInv
<1>2. AheadInv => AppliedNotAhead
  BY DEF AheadInv
<1> QED BY <1>1, <1>2, AheadInductive, PTL DEF Spec

-----------------------------------------------------------------------------
(* Requests one at a time: what a rollback leaves behind *)

\* Serialised requests: at most one of them is at work.
Sole == \A q, r \in DOMAIN job : Running(q) /\ Running(r) => q = r

\* What a request that restored, or says that it did, may rely on.
Restored(r) ==
  /\ job[r].stage = "restoreHealth" => runtime = job[r].previous
  /\ (job[r].stage = "failure" /\ job[r].rolledBack = TRUE)
       => runtime = job[r].previous
  /\ job[r].stage \notin Ended \cup {"failure"} => job[r].rolledBack = FALSE

RollbackInv == TypeOK /\ Sole /\ \A r \in DOMAIN job : Restored(r)

LEMMA SoleProceed ==
  ASSUME Sole, NEW r, Running(r), OnlyOwn(r) PROVE Sole'
<1>1. \A q \in DOMAIN job' : Running(q)' => q \in DOMAIN job /\ Running(q)
  BY DEF Running, OnlyOwn
<1> QED BY <1>1 DEF Sole

LEMMA SoleSubmit ==
  ASSUME Serialised, NEW r \in Request, Submit(r)
  PROVE  Quiet /\ Sole'
<1>1. Quiet
  <2>1. \A op, i, row, oldTags, stage : Start(r, op, i, row, oldTags, stage) => Quiet
    BY DEF Start
  <2> QED BY <2>1 DEF Submit, Create, Duplicate, InsertInbound, Open,
             AssignedClientChange, ApplyGlobalSettings
<1>2. OnlyOwn(r)
  BY OwnSubmit
<1>3. \A q \in DOMAIN job' \ {r} : ~Running(q)'
  BY <1>1, <1>2 DEF OnlyOwn, Quiet, Running
<1> QED BY <1>1, <1>3 DEF Sole, Running

\* A request that has ended relies on nothing.
LEMMA RestoredOthers ==
  ASSUME Sole, NEW r, Running(r) \/ Quiet, OnlyOwn(r), Restored(r)'
  PROVE  \A q \in DOMAIN job' : Restored(q)'
<1> SUFFICES ASSUME NEW q \in DOMAIN job' \ {r} PROVE Restored(q)'
  OBVIOUS
<1>1. q \in DOMAIN job /\ job'[q] = job[q] /\ job[q].stage \in Ended
  BY DEF OnlyOwn, Sole, Running, Quiet
<1> QED BY <1>1 DEF Restored, Ended

LEMMA ProceedIsRunning ==
  ASSUME TypeOK, NEW r \in Request, Proceed(r) PROVE Running(r)
<1>1. r \in DOMAIN job /\ job[r] \in Job
  BY ProceedIsJob
<1> QED BY <1>1 DEF Running, Job, Stage, Ended, Mutating

\* A request that goes on to a stage with nothing to rely on, or ends.
LEMMA RestoredGoto ==
  ASSUME NEW r, r \in DOMAIN job, job[r] \in Job, Restored(r),
         job[r].stage # "failure",
         \/ \E stage : stage # "restoreHealth" /\ Goto(r, stage)
         \/ \E how \in Ended : End(r, how)
  PROVE  Restored(r)'
<1>0. job[r].stage \notin Ended
  BY DEF Job, Stage, Ended, Mutating
<1>1. CASE \E stage : stage # "restoreHealth" /\ Goto(r, stage)
  <2>1. PICK stage : stage # "restoreHealth" /\ Goto(r, stage)
    BY <1>1
  <2>2. job'[r].stage = stage /\ job'[r].rolledBack = job[r].rolledBack
    BY <2>1 DEF Goto, Job
  <2>3. job[r].rolledBack = FALSE
    BY <1>0 DEF Restored
  <2> QED BY <2>1, <2>2, <2>3 DEF Restored
<1>2. CASE \E how \in Ended : End(r, how)
  BY <1>2 DEF Restored, End, Ended
<1> QED BY <1>1, <1>2

LEMMA SubmitStarts ==
  ASSUME NEW r \in Request, Submit(r)
  PROVE  job'[r].stage \in {"reread", "write", "policy"} /\ job'[r].rolledBack = FALSE
<1>1. \E op, i, row, oldTags : \/ Start(r, op, i, row, oldTags, "reread")
                               \/ Start(r, op, i, row, oldTags, "write")
                               \/ Start(r, op, i, row, oldTags, "policy")
  <2>1. CASE AssignedClientChange(r)
    BY <2>1 DEF AssignedClientChange
  <2>2. CASE Open(r) \/ ApplyGlobalSettings(r)
    BY <2>2 DEF Open, ApplyGlobalSettings
  <2>3. CASE Create(r) \/ Duplicate(r)
    BY <2>3 DEF Create, Duplicate, InsertInbound
  <2> QED BY <2>1, <2>2, <2>3 DEF Submit
<1> QED BY <1>1 DEF Start, Inserted

LEMMA RestoredSubmit ==
  ASSUME NEW r \in Request, Submit(r) PROVE Restored(r)'
  BY SubmitStarts DEF Restored

LEMMA RestoredWrite ==
  ASSUME RollbackInv, NEW r \in Request, Write(r) PROVE Restored(r)'
<1>1. r \in DOMAIN job /\ job[r] \in Job /\ Restored(r)
  BY ProceedIsJob DEF RollbackInv, Proceed
<1>2. job[r].stage \in {"write", "bump", "reread"}
  BY DEF Write, WriteUpdate, WriteEnabled, WriteCreateClient, WriteClients,
     NothingExpired, MarkPending, WriteDelete, Reread, Writing, At
<1>3. CASE Reread(r)
  <2>1. job'[r].stage = "policy" /\ job'[r].rolledBack = job[r].rolledBack
    BY <1>1, <1>3 DEF Reread, Job
  <2>2. job[r].rolledBack = FALSE
    BY <1>1, <1>2 DEF Restored, Ended
  <2> QED BY <2>1, <2>2 DEF Restored
<1>4. CASE ~Reread(r)
  <2>1. \/ \E stage : stage # "restoreHealth" /\ Goto(r, stage)
        \/ \E how \in Ended : End(r, how)
    BY <1>4 DEF Write, WriteUpdate, WriteEnabled, WriteCreateClient, WriteClients,
       NothingExpired, MarkPending, WriteDelete, Ended
  <2> QED BY <1>1, <1>2, <2>1, RestoredGoto
<1> QED BY <1>3, <1>4

LEMMA RestoredPrepare ==
  ASSUME RollbackInv, NEW r \in Request, Prepare(r) PROVE Restored(r)'
<1>1. r \in DOMAIN job /\ job[r] \in Job /\ Restored(r)
  BY ProceedIsJob DEF RollbackInv, Proceed
<1>2. job[r].stage \in {"policy", "build", "current", "begin", "applying",
                        "validate", "backup"}
  BY DEF Prepare, ReadPolicy, Build, ReadCurrent, BeginApply, MarkApplying,
     ValidateConfig, Backup, At
<1>3. job[r].rolledBack = FALSE
  BY <1>1, <1>2 DEF Restored, Ended
<1>4. CASE ReadPolicy(r) \/ Build(r) \/ ReadCurrent(r)
  <2> DEFINE Onward == /\ job'[r].rolledBack = job[r].rolledBack
                       /\ job'[r].stage \in {"build", "begin", "current"}
  <2>1. CASE ReadPolicy(r)
    <3>1. Onward
      BY <1>1, <2>1 DEF ReadPolicy, Job
    <3> QED BY <1>3, <3>1 DEF Restored
  <2>2. CASE Build(r)
    <3>1. Onward
      BY <1>1, <2>2, BuildEffect
    <3> QED BY <1>3, <3>1 DEF Restored
  <2>3. CASE ReadCurrent(r)
    <3>1. Onward
      BY <1>1, <2>3 DEF ReadCurrent, Job
    <3> QED BY <1>3, <3>1 DEF Restored
  <2> QED BY <1>4, <2>1, <2>2, <2>3
<1>5. CASE BeginApply(r) \/ MarkApplying(r) \/ ValidateConfig(r) \/ Backup(r)
  <2>1. FirstCall(job[r]) # "restoreHealth"
    BY <1>1, FirstCallStage DEF Job, Mutating
  <2>2. \E stage : stage # "restoreHealth" /\ Goto(r, stage)
    BY <1>5, <2>1 DEF BeginApply, MarkApplying, ValidateConfig, Backup
  <2> QED BY <1>1, <1>2, <2>2, RestoredGoto
<1> QED BY <1>4, <1>5 DEF Prepare

LEMMA RestoredPerform ==
  ASSUME RollbackInv, NEW r \in Request, Perform(r) PROVE Restored(r)'
<1>1. r \in DOMAIN job /\ job[r] \in Job /\ Restored(r)
  BY ProceedIsJob DEF RollbackInv, Proceed
<1>2. job[r].stage \in Mutating \cup {"health", "restore", "restoreHealth"}
  BY DEF Perform, HotRemoveUsers, HotAddUsers, HotReplaceInbound, RestartWithConfig,
     HealthCheck, RestoreConfig, RestoreHealthCheck, At, Mutating
<1>3. CASE RestoreConfig(r)
  <2>1. CASE runtime' = job[r].previous /\ Goto(r, "restoreHealth")
    <3>1. /\ job'[r].stage = "restoreHealth" /\ job'[r].previous = job[r].previous
          /\ job'[r].rolledBack = job[r].rolledBack
      BY <1>1, <2>1 DEF Goto, Job
    <3>2. job[r].rolledBack = FALSE
      BY <1>1, <1>3 DEF RestoreConfig, At, Restored, Ended
    <3> QED BY <2>1, <3>1, <3>2 DEF Restored
  <2>2. CASE Goto(r, "failure")
    BY <1>1, <1>2, <2>2, RestoredGoto DEF Mutating
  <2> QED BY <1>3, <2>1, <2>2 DEF RestoreConfig
<1>4. CASE RestoreHealthCheck(r)
  <2>1. /\ job'[r].stage = "failure" /\ job'[r].previous = job[r].previous
        /\ runtime' = runtime
    BY <1>1, <1>4 DEF RestoreHealthCheck, Job
  <2>2. runtime = job[r].previous
    BY <1>1, <1>4 DEF RestoreHealthCheck, At, Restored
  <2> QED BY <2>1, <2>2 DEF Restored, Ended
<1>5. CASE ~RestoreConfig(r) /\ ~RestoreHealthCheck(r)
  <2>1. \E stage : stage # "restoreHealth" /\ Goto(r, stage)
    BY <1>5 DEF Perform, HotRemoveUsers, HotAddUsers, HotReplaceInbound,
       RestartWithConfig, HealthCheck, Call, Refused, Unwind
  <2> QED BY <1>1, <1>2, <2>1, RestoredGoto DEF Mutating
<1> QED BY <1>3, <1>4, <1>5

LEMMA RestoredConclude ==
  ASSUME RollbackInv, NEW r \in Request, Conclude(r) PROVE Restored(r)'
<1>1. r \in DOMAIN job /\ job[r] \in Job /\ Restored(r)
  BY ProceedIsJob DEF RollbackInv, Proceed
<1>2. CASE MarkApplyFailure(r)
  BY <1>1, <1>2 DEF MarkApplyFailure, End, Restored, Ended
<1>3. CASE ~MarkApplyFailure(r)
  <2>1. job[r].stage # "failure"
    BY <1>3 DEF Conclude, MarkApplySuccess, Remove, Abort, At
  <2>2. \/ \E stage : stage # "restoreHealth" /\ Goto(r, stage)
        \/ \E how \in Ended : End(r, how)
    BY <1>3 DEF Conclude, MarkApplySuccess, Remove, Abort, Unwind, Ended
  <2> QED BY <1>1, <2>1, <2>2, RestoredGoto
<1> QED BY <1>2, <1>3

LEMMA RollbackInductive ==
  ASSUME Serialised PROVE RollbackInv /\ [Next]_vars => RollbackInv'
<1> SUFFICES ASSUME RollbackInv, [Next]_vars PROVE RollbackInv'
  OBVIOUS
<1>0. TypeOK'
  BY TypeInductive DEF RollbackInv
<1>1. CASE UNCHANGED <<job, runtime>>
  BY <1>0, <1>1 DEF RollbackInv, Sole, Restored, Running
<1>2. ASSUME NEW r \in Request, Submit(r) PROVE RollbackInv'
  <2>1. OnlyOwn(r) /\ Quiet /\ Sole' /\ Restored(r)'
    BY <1>2, OwnSubmit, SoleSubmit, RestoredSubmit
  <2> QED BY <1>0, <2>1, RestoredOthers DEF RollbackInv
<1>3. ASSUME NEW r \in Request, Proceed(r) PROVE RollbackInv'
  <2>1. Running(r) /\ OnlyOwn(r)
    BY <1>3, ProceedIsRunning, OwnWrite, OwnPrepare, OwnPerform, OwnConclude
       DEF RollbackInv, Proceed, Running
  <2>2. Restored(r)'
    BY <1>3, RestoredWrite, RestoredPrepare, RestoredPerform, RestoredConclude
       DEF Proceed
  <2> QED BY <1>0, <2>1, <2>2, SoleProceed, RestoredOthers DEF RollbackInv
<1>4. ASSUME NEW r \in Request, Crash(r) PROVE RollbackInv'
  <2>1. Running(r) /\ OnlyOwn(r) /\ Restored(r)'
    BY <1>4 DEF Crash, End, OnlyOwn, Restored, Running, Ended
  <2> QED BY <1>0, <2>1, SoleProceed, RestoredOthers DEF RollbackInv
<1> QED BY <1>1, <1>2, <1>3, <1>4 DEF Next, ClientExpires, SavePolicy, vars

\* Of all the steps, only markApplyFailure writes ROLLED_BACK, and only for a
\* request whose restore was confirmed by the health check.
LEMMA RolledBackOnce ==
  ASSUME RollbackInv, [Next]_vars, NEW r \in DOMAIN revisions \cap DOMAIN revisions',
         revisions'[r].status = "ROLLED_BACK", revisions[r].status # "ROLLED_BACK"
  PROVE  MarkApplyFailure(r) /\ job[r].rolledBack = TRUE
<1>0. \A q \in DOMAIN revisions : revisions[q] \in Revision
  BY DEF RollbackInv, TypeOK, RevisionsOK
<1>1. ~UNCHANGED revisions
  OBVIOUS
<1>2. PICK q \in Request : Prepare(q) \/ Conclude(q)
  BY <1>1 DEF Next, Submit, Crash, Proceed, Write, Perform, ClientExpires,
     SavePolicy, vars
<1>3. q \in DOMAIN job /\ job[q] \in Job
  BY <1>2, ProceedIsJob DEF RollbackInv, Proceed
<1>4. CASE BeginApply(q)
\* The revision is a new one, or written anew as VALIDATING.
  BY <1>4 DEF BeginApply, Inserted
<1>5. CASE Backup(q)
  BY <1>0, <1>1, <1>5 DEF Backup, Updated, Revision
<1>6. CASE Remove(q)
  BY <1>6 DEF Remove
<1>7. CASE MarkApplySuccess(q)
  BY <1>0, <1>1, <1>7 DEF MarkApplySuccess, Record, Updated, Revision
<1>8. CASE MarkApplyFailure(q)
  <2> DEFINE status == IF job[q].rolledBack THEN "ROLLED_BACK" ELSE "FAILED"
  <2>1. revisions' = Updated(revisions, q, [revisions[q] EXCEPT !.status = status])
    BY <1>8 DEF MarkApplyFailure, Record
  <2>2. q = r
    BY <2>1 DEF Updated
  <2>3. revisions'[r].status = status
    BY <1>0, <2>1, <2>2 DEF Updated, Revision
  <2>4. job[r].rolledBack \in BOOLEAN
    BY <1>3, <2>2 DEF Job
  <2> QED BY <1>8, <2>2, <2>3, <2>4
<1> QED BY <1>1, <1>2, <1>4, <1>5, <1>6, <1>7, <1>8
       DEF Prepare, ReadPolicy, Build, ReadCurrent, MarkApplying, ValidateConfig,
           Conclude, Abort

\* When requests are served one at a time, a revision that is recorded as
\* rolled back leaves the instance on the document that was running before it,
\* whichever calls of the runtime failed and however far they got.
THEOREM RollbackAlwaysRestores == ASSUME Serialised PROVE Spec => RollbackRestores
<1> DEFINE Confirmed ==
      \A r \in DOMAIN revisions \cap DOMAIN revisions' :
        (revisions'[r].status = "ROLLED_BACK" /\ revisions[r].status # "ROLLED_BACK")
          => runtime = job[r].previous
<1>1. Init => RollbackInv
  BY InitType DEF Init, RollbackInv, Sole
<1>2. RollbackInv /\ [Next]_vars => RollbackInv'
  BY RollbackInductive
<1>3. RollbackInv /\ [Next]_vars => [Confirmed]_vars
  <2> SUFFICES ASSUME RollbackInv, [Next]_vars,
                      NEW r \in DOMAIN revisions \cap DOMAIN revisions',
                      revisions'[r].status = "ROLLED_BACK",
                      revisions[r].status # "ROLLED_BACK"
               PROVE  runtime = job[r].previous
    OBVIOUS
  <2>1. MarkApplyFailure(r) /\ job[r].rolledBack = TRUE
    BY RolledBackOnce
  <2> QED BY <2>1 DEF MarkApplyFailure, At, RollbackInv, Restored
<1> QED BY <1>1, <1>2, <1>3, PTL DEF Spec, RollbackRestores

-----------------------------------------------------------------------------
(* Requests one at a time: what APPLIED stands for *)

Current ==
  \A i \in DOMAIN rows : rows[i].status = "APPLIED" => rows[i].applied = rows[i].desired

\* A request that is not about to read its row again holds its last revision.
Fresh(r) ==
  (job[r].stage \notin Ended \cup {"reread"} /\ job[r].inb \in DOMAIN rows)
    => job[r].revision = rows[job[r].inb].desired

CurrentInv == TypeOK /\ Sole /\ Current /\ \A r \in DOMAIN job : Fresh(r)

LEMMA FreshOthers ==
  ASSUME Sole, NEW r, Running(r) \/ Quiet, OnlyOwn(r), Fresh(r)'
  PROVE  \A q \in DOMAIN job' : Fresh(q)'
<1> SUFFICES ASSUME NEW q \in DOMAIN job' \ {r} PROVE Fresh(q)'
  OBVIOUS
<1>1. q \in DOMAIN job /\ job'[q] = job[q] /\ job[q].stage \in Ended
  BY DEF OnlyOwn, Sole, Running, Quiet
<1> QED BY <1>1 DEF Fresh

\* The stored rows keep their desired revision.
SameDesired ==
  /\ DOMAIN rows' \subseteq DOMAIN rows
  /\ \A i \in DOMAIN rows' : rows'[i].desired = rows[i].desired

\* A request that ends, reads its row again, or goes on with what it holds.
LEMMA FreshOwn ==
  ASSUME NEW r, r \in DOMAIN job, Fresh(r), job[r].stage \notin Ended,
         \/ job'[r].stage \in Ended \cup {"reread"}
         \/ /\ SameDesired /\ job[r].stage # "reread"
            /\ job'[r].inb = job[r].inb /\ job'[r].revision = job[r].revision
  PROVE  Fresh(r)'
  BY DEF Fresh, SameDesired

LEMMA GotoKeeps ==
  ASSUME NEW r, r \in DOMAIN job, job[r] \in Job, NEW stage, Goto(r, stage)
  PROVE  /\ job'[r].inb = job[r].inb /\ job'[r].revision = job[r].revision
         /\ job'[r].stage = stage
  BY DEF Goto, Job

LEMMA CurrentUpdated ==
  ASSUME Current, NEW i, NEW row, rows' = Updated(rows, i, row),
         i \in DOMAIN rows => row.status # "APPLIED" \/ row.applied = row.desired
  PROVE  Current'
  BY DEF Current, Updated

LEMMA CurrentRewrite ==
  ASSUME Current, NEW i, NEW row \in Row, Rewrite(i, row) PROVE Current'
<1>1. Pending(row).status = "PENDING"
  BY DEF Pending, Row
<1> QED BY <1>1, CurrentUpdated DEF Rewrite

LEMMA CurrentSubmit ==
  ASSUME TypeOK, Current, NEW r \in Request, Submit(r) PROVE Current' /\ Fresh(r)'
<1>1. \A op, i, row, oldTags, stage :
        Start(r, op, i, row, oldTags, stage)
          => /\ job'[r].stage = stage /\ job'[r].inb = i
             /\ job'[r].revision = row.desired
  BY DEF Start, Inserted
<1>2. CASE Create(r) \/ Duplicate(r)
  <2>1. PICK t, l, e : InsertInbound(r, t, l, e)
    BY <1>2 DEF Create, Duplicate
  <2> DEFINE row == [tag |-> t, listener |-> l, clients |-> {}, enabled |-> e,
                     desired |-> 1, applied |-> 0, status |-> "PENDING"]
  <2>2. PICK i : rows' = Inserted(rows, i, row) /\ Start(r, "create", i, row, {}, "reread")
    BY <2>1 DEF InsertInbound
  <2>3. row.status = "PENDING"
    OBVIOUS
  <2> HIDE DEF row
  <2>4. job'[r].stage = "reread"
    BY <1>1, <2>2
  <2>5. Current'
    BY <2>2, <2>3 DEF Current, Inserted
  <2> QED BY <2>4, <2>5 DEF Fresh
<1>3. CASE Open(r) \/ ApplyGlobalSettings(r)
  <2>1. PICK op, i, oldTags, stage : Start(r, op, i, rows[i], oldTags, stage)
    BY <1>3 DEF Open, ApplyGlobalSettings
  <2>2. UNCHANGED rows
    BY <1>3 DEF Open, ApplyGlobalSettings
  <2>3. job'[r].inb = i /\ job'[r].revision = rows[i].desired
    BY <1>1, <2>1
  <2> QED BY <2>2, <2>3 DEF Current, Fresh
<1>4. CASE AssignedClientChange(r)
  <2>1. \A i \in DOMAIN rows : rows[i] \in Row /\ rows[i].clients \in SUBSET Client
    BY DEF TypeOK, RowsOK, Row
  <2>2. PICK i \in DOMAIN rows, new \in SUBSET Client :
          /\ Rewrite(i, [rows[i] EXCEPT !.clients = new])
          /\ Start(r, "assigned", i, rows[i], {rows[i].tag}, "reread")
    BY <1>4, <2>1, EditsType DEF AssignedClientChange
  <2>3. [rows[i] EXCEPT !.clients = new] \in Row
    BY <2>1 DEF Row
  <2>4. Current'
    BY <2>2, <2>3, CurrentRewrite
  <2>5. job'[r].stage = "reread"
    BY <1>1, <2>2
  <2> QED BY <2>4, <2>5 DEF Fresh
<1> QED BY <1>2, <1>3, <1>4 DEF Submit

LEMMA CurrentWrite ==
  ASSUME CurrentInv, NEW r \in Request, Write(r) PROVE Current' /\ Fresh(r)'
<1> DEFINE i == job[r].inb
<1>1. r \in DOMAIN job /\ job[r] \in Job /\ Running(r) /\ Fresh(r)
  BY ProceedIsJob, ProceedIsRunning DEF CurrentInv, Proceed
<1>2. job[r].stage \notin Ended
  BY <1>1 DEF Running
<1>3. ASSUME Goto(r, "reread") \/ End(r, "done") PROVE Fresh(r)'
  <2>1. job'[r].stage \in Ended \cup {"reread"}
    BY <1>1, <1>3, GotoKeeps DEF End, Ended
  <2> QED BY <1>1, <1>2, <2>1, FreshOwn
<1>4. CASE WriteUpdate(r) \/ WriteEnabled(r) \/ WriteCreateClient(r) \/ MarkPending(r)
  <2>1. i \in DOMAIN rows /\ rows[i] \in Row /\ rows[i].clients \in SUBSET Client
    BY <1>1, <1>4, StoredRow DEF CurrentInv, WriteUpdate, WriteEnabled,
       WriteCreateClient, MarkPending, Writing
  <2>2. PICK row \in Row : Rewrite(i, row)
    <3>1. CASE WriteUpdate(r)
      <4>1. PICK t \in Tag, l \in Listener, e \in BOOLEAN :
              Rewrite(i, [rows[i] EXCEPT !.tag = t, !.listener = l, !.enabled = e])
        BY <3>1 DEF WriteUpdate
      <4>2. [rows[i] EXCEPT !.tag = t, !.listener = l, !.enabled = e] \in Row
        BY <2>1 DEF Row
      <4> QED BY <4>1, <4>2
    <3>2. CASE WriteEnabled(r)
      <4>1. PICK e \in BOOLEAN : Rewrite(i, [rows[i] EXCEPT !.enabled = e])
        BY <3>2 DEF WriteEnabled
      <4>2. [rows[i] EXCEPT !.enabled = e] \in Row
        BY <2>1 DEF Row
      <4> QED BY <4>1, <4>2
    <3>3. CASE WriteCreateClient(r)
      <4>1. PICK cs \in SUBSET Client : Rewrite(i, [rows[i] EXCEPT !.clients = cs])
        BY <2>1, <3>3, EditsType DEF WriteCreateClient
      <4>2. [rows[i] EXCEPT !.clients = cs] \in Row
        BY <2>1 DEF Row
      <4> QED BY <4>1, <4>2
    <3>4. CASE MarkPending(r)
      BY <2>1, <3>4 DEF MarkPending
    <3> QED BY <1>4, <3>1, <3>2, <3>3, <3>4
  <2>3. Current'
    BY <2>2, CurrentRewrite DEF CurrentInv
  <2>4. Goto(r, "reread")
    BY <1>4 DEF WriteUpdate, WriteEnabled, WriteCreateClient, MarkPending
  <2> QED BY <1>3, <2>3, <2>4
<1>5. CASE WriteClients(r)
  <2>1. PICK new : rows' = Updated(rows, i, [rows[i] EXCEPT !.clients = new])
    BY <1>5 DEF WriteClients
  <2> DEFINE row == [rows[i] EXCEPT !.clients = new]
  <2>2. i \in DOMAIN rows => /\ row.status = rows[i].status
                             /\ row.applied = rows[i].applied
                             /\ row.desired = rows[i].desired
    BY DEF CurrentInv, TypeOK, RowsOK, Row
  <2>3. rows' = Updated(rows, i, row)
    BY <2>1
  <2> HIDE DEF row
  <2>4. Current' /\ SameDesired
    BY <2>2, <2>3 DEF CurrentInv, Current, SameDesired, Updated
  <2>5. job[r].stage # "reread" /\ Goto(r, "bump")
    BY <1>5 DEF WriteClients, Writing, At
  <2>6. job'[r].inb = job[r].inb /\ job'[r].revision = job[r].revision
    BY <1>1, <2>5, GotoKeeps
  <2> QED BY <1>1, <1>2, <2>4, <2>5, <2>6, FreshOwn
<1>6. CASE NothingExpired(r)
  BY <1>3, <1>6 DEF NothingExpired, CurrentInv, Current
<1>7. CASE WriteDelete(r)
  <2>1. CASE Goto(r, "reread") /\ Rewrite(i, [rows[i] EXCEPT !.enabled = FALSE])
    <3>1. rows[i] \in Row
      BY <1>1, <1>7, StoredRow DEF CurrentInv, WriteDelete, Writing
    <3>2. [rows[i] EXCEPT !.enabled = FALSE] \in Row
      BY <3>1 DEF Row
    <3> QED BY <1>3, <2>1, <3>2, CurrentRewrite DEF CurrentInv
  <2>2. CASE Goto(r, "policy") /\ UNCHANGED rows
    <3>1. SameDesired /\ Current'
      BY <2>2 DEF SameDesired, CurrentInv, Current
    <3>2. job[r].stage # "reread"
      BY <1>7 DEF WriteDelete, Writing, At
    <3>3. job'[r].inb = job[r].inb /\ job'[r].revision = job[r].revision
      BY <1>1, <2>2, GotoKeeps
    <3> QED BY <1>1, <1>2, <3>1, <3>2, <3>3, FreshOwn
  <2> QED BY <1>7, <2>1, <2>2 DEF WriteDelete
<1>8. CASE Reread(r)
  <2>1. /\ UNCHANGED rows
        /\ job'[r].inb = i /\ job'[r].revision = rows[i].desired
    BY <1>1, <1>8 DEF Reread, Job
  <2> QED BY <2>1 DEF Fresh, CurrentInv, Current
<1> QED BY <1>4, <1>5, <1>6, <1>7, <1>8 DEF Write

LEMMA CurrentPrepare ==
  ASSUME CurrentInv, NEW r \in Request, Prepare(r) PROVE Current' /\ Fresh(r)'
<1> DEFINE i == job[r].inb
<1>1. r \in DOMAIN job /\ job[r] \in Job /\ Running(r) /\ Fresh(r)
  BY ProceedIsJob, ProceedIsRunning DEF CurrentInv, Proceed
<1>2. job[r].stage \notin Ended /\ job[r].stage # "reread"
  BY <1>1 DEF Running, Prepare, ReadPolicy, Build, ReadCurrent, BeginApply,
     MarkApplying, ValidateConfig, Backup, At
<1>3. Current' /\ SameDesired
  <2>1. CASE UNCHANGED rows
    BY <2>1 DEF CurrentInv, Current, SameDesired
  <2>2. CASE MarkApplying(r)
    <3> DEFINE row == [rows[i] EXCEPT !.status = "APPLYING"]
    <3>1. i \in DOMAIN rows => row.status = "APPLYING" /\ row.desired = rows[i].desired
      BY DEF CurrentInv, TypeOK, RowsOK, Row
    <3>2. rows' = Updated(rows, i, row)
      BY <2>2 DEF MarkApplying
    <3> HIDE DEF row
    <3> QED BY <3>1, <3>2 DEF CurrentInv, Current, SameDesired, Updated
  <2> QED BY <2>1, <2>2 DEF Prepare, ReadPolicy, Build, ReadCurrent, BeginApply,
             ValidateConfig, Backup
<1>4. job'[r].inb = job[r].inb /\ job'[r].revision = job[r].revision
  <2>1. CASE \E stage : Goto(r, stage)
    BY <1>1, <2>1, GotoKeeps
  <2>2. CASE ReadPolicy(r)
    BY <1>1, <2>2 DEF ReadPolicy, Job
  <2>3. CASE Build(r)
    BY <1>1, <2>3, BuildEffect
  <2>4. CASE ReadCurrent(r)
    BY <1>1, <2>4 DEF ReadCurrent, Job
  <2> QED BY <2>1, <2>2, <2>3, <2>4 DEF Prepare, BeginApply, MarkApplying,
             ValidateConfig, Backup
<1> QED BY <1>1, <1>2, <1>3, <1>4, FreshOwn

LEMMA CurrentPerform ==
  ASSUME CurrentInv, NEW r \in Request, Perform(r) PROVE Current' /\ Fresh(r)'
<1>1. r \in DOMAIN job /\ job[r] \in Job /\ Running(r) /\ Fresh(r)
  BY ProceedIsJob, ProceedIsRunning DEF CurrentInv, Proceed
<1>2. job[r].stage \notin Ended /\ job[r].stage # "reread"
  BY <1>1 DEF Running, Perform, HotRemoveUsers, HotAddUsers, HotReplaceInbound,
     RestartWithConfig, HealthCheck, RestoreConfig, RestoreHealthCheck, At
<1>3. Current' /\ SameDesired
  BY DEF Perform, CurrentInv, Current, SameDesired
<1>4. job'[r].inb = job[r].inb /\ job'[r].revision = job[r].revision
  <2>1. CASE \E stage : Goto(r, stage)
    BY <1>1, <2>1, GotoKeeps
  <2>2. CASE RestoreHealthCheck(r)
    BY <1>1, <2>2 DEF RestoreHealthCheck, Job
  <2> QED BY <2>1, <2>2 DEF Perform, HotRemoveUsers, HotAddUsers, HotReplaceInbound,
             RestartWithConfig, HealthCheck, RestoreConfig, Call, Refused, Unwind
<1> QED BY <1>1, <1>2, <1>3, <1>4, FreshOwn

LEMMA CurrentConclude ==
  ASSUME CurrentInv, NEW r \in Request, Conclude(r) PROVE Current' /\ Fresh(r)'
<1> DEFINE i == job[r].inb
<1>1. r \in DOMAIN job /\ job[r] \in Job /\ Running(r) /\ Fresh(r)
  BY ProceedIsJob, ProceedIsRunning DEF CurrentInv, Proceed
<1>2. job[r].stage \notin Ended
  BY <1>1 DEF Running
<1>3. CASE MarkApplySuccess(r)
  <2>1. Current' /\ SameDesired
    <3>1. CASE UNCHANGED rows
      BY <3>1 DEF CurrentInv, Current, SameDesired
    <3>2. CASE rows' = Updated(rows, i,
                 [rows[i] EXCEPT !.status = "APPLIED", !.applied = job[r].revision])
      <4> DEFINE row == [rows[i] EXCEPT !.status = "APPLIED", !.applied = job[r].revision]
      <4>1. i \in DOMAIN rows => job[r].revision = rows[i].desired
        BY <1>1, <1>2, <1>3 DEF MarkApplySuccess, At, Fresh
      <4>2. i \in DOMAIN rows => /\ row.applied = job[r].revision
                                 /\ row.desired = rows[i].desired
        BY DEF CurrentInv, TypeOK, RowsOK, Row
      <4>3. rows' = Updated(rows, i, row)
        BY <3>2
      <4> HIDE DEF row
      <4> QED BY <4>1, <4>2, <4>3 DEF CurrentInv, Current, SameDesired, Updated
    <3> QED BY <1>3, <3>1, <3>2 DEF MarkApplySuccess
  <2>2. \/ job'[r].stage \in Ended
        \/ job'[r].inb = job[r].inb /\ job'[r].revision = job[r].revision
    <3>1. (\E stage : Goto(r, stage)) \/ (\E how \in Ended : End(r, how))
      BY <1>3 DEF MarkApplySuccess, Unwind, Ended
    <3> QED BY <1>1, <3>1, GotoKeepsRevision
  <2>3. job[r].stage # "reread"
    BY <1>3 DEF MarkApplySuccess, At
  <2> QED BY <1>1, <1>2, <2>1, <2>2, <2>3, FreshOwn
<1>4. CASE MarkApplyFailure(r) \/ Remove(r) \/ Abort(r)
  <2>1. job'[r].stage \in Ended
    BY <1>1, <1>4 DEF MarkApplyFailure, Remove, Abort, End, Ended
  <2>2. Fresh(r)'
    BY <2>1 DEF Fresh
  <2>3. CASE MarkApplyFailure(r)
    <3>1. PICK status \in {"ROLLED_BACK", "FAILED"} :
            rows' = Updated(rows, i, [rows[i] EXCEPT !.status = status])
      BY <2>3 DEF MarkApplyFailure
    <3>2. i \in DOMAIN rows => [rows[i] EXCEPT !.status = status].status = status
      BY DEF CurrentInv, TypeOK, RowsOK, Row
    <3> QED BY <2>2, <3>1, <3>2, CurrentUpdated DEF CurrentInv
  <2>4. CASE Remove(r)
    BY <2>2, <2>4 DEF Remove, CurrentInv, Current
  <2>5. CASE Abort(r)
    BY <2>2, <2>5 DEF Abort, CurrentInv, Current
  <2> QED BY <1>4, <2>3, <2>4, <2>5
<1> QED BY <1>3, <1>4 DEF Conclude

LEMMA CurrentInductive ==
  ASSUME Serialised PROVE CurrentInv /\ [Next]_vars => CurrentInv'
<1> SUFFICES ASSUME CurrentInv, [Next]_vars PROVE CurrentInv'
  OBVIOUS
<1>0. TypeOK'
  BY TypeInductive DEF CurrentInv
<1>1. CASE UNCHANGED <<job, rows>>
  BY <1>0, <1>1 DEF CurrentInv, Sole, Current, Fresh, Running
<1>2. ASSUME NEW r \in Request, Submit(r) PROVE CurrentInv'
  <2>1. /\ OnlyOwn(r) /\ Quiet /\ Sole'
        /\ Current' /\ Fresh(r)'
    BY <1>2, OwnSubmit, SoleSubmit, CurrentSubmit DEF CurrentInv
  <2> QED BY <1>0, <2>1, FreshOthers DEF CurrentInv
<1>3. ASSUME NEW r \in Request, Proceed(r) PROVE CurrentInv'
  <2>1. Running(r) /\ OnlyOwn(r)
    BY <1>3, ProceedIsRunning, OwnWrite, OwnPrepare, OwnPerform, OwnConclude
       DEF CurrentInv, Proceed, Running
  <2>2. Current' /\ Fresh(r)'
    BY <1>3, CurrentWrite, CurrentPrepare, CurrentPerform, CurrentConclude DEF Proceed
  <2> QED BY <1>0, <2>1, <2>2, SoleProceed, FreshOthers DEF CurrentInv
<1>4. ASSUME NEW r \in Request, Crash(r) PROVE CurrentInv'
  <2>1. /\ Running(r) /\ OnlyOwn(r) /\ UNCHANGED rows
        /\ job'[r].stage \in Ended
    BY <1>4 DEF Crash, End, OnlyOwn, Running, Ended
  <2>2. Fresh(r)' /\ Current'
    BY <2>1 DEF Fresh, CurrentInv, Current
  <2> QED BY <1>0, <2>1, <2>2, SoleProceed, FreshOthers DEF CurrentInv
<1>5. ASSUME NEW i \in Inbound, ClientExpires(i) PROVE CurrentInv'
  <2>1. /\ DOMAIN rows' = DOMAIN rows /\ UNCHANGED job
        /\ \A k \in DOMAIN rows : /\ rows'[k].desired = rows[k].desired
                                  /\ rows'[k].applied = rows[k].applied
                                  /\ rows'[k].status = rows[k].status
    BY <1>5 DEF ClientExpires, CurrentInv, TypeOK, RowsOK, Row
  <2> QED BY <1>0, <2>1 DEF CurrentInv, Sole, Current, Fresh, Running
<1> QED BY <1>1, <1>2, <1>3, <1>4, <1>5 DEF Next, SavePolicy, vars

\* When requests are served one at a time, an inbound that the panel calls
\* applied is applied at its latest revision: the number markApplySuccess writes
\* was read after the last write, and every write takes the word back.
THEOREM AppliedAlwaysCurrent == ASSUME Serialised PROVE Spec => []AppliedIsCurrent
<1>1. Init => CurrentInv
  <2> SUFFICES ASSUME Init PROVE CurrentInv
    OBVIOUS
  <2>1. PICK stored \in SUBSET Inbound : rows \in [stored -> AppliedRow]
    BY DEF Init
  <2>2. Current
    BY <2>1, AppliedRowIs DEF Current
  <2> QED BY <2>2, InitType DEF Init, CurrentInv, Sole
<1>2. CurrentInv /\ [Next]_vars => CurrentInv'
  BY CurrentInductive
<1>3. CurrentInv => AppliedIsCurrent
  BY DEF CurrentInv, Current, AppliedIsCurrent
<1> QED BY <1>1, <1>2, <1>3, PTL DEF Spec

-----------------------------------------------------------------------------
(* Requests one at a time: what the instance serves *)

Names(u, c) == u.email = c.email /\ u.credential = c.credential

\* Entry e of a document stands for the row as it is stored.
Shows(e, row) ==
  /\ e.tag = row.tag /\ e.listener = row.listener
  /\ \A u \in e.users : \E c \in row.clients : Names(u, c)
  /\ \A c \in row.clients : c.live => \E u \in e.users : Names(u, c)

ServedBy(document, row) == \E e \in document.inbounds : Shows(e, row)

\* Tags name entries, and emails name the users of an entry.
Proper(document) ==
  /\ \A e, f \in document.inbounds : e.tag = f.tag => e = f
  /\ \A e \in document.inbounds : \A u, v \in e.users : u.email = v.email => u = v

UniqueTags == \A i, k \in DOMAIN rows : rows[i].tag = rows[k].tag => i = k
UniqueEmails ==
  \A i \in DOMAIN rows : \A c, d \in rows[i].clients : c.email = d.email => c = d

\* A document that serves what the panel calls applied, row i set aside.
ServesOthers(document, i) ==
  /\ Proper(document)
  /\ \A k \in EnabledIds \ {i} : SaidApplied(k) => ServedBy(document, rows[k])

\* The clients of row i are changed, and its revision is not yet bumped.
Half(i) == \E r \in DOMAIN job : job[r].inb = i /\ job[r].stage = "bump"

AppliedServed ==
  \A i \in EnabledIds : SaidApplied(i) /\ ~Half(i) => ServedBy(runtime, rows[i])

Untouched == {"begin", "applying", "validate", "backup", "hotRemove", "hotReplace",
              "restart"}
Planned == Untouched \cup {"hotAdd", "health", "success", "restore", "restoreHealth"}
Marked == (Planned \ {"begin", "applying"}) \cup {"failure"}

\* The row of a request, and the tags it may touch on the instance.
Holds(r) ==
  LET j == job[r] IN
  /\ j.inb \in DOMAIN rows
  /\ \A k \in DOMAIN rows \ {j.inb} : rows[k].tag \notin j.oldTags \cup {j.tag}
  /\ j.stage # "reread" => j.tag = rows[j.inb].tag /\ j.enabled = rows[j.inb].enabled
  /\ \A s, t \in j.oldTags : s = t
  /\ j.op = "setEnabled" => j.oldTags = {rows[j.inb].tag}
  /\ j.stage \in Marked => rows[j.inb].status = "APPLYING"
  /\ j.stage \in Marked \ {"failure"} => j.doomed = FALSE

\* The document a request was given to apply serves the rows, and them only.
Aims(r) ==
  LET j == job[r] IN
  (j.stage \in Planned \cup {"current"} /\ j.doomed = FALSE) =>
    /\ Proper(j.desired)
    /\ \A i \in EnabledIds : ServedBy(j.desired, rows[i])
    /\ \A e \in j.desired.inbounds : \E i \in EnabledIds : e.tag = rows[i].tag

\* The document it goes back to, and what its strategy was chosen for.
Returns(r) ==
  LET j == job[r] IN
  (j.stage \in Planned /\ j.doomed = FALSE) =>
    /\ ServesOthers(j.previous, j.inb)
    /\ j.strategy = "NOOP" => j.previous = j.desired
    /\ j.strategy = "HOT_CLIENTS" =>
         /\ j.oldTags = {j.tag}
         /\ \E p \in WithTag(j.previous, {j.tag}), n \in WithTag(j.desired, {j.tag}) :
              p.listener = n.listener

\* Of the users of the tagged entry those are left that need no change.
Trimmed(r) ==
  LET j == job[r] IN
  \E e \in WithTag(runtime, {j.tag}), n \in WithTag(j.desired, {j.tag}) :
    /\ e.listener = n.listener
    /\ e.users = UsersOf(j.previous, {j.tag}) \cap UsersOf(j.desired, {j.tag})

\* The tagged entry is the desired one.  One that is not desired is removed
\* only if its tag is the one the row had before.
Replaced(r) ==
  LET j == job[r] IN
  (WithTag(j.desired, {j.tag}) # {} \/ j.tag \in j.oldTags)
    => WithTag(runtime, {j.tag}) = WithTag(j.desired, {j.tag})

\* How far the request has got with the instance.
Reaches(r) ==
  LET j == job[r] IN
  /\ (j.stage \in Untouched /\ j.doomed = FALSE) => runtime = j.previous
  /\ j.stage \in {"hotRemove", "hotAdd"} => j.strategy = "HOT_CLIENTS"
  /\ j.stage = "hotAdd" => Trimmed(r)
  /\ j.stage \in {"health", "success"} => Replaced(r)

AtWork(r) == Holds(r) /\ Aims(r) /\ Returns(r) /\ Reaches(r)

ServedInv ==
  /\ TypeOK /\ Sole
  /\ UniqueTags /\ UniqueEmails
  /\ Proper(runtime) /\ AppliedServed
  /\ \A r \in DOMAIN job : Running(r) => AtWork(r)

-----------------------------------------------------------------------------
(* Documents and rows *)

LEMMA ServesServedBy ==
  ASSUME NEW i PROVE Serves(i) <=> ServedBy(runtime, rows[i])
  BY DEF Serves, Summary, ActiveClients, ServedBy, Shows, Names, WithTag

\* What an apply, or time, may do to a row while a request works on it: its
\* clients may expire.
RowKept(old, new) ==
  /\ new.tag = old.tag /\ new.listener = old.listener /\ new.enabled = old.enabled
  /\ \A c \in old.clients : \E d \in new.clients : Names(c, d)
  /\ \A d \in new.clients : \E c \in old.clients : Names(c, d) /\ (d.live => c.live)

LEMMA KeptServed ==
  ASSUME NEW document, NEW old, NEW new, RowKept(old, new), ServedBy(document, old)
  PROVE  ServedBy(document, new)
<1>1. PICK e \in document.inbounds : Shows(e, old)
  BY DEF ServedBy
<1>2. e.tag = new.tag /\ e.listener = new.listener
  BY <1>1 DEF Shows, RowKept
<1>3. ASSUME NEW u \in e.users PROVE \E d \in new.clients : Names(u, d)
  BY <1>1 DEF Shows, RowKept, Names
<1>4. ASSUME NEW d \in new.clients, d.live PROVE \E u \in e.users : Names(u, d)
  BY <1>1, <1>4 DEF Shows, RowKept, Names
<1> QED BY <1>1, <1>2, <1>3, <1>4 DEF ServedBy, Shows

LEMMA SameRowKept == ASSUME NEW row PROVE RowKept(row, row)
  BY DEF RowKept, Names

\* A change of the status of a row keeps it.
LEMMA StatusKept ==
  ASSUME NEW row \in Row, NEW status, NEW applied
  PROVE  /\ RowKept(row, [row EXCEPT !.status = status])
         /\ RowKept(row, [row EXCEPT !.status = status, !.applied = applied])
  BY DEF RowKept, Names, Row

\* The document built from the rows serves all the enabled ones, and has no
\* other tag.
LEMMA BuiltServes ==
  ASSUME TypeOK, UniqueTags, UniqueEmails, NEW global
  PROVE  LET document == BuildDocument(global) IN
         /\ Proper(document)
         /\ \A i \in EnabledIds : ServedBy(document, rows[i])
         /\ \A e \in document.inbounds : \E i \in EnabledIds : e.tag = rows[i].tag
<1> DEFINE document == BuildDocument(global)
<1>1. document.inbounds = {BuildEntry(rows[i]) : i \in EnabledIds}
  BY DEF BuildDocument
<1>2. ASSUME NEW i \in EnabledIds
      PROVE  /\ BuildEntry(rows[i]).tag = rows[i].tag
             /\ BuildEntry(rows[i]).listener = rows[i].listener
             /\ \A u \in BuildEntry(rows[i]).users :
                  \E c \in rows[i].clients : c.live /\ u = [email |-> c.email, credential |-> c.credential]
             /\ \A c \in rows[i].clients : c.live =>
                  [email |-> c.email, credential |-> c.credential] \in BuildEntry(rows[i]).users
  BY DEF BuildEntry
<1>3. \A i \in EnabledIds : i \in DOMAIN rows
  BY DEF EnabledIds
<1>4. ASSUME NEW e \in document.inbounds, NEW f \in document.inbounds, e.tag = f.tag
      PROVE  e = f
  BY <1>1, <1>2, <1>3, <1>4 DEF UniqueTags
<1>5. ASSUME NEW e \in document.inbounds, NEW u \in e.users, NEW v \in e.users,
             u.email = v.email
      PROVE  u = v
  <2>1. PICK i \in EnabledIds : e = BuildEntry(rows[i])
    BY <1>1
  <2>2. PICK c \in rows[i].clients : u = [email |-> c.email, credential |-> c.credential]
    BY <1>2, <2>1
  <2>3. PICK d \in rows[i].clients : v = [email |-> d.email, credential |-> d.credential]
    BY <1>2, <2>1
  <2>4. c = d
    BY <1>3, <1>5, <2>2, <2>3 DEF UniqueEmails
  <2> QED BY <2>2, <2>3, <2>4
<1>6. ASSUME NEW i \in EnabledIds PROVE ServedBy(document, rows[i])
  <2>1. BuildEntry(rows[i]) \in document.inbounds
    BY <1>1
  <2> DEFINE e == BuildEntry(rows[i])
  <2>2. e.tag = rows[i].tag /\ e.listener = rows[i].listener
    BY <1>2
  <2>3. ASSUME NEW u \in e.users PROVE \E c \in rows[i].clients : Names(u, c)
    BY <1>2 DEF Names
  <2>4. ASSUME NEW c \in rows[i].clients, c.live PROVE \E u \in e.users : Names(u, c)
    <3>1. [email |-> c.email, credential |-> c.credential] \in e.users
      BY <1>2, <2>4
    <3> QED BY <3>1 DEF Names
  <2> HIDE DEF e
  <2>5. Shows(e, rows[i])
    BY <2>2, <2>3, <2>4 DEF Shows
  <2> QED BY <2>1, <2>5 DEF ServedBy, e
<1>7. ASSUME NEW e \in document.inbounds PROVE \E i \in EnabledIds : e.tag = rows[i].tag
  BY <1>1, <1>2
<1> HIDE DEF document
<1>8. Proper(document)
  BY <1>4, <1>5 DEF Proper
<1> QED BY <1>6, <1>7, <1>8 DEF document

\* A tag names one entry, and the users with the tag are those of the entry.
LEMMA OneEntry ==
  ASSUME NEW document, Proper(document), NEW t, NEW e \in WithTag(document, {t})
  PROVE  WithTag(document, {t}) = {e} /\ UsersOf(document, {t}) = e.users
<1>1. WithTag(document, {t}) = {e}
  BY DEF WithTag, Proper
<1> QED BY <1>1 DEF UsersOf

\* Entries under other tags go on serving their rows.
LEMMA OtherTagsServe ==
  ASSUME NEW document, NEW after, NEW tags, NEW row, row.tag \notin tags,
         \A e \in document.inbounds : e.tag \notin tags => e \in after.inbounds,
         ServedBy(document, row)
  PROVE  ServedBy(after, row)
  BY DEF ServedBy, Shows

\* Editing the users of one entry leaves the document proper and the others
\* as they are.
LEMMA EditOne ==
  ASSUME runtime \in Document, Proper(runtime), NEW t, NEW emails, NEW users,
         NEW p \in WithTag(runtime, {t}), NEW left,
         \A u : u \in left <=> (u \in p.users /\ u.email \notin emails) \/ u \in users,
         \A u, v \in left : u.email = v.email => u = v,
         NEW after, after = EditUsers({t}, emails, users)
  PROVE  /\ Proper(after)
         /\ \A e \in runtime.inbounds : e.tag \notin {t} => e \in after.inbounds
         /\ [p EXCEPT !.users = left] \in WithTag(after, {t})
<1> DEFINE Edited(e) ==
      IF e.tag \in {t}
        THEN [e EXCEPT !.users = {u \in @ : u.email \notin emails} \cup users]
        ELSE e
<1>0. left = {u \in p.users : u.email \notin emails} \cup users
  OBVIOUS
<1>1. after.inbounds = {Edited(e) : e \in runtime.inbounds}
  BY DEF EditUsers, Document
<1>2. ASSUME NEW e \in runtime.inbounds
      PROVE  /\ Edited(e).tag = e.tag
             /\ e.tag # t => Edited(e) = e
             /\ e.tag = t => e = p
  BY DEF Document, Entry, WithTag, Proper
<1>3. Edited(p).listener = p.listener /\ Edited(p).users = left /\ p \in runtime.inbounds /\ p.tag = t
  BY <1>0 DEF WithTag, Document, Entry
<1> HIDE DEF Edited
<1>4. ASSUME NEW e \in after.inbounds, NEW f \in after.inbounds, e.tag = f.tag PROVE e = f
  BY <1>1, <1>2, <1>4 DEF Proper
<1>5. ASSUME NEW e \in after.inbounds, NEW u \in e.users, NEW v \in e.users, u.email = v.email
      PROVE  u = v
  <2>1. PICK d \in runtime.inbounds : e = Edited(d)
    BY <1>1
  <2>2. CASE d.tag = t
    BY <1>2, <1>3, <1>5, <2>1, <2>2
  <2>3. CASE d.tag # t
    BY <1>2, <1>5, <2>1, <2>3 DEF Proper
  <2> QED BY <2>2, <2>3
<1>6. Proper(after)
  BY <1>4, <1>5 DEF Proper
<1>7. \A e \in runtime.inbounds : e.tag \notin {t} => e \in after.inbounds
  BY <1>1, <1>2
<1>8. Edited(p) \in WithTag(after, {t})
  BY <1>1, <1>2, <1>3 DEF WithTag
<1>9. Edited(p) = [p EXCEPT !.users = left]
  BY <1>0, <1>3 DEF Edited
<1> QED BY <1>6, <1>7, <1>8, <1>9

\* What hotRemoveUsers leaves, and what hotAddUsers makes of it.
LEMMA TrimmedUsers ==
  ASSUME NEW P, NEW D, \A u, v \in P : u.email = v.email => u = v
  PROVE  {u \in P : u.email \notin {w.email : w \in P \ D}} = P \cap D
  OBVIOUS

\* Two entries of the tag, one in each of two proper documents, are equal when
\* they listen alike and have the same users.
LEMMA SameEntry ==
  ASSUME NEW document \in Document, NEW other \in Document,
         Proper(document), Proper(other), NEW t,
         NEW e \in WithTag(document, {t}), NEW n \in WithTag(other, {t}),
         e.listener = n.listener, e.users = n.users
  PROVE  WithTag(document, {t}) = WithTag(other, {t})
<1>1. e.tag = t /\ n.tag = t /\ e \in Entry /\ n \in Entry
  BY DEF WithTag, Document
<1>2. e = n
  BY <1>1 DEF Entry
<1>3. WithTag(document, {t}) = {e} /\ WithTag(other, {t}) = {n}
  BY OneEntry
<1> QED BY <1>2, <1>3

\* Removing the entries of the old tags, then adding those of the desired tag.
LEMMA RemoveOne ==
  ASSUME Proper(runtime), NEW oldTags, NEW t, NEW new, NEW without, NEW after,
         \A e : e \in without.inbounds <=> e \in runtime.inbounds /\ e.tag \notin oldTags,
         after.inbounds = without.inbounds \cup new
  PROVE  /\ Proper(without)
         /\ \A e \in runtime.inbounds : e.tag \notin oldTags \cup {t} => e \in without.inbounds
         /\ \A e \in runtime.inbounds : e.tag \notin oldTags \cup {t} => e \in after.inbounds
<1>1. Proper(without)
  BY DEF Proper
<1> QED BY <1>1

LEMMA ReplacedProper ==
  ASSUME Proper(runtime), NEW oldTags, NEW t, NEW desired, Proper(desired),
         NEW new, new = WithTag(desired, {t}), NEW without, NEW after,
         \A e : e \in without.inbounds <=> e \in runtime.inbounds /\ e.tag \notin oldTags,
         after.inbounds = without.inbounds \cup new,
         new = {} \/ WithTag(without, {t}) = {}
  PROVE  Proper(after)
<1>1. /\ \A e \in without.inbounds : e \in runtime.inbounds /\ e.tag \notin oldTags
      /\ after.inbounds = without.inbounds \cup new
  OBVIOUS
<1>2. \A e \in new : e \in desired.inbounds /\ e.tag = t
  BY DEF WithTag
<1>3. Proper(without)
  BY <1>1 DEF Proper
<1>4. \A e \in without.inbounds, f \in new : e.tag # f.tag
  BY <1>2 DEF WithTag
<1>5. ASSUME NEW e \in after.inbounds, NEW f \in after.inbounds, e.tag = f.tag PROVE e = f
  BY <1>1, <1>2, <1>3, <1>4, <1>5 DEF Proper
<1>6. ASSUME NEW e \in after.inbounds, NEW u \in e.users, NEW v \in e.users, u.email = v.email
      PROVE  u = v
  BY <1>1, <1>2, <1>3, <1>6 DEF Proper
<1> QED BY <1>5, <1>6 DEF Proper

-----------------------------------------------------------------------------
(* A request that goes on *)

\* The copies a request keeps when it only changes its stage.
Carried(r) ==
  LET j == job[r]  k == job'[r] IN
  /\ k.op = j.op /\ k.inb = j.inb /\ k.oldTags = j.oldTags /\ k.tag = j.tag
  /\ k.enabled = j.enabled /\ k.desired = j.desired /\ k.previous = j.previous
  /\ k.strategy = j.strategy /\ k.doomed = j.doomed

LEMMA GotoCarries ==
  ASSUME NEW r, r \in DOMAIN job, job[r] \in Job, NEW stage, Goto(r, stage)
  PROVE  Carried(r) /\ job'[r].stage = stage
<1>1. job'[r] = [job[r] EXCEPT !.stage = stage]
  BY DEF Goto
<1> QED BY <1>1 DEF Carried, Job

\* The rows other than i are called applied only if they were before.
SaidKept(i) ==
  \A k \in DOMAIN rows \ {i} : SaidApplied(k)' => SaidApplied(k)

RowsKept ==
  DOMAIN rows' = DOMAIN rows /\ \A k \in DOMAIN rows : RowKept(rows[k], rows'[k])

LEMMA SameRowsKept ==
  ASSUME UNCHANGED rows PROVE RowsKept /\ \A i : SaidKept(i)
  BY SameRowKept DEF RowsKept, SaidKept, SaidApplied, Summary

LEMMA EnabledKept == ASSUME RowsKept PROVE EnabledIds' = EnabledIds
  BY DEF RowsKept, RowKept, EnabledIds

LEMMA ServesOthersKept ==
  ASSUME RowsKept, NEW i, SaidKept(i), NEW document, NEW next,
         ServesOthers(document, i), next = document
  PROVE  /\ Proper(next)
         /\ \A k \in EnabledIds' \ {i} : SaidApplied(k)' => ServedBy(next, rows'[k])
<1> SUFFICES ASSUME NEW k \in EnabledIds' \ {i}, SaidApplied(k)'
             PROVE  ServedBy(document, rows'[k])
  BY DEF ServesOthers
<1>1. k \in EnabledIds \ {i} /\ k \in DOMAIN rows
  BY EnabledKept DEF EnabledIds
<1>2. ServedBy(document, rows[k])
  BY <1>1 DEF SaidKept, ServesOthers
<1>3. RowKept(rows[k], rows'[k])
  BY <1>1 DEF RowsKept
<1> QED BY <1>2, <1>3, KeptServed

LEMMA AimsOn ==
  ASSUME NEW r, Aims(r), Carried(r), RowsKept,
         job'[r].stage \in Planned \cup {"current"} => job[r].stage \in Planned \cup {"current"}
  PROVE  Aims(r)'
<1> SUFFICES ASSUME job'[r].stage \in Planned \cup {"current"}, job'[r].doomed = FALSE
             PROVE  /\ Proper(job'[r].desired)
                    /\ \A i \in EnabledIds' : ServedBy(job'[r].desired, rows'[i])
                    /\ \A e \in job'[r].desired.inbounds : \E i \in EnabledIds' : e.tag = rows'[i].tag
  BY DEF Aims, Planned, Untouched, Proper, ServedBy, Shows, Names, EnabledIds
<1>1. job'[r].desired = job[r].desired /\ job[r].doomed = FALSE
  BY DEF Carried
<1>2. /\ Proper(job[r].desired)
      /\ \A i \in EnabledIds : ServedBy(job[r].desired, rows[i])
      /\ \A e \in job[r].desired.inbounds : \E i \in EnabledIds : e.tag = rows[i].tag
  BY <1>1 DEF Aims
<1>3. \A i \in EnabledIds : i \in DOMAIN rows /\ RowKept(rows[i], rows'[i])
  BY DEF RowsKept, EnabledIds
<1>4. \A i \in EnabledIds : ServedBy(job[r].desired, rows'[i])
  BY <1>2, <1>3, KeptServed
<1>5. \A i \in EnabledIds : rows'[i].tag = rows[i].tag
  BY <1>3 DEF RowKept
<1> QED BY <1>1, <1>2, <1>4, <1>5, EnabledKept

LEMMA ReturnsOn ==
  ASSUME NEW r, Returns(r), Carried(r), RowsKept, SaidKept(job[r].inb),
         job'[r].stage \in Planned => job[r].stage \in Planned
  PROVE  Returns(r)'
<1> SUFFICES ASSUME job'[r].stage \in Planned, job'[r].doomed = FALSE
             PROVE  /\ ServesOthers(job[r].previous, job[r].inb)'
                    /\ job'[r].strategy = "NOOP" => job'[r].previous = job'[r].desired
                    /\ job'[r].strategy = "HOT_CLIENTS" =>
                         /\ job'[r].oldTags = {job'[r].tag}
                         /\ \E p \in WithTag(job'[r].previous, {job'[r].tag}),
                               n \in WithTag(job'[r].desired, {job'[r].tag}) :
                              p.listener = n.listener
  BY DEF Returns, Planned, Untouched, ServesOthers, WithTag
<1>1. Carried(r) /\ job[r].stage \in Planned /\ job[r].doomed = FALSE
  BY DEF Carried
<1>2. /\ ServesOthers(job[r].previous, job[r].inb)
      /\ job[r].strategy = "NOOP" => job[r].previous = job[r].desired
      /\ job[r].strategy = "HOT_CLIENTS" =>
           /\ job[r].oldTags = {job[r].tag}
           /\ \E p \in WithTag(job[r].previous, {job[r].tag}),
                 n \in WithTag(job[r].desired, {job[r].tag}) :
                p.listener = n.listener
  BY <1>1 DEF Returns
<1>3. ServesOthers(job[r].previous, job[r].inb)'
  BY <1>1, <1>2, ServesOthersKept DEF Carried, ServesOthers
<1> QED BY <1>1, <1>2, <1>3 DEF Carried

\* Before it has built a document a request relies on its row only.
LEMMA EarlyStage ==
  ASSUME NEW r, Holds(r)', job'[r].stage \notin Planned \cup {"current"}
  PROVE  AtWork(r)'
<1>1. job'[r].stage \notin Planned \cup {"current"} \cup Untouched \cup {"hotRemove", "hotAdd", "health", "success"}
  BY DEF Planned, Untouched
<1>2. Aims(r)' /\ Returns(r)' /\ Reaches(r)'
  BY <1>1 DEF Aims, Returns, Reaches, Planned, Untouched
<1> QED BY <1>2 DEF AtWork

\* Of the requests only the one at work may be half way through a change.
LEMMA NotHalf ==
  ASSUME Sole, NEW r \in DOMAIN job, Running(r)
  PROVE  \A k : (k # job[r].inb \/ job[r].stage # "bump") => ~Half(k)
  BY DEF Half, Sole, Running, Ended

LEMMA QuietNotHalf == ASSUME Quiet PROVE \A k : ~Half(k)
  BY DEF Half, Quiet, Running, Ended

\* One row is written: its tag is free and its clients have their own emails.
LEMMA WriteKeepsNames ==
  ASSUME UniqueTags, UniqueEmails, NEW i, NEW row,
         \/ rows' = Updated(rows, i, row) \/ rows' = Inserted(rows, i, row),
         \A k \in DOMAIN rows \ {i} : rows[k].tag # row.tag,
         i \in DOMAIN rows' => \A c, d \in row.clients : c.email = d.email => c = d
  PROVE  UniqueTags' /\ UniqueEmails'
<1>1. /\ \A k \in DOMAIN rows' \ {i} : k \in DOMAIN rows /\ rows'[k] = rows[k]
      /\ i \in DOMAIN rows' => rows'[i] = row
  BY DEF Updated, Inserted
<1> QED BY <1>1 DEF UniqueTags, UniqueEmails

\* A write of row i leaves the others served, and takes APPLIED back from i.
LEMMA WriteKeepsServed ==
  ASSUME AppliedServed, UNCHANGED runtime, NEW i, \A k : k # i => ~Half(k),
         \A k \in DOMAIN rows' \ {i} : k \in DOMAIN rows /\ rows'[k] = rows[k],
         i \in DOMAIN rows' => rows'[i].status # "APPLIED" \/ Half(i)'
  PROVE  AppliedServed'
<1> SUFFICES ASSUME NEW k \in EnabledIds', SaidApplied(k)', ~Half(k)'
             PROVE  ServedBy(runtime, rows'[k])
  BY DEF AppliedServed, ServedBy, Shows, Names
<1>1. k \in DOMAIN rows' /\ k # i
  BY DEF EnabledIds, SaidApplied, Summary
<1>2. k \in EnabledIds /\ SaidApplied(k) /\ rows'[k] = rows[k]
  BY <1>1 DEF EnabledIds, SaidApplied, Summary
<1> QED BY <1>1, <1>2 DEF AppliedServed

LEMMA NoWriteKeepsServed ==
  ASSUME AppliedServed, UNCHANGED <<runtime, rows>>, \A k : ~Half(k)
  PROVE  AppliedServed'
  BY DEF AppliedServed, ServedBy, Shows, Names, EnabledIds, SaidApplied, Summary

LEMMA PendingRow ==
  ASSUME NEW row \in Row
  PROVE  /\ Pending(row).status = "PENDING" /\ Pending(row).tag = row.tag
         /\ Pending(row).enabled = row.enabled /\ Pending(row).clients = row.clients
  BY DEF Pending, Row

\* No edit gives two clients one email.
LEMMA EditsUnique ==
  ASSUME NEW cs \in SUBSET Client, \A c, d \in cs : c.email = d.email => c = d,
         NEW new \in WithNewClient(cs) \cup WithRotatedClient(cs) \cup WithRenamedClient(cs)
                       \cup WithToggledClient(cs) \cup WithoutClient(cs) \cup WithoutExpired(cs)
  PROVE  \A c, d \in new : c.email = d.email => c = d
<1>1. CASE new \in WithNewClient(cs)
  BY <1>1 DEF WithNewClient, Newcomers
<1>2. CASE new \in WithRotatedClient(cs)
  <2>1. PICK c \in cs, k \in Credential : new = (cs \ {c}) \cup {[c EXCEPT !.credential = k]}
    BY <1>2 DEF WithRotatedClient
  <2>2. [c EXCEPT !.credential = k].email = c.email
    BY <2>1 DEF Client
  <2> QED BY <2>1, <2>2
<1>3. CASE new \in WithToggledClient(cs)
  <2>1. PICK c \in cs : new = (cs \ {c}) \cup {[c EXCEPT !.live = ~@]}
    BY <1>3 DEF WithToggledClient
  <2> DEFINE e == [c EXCEPT !.live = ~@]
  <2>2. e.email = c.email
    BY <2>1 DEF Client
  <2>3. new = (cs \ {c}) \cup {e}
    BY <2>1
  <2> HIDE DEF e
  <2> QED BY <2>1, <2>2, <2>3
<1>4. CASE new \in WithoutClient(cs) \cup WithoutExpired(cs)
  BY <1>4 DEF WithoutClient, WithoutExpired
<1>5. CASE new \in WithRenamedClient(cs)
  <2>1. PICK c \in cs, d \in Newcomers(cs) : new = (cs \ {c}) \cup {[d EXCEPT !.live = c.live]}
    BY <1>5 DEF WithRenamedClient
  <2> DEFINE e == [d EXCEPT !.live = c.live]
  <2>2. \A b \in cs : b.email # e.email
    BY <2>1 DEF Newcomers, Client
  <2>3. new = (cs \ {c}) \cup {e}
    BY <2>1
  <2> HIDE DEF e
  <2> QED BY <2>2, <2>3
<1> QED BY <1>1, <1>2, <1>3, <1>4, <1>5

-----------------------------------------------------------------------------
(* Every step keeps it *)

LEMMA ServedSubmit ==
  ASSUME Serialised, ServedInv, NEW r \in Request, Submit(r)
  PROVE  UniqueTags' /\ UniqueEmails' /\ AppliedServed' /\ AtWork(r)'
<1>0. Quiet /\ \A k : ~Half(k)
  BY SoleSubmit, QuietNotHalf
<1>1. \A op, i, row, oldTags, stage :
        Start(r, op, i, row, oldTags, stage)
          => /\ job'[r].stage = stage /\ job'[r].inb = i /\ job'[r].op = op
             /\ job'[r].tag = row.tag /\ job'[r].enabled = row.enabled
             /\ job'[r].oldTags = oldTags
  BY DEF Start, Inserted
<1>2. UNCHANGED runtime
  BY DEF Submit
<1>3. \A k \in DOMAIN rows : rows[k] \in Row /\ rows[k].clients \in SUBSET Client
  BY DEF ServedInv, TypeOK, RowsOK, Row
<1>4. CASE Create(r) \/ Duplicate(r)
  <2>1. PICK t, l, e : t \in FreeTags /\ InsertInbound(r, t, l, e)
    BY <1>4 DEF Create, Duplicate
  <2> DEFINE row == [tag |-> t, listener |-> l, clients |-> {}, enabled |-> e,
                     desired |-> 1, applied |-> 0, status |-> "PENDING"]
  <2>2. PICK i \in Inbound \ (DOMAIN rows \cup retired) :
          rows' = Inserted(rows, i, row) /\ Start(r, "create", i, row, {}, "reread")
    BY <2>1 DEF InsertInbound
  <2>3. row.status = "PENDING" /\ row.tag = t /\ row.clients = {}
    OBVIOUS
  <2> HIDE DEF row
  <2>4. \A k \in DOMAIN rows \ {i} : rows[k].tag # t
    BY <2>1 DEF FreeTags, TagsOf
  <2>5. UniqueTags' /\ UniqueEmails'
    BY <2>2, <2>3, <2>4, WriteKeepsNames DEF ServedInv
  <2>6. /\ \A k \in DOMAIN rows' \ {i} : k \in DOMAIN rows /\ rows'[k] = rows[k]
        /\ i \in DOMAIN rows' /\ rows'[i] = row
    BY <2>2 DEF Inserted
  <2>7. AppliedServed'
    BY <1>0, <1>2, <2>3, <2>6, WriteKeepsServed DEF ServedInv
  <2>8. /\ job'[r].stage = "reread" /\ job'[r].inb = i /\ job'[r].op = "create"
        /\ job'[r].tag = t /\ job'[r].oldTags = {}
    BY <1>1, <2>2, <2>3
  <2>9. Holds(r)'
    BY <2>4, <2>6, <2>8 DEF Holds, Marked, Planned, Untouched
  <2> QED BY <2>5, <2>7, <2>8, <2>9, EarlyStage DEF Planned, Untouched
<1>5. CASE Open(r) \/ ApplyGlobalSettings(r)
  <2>1. PICK op \in Operation \ {"create", "assigned"}, i \in DOMAIN rows, stage \in {"write", "policy"} :
          Start(r, op, i, rows[i], {rows[i].tag}, stage)
    BY <1>5 DEF Open, ApplyGlobalSettings, Operation
  <2>2. UNCHANGED rows
    BY <1>5 DEF Open, ApplyGlobalSettings
  <2>3. UniqueTags' /\ UniqueEmails' /\ AppliedServed'
    BY <1>0, <1>2, <2>2, NoWriteKeepsServed DEF ServedInv, UniqueTags, UniqueEmails
  <2>4. /\ job'[r].stage = stage /\ job'[r].inb = i /\ job'[r].op = op
        /\ job'[r].tag = rows[i].tag /\ job'[r].enabled = rows[i].enabled
        /\ job'[r].oldTags = {rows[i].tag}
    BY <1>1, <2>1
  <2>5. Holds(r)'
    BY <2>2, <2>4 DEF Holds, Marked, Planned, Untouched, ServedInv, UniqueTags
  <2> QED BY <2>3, <2>4, <2>5, EarlyStage DEF Planned, Untouched
<1>6. CASE AssignedClientChange(r)
  <2>1. PICK i \in DOMAIN rows :
          /\ \E new \in WithNewClient(rows[i].clients) \cup WithRotatedClient(rows[i].clients)
                   \cup WithRenamedClient(rows[i].clients)
                   \cup WithToggledClient(rows[i].clients) \cup WithoutClient(rows[i].clients) :
               Rewrite(i, [rows[i] EXCEPT !.clients = new])
          /\ Start(r, "assigned", i, rows[i], {rows[i].tag}, "reread")
    BY <1>6 DEF AssignedClientChange
  <2>a. PICK cs \in SUBSET Client : cs = rows[i].clients /\ \A c, d \in cs : c.email = d.email => c = d
    BY <1>3, <2>1 DEF ServedInv, UniqueEmails, Row
  <2>b. PICK new \in WithNewClient(cs) \cup WithRotatedClient(cs) \cup WithRenamedClient(cs)
                   \cup WithToggledClient(cs) \cup WithoutClient(cs) :
          Rewrite(i, [rows[i] EXCEPT !.clients = new])
    BY <2>1, <2>a
  <2>2. /\ new \in SUBSET Client
        /\ Rewrite(i, [rows[i] EXCEPT !.clients = new])
        /\ \A c, d \in new : c.email = d.email => c = d
    BY <2>a, <2>b, EditsType, EditsUnique
  <2> DEFINE row == [rows[i] EXCEPT !.clients = new]
  <2>3. row \in Row /\ row.tag = rows[i].tag /\ row.clients = new
    BY <1>3, <2>2 DEF Row
  <2>4. rows' = Updated(rows, i, Pending(row))
    BY <2>2 DEF Rewrite
  <2> HIDE DEF row
  <2>5. /\ Pending(row).status = "PENDING" /\ Pending(row).tag = rows[i].tag
        /\ Pending(row).clients = new
    BY <2>3, PendingRow
  <2>6. UniqueTags' /\ UniqueEmails'
    BY <2>2, <2>4, <2>5, WriteKeepsNames DEF ServedInv, UniqueTags
  <2>7. /\ \A k \in DOMAIN rows' \ {i} : k \in DOMAIN rows /\ rows'[k] = rows[k]
        /\ i \in DOMAIN rows' /\ rows'[i] = Pending(row)
    BY <2>4 DEF Updated
  <2>8. AppliedServed'
    BY <1>0, <1>2, <2>5, <2>7, WriteKeepsServed DEF ServedInv
  <2>9. /\ job'[r].stage = "reread" /\ job'[r].inb = i /\ job'[r].op = "assigned"
        /\ job'[r].tag = rows[i].tag /\ job'[r].oldTags = {rows[i].tag}
    BY <1>1, <2>1
  <2>10. Holds(r)'
    BY <2>7, <2>9 DEF Holds, Marked, Planned, Untouched, ServedInv, UniqueTags
  <2> QED BY <2>6, <2>8, <2>9, <2>10, EarlyStage DEF Planned, Untouched
<1> QED BY <1>4, <1>5, <1>6 DEF Submit

LEMMA HoldsOn ==
  ASSUME NEW r, Holds(r), Carried(r), RowsKept,
         job[r].stage = "reread" => job'[r].stage = "reread",
         job'[r].stage \in Marked =>
           /\ rows'[job[r].inb].status = "APPLYING"
           /\ job'[r].stage # "failure" => job[r].doomed = FALSE
  PROVE  Holds(r)'
<1>1. /\ job'[r].inb = job[r].inb /\ job'[r].inb \in DOMAIN rows
      /\ \A k \in DOMAIN rows : rows'[k].tag = rows[k].tag /\ rows'[k].enabled = rows[k].enabled
      /\ DOMAIN rows' = DOMAIN rows
  BY DEF Carried, RowsKept, RowKept, Holds
<1>2. job'[r].stage \in Marked \ {"failure"} => job'[r].doomed = FALSE
  BY DEF Carried
<1> QED BY <1>1, <1>2 DEF Holds, Carried, Marked, Planned, Untouched

\* A request that rewrites its row and reads it again afterwards.
LEMMA RewriteServed ==
  ASSUME ServedInv, NEW r \in DOMAIN job, job[r] \in Job, Running(r), UNCHANGED runtime,
         NEW row \in Row, Rewrite(job[r].inb, row), Goto(r, "reread"),
         \A k \in DOMAIN rows \ {job[r].inb} : rows[k].tag # row.tag,
         \A c, d \in row.clients : c.email = d.email => c = d,
         job[r].op = "setEnabled" => row.tag = rows[job[r].inb].tag
  PROVE  UniqueTags' /\ UniqueEmails' /\ AppliedServed' /\ AtWork(r)'
<1> DEFINE i == job[r].inb
<1>0. Holds(r) /\ i \in DOMAIN rows
  BY DEF ServedInv, AtWork, Holds
<1>1. /\ Pending(row).status = "PENDING" /\ Pending(row).tag = row.tag
      /\ Pending(row).clients = row.clients
  BY PendingRow
<1>2. /\ rows' = Updated(rows, i, Pending(row))
      /\ DOMAIN rows' = DOMAIN rows /\ rows'[i] = Pending(row)
      /\ \A k \in DOMAIN rows' \ {i} : k \in DOMAIN rows /\ rows'[k] = rows[k]
  BY <1>0 DEF Rewrite, Updated
<1>3. UniqueTags' /\ UniqueEmails'
  BY <1>1, <1>2, WriteKeepsNames DEF ServedInv
<1>4. \A k : k # i => ~Half(k)
  BY NotHalf DEF ServedInv
<1>5. AppliedServed'
  BY <1>1, <1>2, <1>4, WriteKeepsServed DEF ServedInv
<1>6. Carried(r) /\ job'[r].stage = "reread"
  BY GotoCarries
<1>7. Holds(r)'
  BY <1>0, <1>1, <1>2, <1>6 DEF Holds, Carried, Marked, Planned, Untouched
<1> QED BY <1>3, <1>5, <1>6, <1>7, EarlyStage DEF Planned, Untouched

LEMMA ServedWrite ==
  ASSUME ServedInv, NEW r \in Request, Write(r)
  PROVE  UniqueTags' /\ UniqueEmails' /\ AppliedServed' /\ (Running(r)' => AtWork(r)')
<1> DEFINE i == job[r].inb
<1>1. r \in DOMAIN job /\ job[r] \in Job /\ Running(r) /\ Holds(r)
  BY ProceedIsJob, ProceedIsRunning DEF ServedInv, AtWork, Proceed
<1>2. /\ i \in DOMAIN rows /\ rows[i] \in Row /\ rows[i].clients \in SUBSET Client
      /\ \A k \in DOMAIN rows \ {i} : rows[k].tag # rows[i].tag
      /\ \A c, d \in rows[i].clients : c.email = d.email => c = d
  BY <1>1 DEF Holds, ServedInv, TypeOK, RowsOK, Row, UniqueTags, UniqueEmails
<1>3. UNCHANGED runtime
  BY DEF Write
<1>4. \A k : (k # i \/ job[r].stage # "bump") => ~Half(k)
  BY <1>1, NotHalf DEF ServedInv
<1>5. CASE WriteUpdate(r)
  <2>1. PICK t \in Tag \ TagsOf(DOMAIN rows \ {i}), l \in Listener, e \in BOOLEAN :
          Rewrite(i, [rows[i] EXCEPT !.tag = t, !.listener = l, !.enabled = e])
    BY <1>5 DEF WriteUpdate
  <2> DEFINE row == [rows[i] EXCEPT !.tag = t, !.listener = l, !.enabled = e]
  <2>2. row \in Row /\ row.tag = t /\ row.clients = rows[i].clients
    BY <1>2 DEF Row
  <2>3. Rewrite(i, row) /\ Goto(r, "reread") /\ job[r].op # "setEnabled"
    BY <1>5, <2>1 DEF WriteUpdate, Writing
  <2>4. \A k \in DOMAIN rows \ {i} : rows[k].tag # t
    BY DEF TagsOf
  <2> HIDE DEF row
  <2> QED BY <1>1, <1>2, <1>3, <2>2, <2>3, <2>4, RewriteServed
<1>6. CASE WriteEnabled(r)
  <2>1. PICK e \in BOOLEAN : Rewrite(i, [rows[i] EXCEPT !.enabled = e])
    BY <1>6 DEF WriteEnabled
  <2> DEFINE row == [rows[i] EXCEPT !.enabled = e]
  <2>2. row \in Row /\ row.tag = rows[i].tag /\ row.clients = rows[i].clients
    BY <1>2 DEF Row
  <2>3. Rewrite(i, row) /\ Goto(r, "reread")
    BY <1>6, <2>1 DEF WriteEnabled
  <2> HIDE DEF row
  <2> QED BY <1>1, <1>2, <1>3, <2>2, <2>3, RewriteServed
<1>7. CASE WriteCreateClient(r)
  <2>1. PICK new \in SUBSET Client :
          /\ Rewrite(i, [rows[i] EXCEPT !.clients = new])
          /\ \A c, d \in new : c.email = d.email => c = d
    BY <1>2, <1>7, EditsType, EditsUnique DEF WriteCreateClient
  <2> DEFINE row == [rows[i] EXCEPT !.clients = new]
  <2>2. row \in Row /\ row.tag = rows[i].tag /\ row.clients = new
    BY <1>2 DEF Row
  <2>3. Rewrite(i, row) /\ Goto(r, "reread")
    BY <1>7, <2>1 DEF WriteCreateClient
  <2> HIDE DEF row
  <2> QED BY <1>1, <1>2, <1>3, <2>1, <2>2, <2>3, RewriteServed
<1>8. CASE MarkPending(r)
  BY <1>1, <1>2, <1>3, <1>8, RewriteServed DEF MarkPending
<1>9. CASE WriteClients(r)
  <2>0. PICK op \in {"rotateClient", "deleteClient", "deleteExpired"} :
          /\ Writing(r, op) /\ Goto(r, "bump")
          /\ \E new \in ClientEdits(op, rows[i].clients) :
               rows' = Updated(rows, i, [rows[i] EXCEPT !.clients = new])
    BY <1>9 DEF WriteClients
  <2>1. PICK new \in ClientEdits(op, rows[i].clients) :
          rows' = Updated(rows, i, [rows[i] EXCEPT !.clients = new])
    BY <2>0
  <2>2. \A c, d \in new : c.email = d.email => c = d
    BY <1>2, <2>0, EditsUnique DEF ClientEdits
  <2> DEFINE row == [rows[i] EXCEPT !.clients = new]
  <2>3. row.tag = rows[i].tag /\ row.clients = new /\ row.enabled = rows[i].enabled
    BY <1>2 DEF Row
  <2>4. rows' = Updated(rows, i, row)
    BY <2>1
  <2> HIDE DEF row
  <2>5. UniqueTags' /\ UniqueEmails'
    BY <1>2, <2>2, <2>3, <2>4, WriteKeepsNames DEF ServedInv
  <2>6. /\ \A k \in DOMAIN rows' \ {i} : k \in DOMAIN rows /\ rows'[k] = rows[k]
        /\ DOMAIN rows' = DOMAIN rows /\ rows'[i] = row
    BY <1>2, <2>4 DEF Updated
  <2>7. Carried(r) /\ job'[r].stage = "bump" /\ r \in DOMAIN job'
    BY <1>1, <2>0, GotoCarries DEF Goto
  <2>8. PICK k : k = i
    OBVIOUS
  <2>9. AppliedServed'
    <3>1. Half(k)'
      BY <2>7, <2>8 DEF Half, Carried
    <3> QED BY <1>3, <1>4, <2>6, <2>8, <3>1, WriteKeepsServed DEF ServedInv
  <2>10. job[r].stage # "reread"
    BY <2>0 DEF Writing, At
  <2>11. Holds(r)'
    BY <1>1, <1>2, <2>3, <2>6, <2>7, <2>10 DEF Holds, Carried, Marked, Planned, Untouched
  <2> QED BY <2>5, <2>7, <2>9, <2>11, EarlyStage DEF Planned, Untouched
<1>10. CASE NothingExpired(r)
  <2>1. UNCHANGED rows /\ ~Running(r)' /\ job[r].stage # "bump"
    BY <1>1, <1>10 DEF NothingExpired, End, Running, Ended, Writing, At
  <2> QED BY <1>3, <1>4, <2>1, NoWriteKeepsServed DEF ServedInv, UniqueTags, UniqueEmails
<1>11. CASE WriteDelete(r)
  <2>1. CASE job[r].enabled /\ Goto(r, "reread") /\ Rewrite(i, [rows[i] EXCEPT !.enabled = FALSE])
    <3> DEFINE row == [rows[i] EXCEPT !.enabled = FALSE]
    <3>1. row \in Row /\ row.tag = rows[i].tag /\ row.clients = rows[i].clients
      BY <1>2 DEF Row
    <3>2. Rewrite(i, row) /\ Goto(r, "reread")
      BY <2>1
    <3> HIDE DEF row
    <3> QED BY <1>1, <1>2, <1>3, <3>1, <3>2, RewriteServed
  <2>2. CASE Goto(r, "policy") /\ UNCHANGED rows
    <3>1. job[r].stage = "write"
      BY <1>11 DEF WriteDelete, Writing, At
    <3>2. Carried(r) /\ job'[r].stage = "policy"
      BY <1>1, <2>2, GotoCarries
    <3>3. Holds(r)'
      BY <1>1, <2>2, <3>1, <3>2, HoldsOn, SameRowsKept DEF Marked, Planned, Untouched
    <3>4. UniqueTags' /\ UniqueEmails' /\ AppliedServed'
      BY <1>3, <1>4, <2>2, <3>1, NoWriteKeepsServed DEF ServedInv, UniqueTags, UniqueEmails
    <3> QED BY <3>2, <3>3, <3>4, EarlyStage DEF Planned, Untouched
  <2> QED BY <1>11, <2>1, <2>2 DEF WriteDelete
<1>12. CASE Reread(r)
  <2>1. job[r].stage = "reread" /\ UNCHANGED rows
    BY <1>12 DEF Reread, At
  <2>2. /\ job'[r].stage = "policy" /\ job'[r].inb = i /\ job'[r].tag = rows[i].tag
        /\ job'[r].enabled = rows[i].enabled /\ job'[r].op = job[r].op
        /\ \/ job'[r].oldTags = job[r].oldTags
           \/ job'[r].oldTags = {rows[i].tag} /\ job[r].op # "setEnabled"
    BY <1>1, <1>12 DEF Reread, Job
  <2>3. Holds(r)'
    BY <1>1, <1>2, <2>1, <2>2 DEF Holds, Marked, Planned, Untouched
  <2>4. UniqueTags' /\ UniqueEmails' /\ AppliedServed'
    BY <1>3, <1>4, <2>1, NoWriteKeepsServed DEF ServedInv, UniqueTags, UniqueEmails
  <2> QED BY <2>2, <2>3, <2>4, EarlyStage DEF Planned, Untouched
<1> QED BY <1>5, <1>6, <1>7, <1>8, <1>9, <1>10, <1>11, <1>12 DEF Write

LEMMA NoWriteServed ==
  ASSUME ServedInv, NEW r \in DOMAIN job, Running(r), job[r].stage # "bump",
         UNCHANGED <<rows, runtime>>
  PROVE  UniqueTags' /\ UniqueEmails' /\ AppliedServed'
  BY NotHalf, NoWriteKeepsServed DEF ServedInv, UniqueTags, UniqueEmails

\* An apply writes the status of its row, APPLIED only when the row is served.
LEMMA StatusServed ==
  ASSUME ServedInv, NEW r \in DOMAIN job, Running(r), job[r].stage # "bump",
         UNCHANGED runtime, NEW i, i = job[r].inb, NEW row,
         rows' = Updated(rows, i, row), RowKept(rows[i], row),
         row.clients = rows[i].clients,
         row.status # "APPLIED" \/ (row.enabled => ServedBy(runtime, row))
  PROVE  /\ RowsKept /\ SaidKept(i) /\ rows'[i] = row
         /\ UniqueTags' /\ UniqueEmails' /\ AppliedServed'
<1>0. i \in DOMAIN rows
  BY DEF ServedInv, AtWork, Holds
<1>1. /\ DOMAIN rows' = DOMAIN rows /\ rows'[i] = row
      /\ \A k \in DOMAIN rows \ {i} : rows'[k] = rows[k]
  BY <1>0 DEF Updated
<1>2. RowsKept /\ SaidKept(i)
  BY <1>1, SameRowKept DEF RowsKept, SaidKept, SaidApplied, Summary
<1>3. UniqueTags' /\ UniqueEmails'
  <2>1. \A k \in DOMAIN rows : rows'[k].tag = rows[k].tag /\ rows'[k].clients = rows[k].clients
    BY <1>1 DEF RowKept
  <2> QED BY <1>1, <2>1 DEF ServedInv, UniqueTags, UniqueEmails
<1>4. ASSUME NEW k \in EnabledIds', SaidApplied(k)' PROVE ServedBy(runtime, rows'[k])
  <2>1. CASE k = i
    BY <1>1, <1>4, <2>1 DEF SaidApplied, Summary, EnabledIds
  <2>2. CASE k # i
    BY <1>1, <1>4, <2>2, NotHalf DEF SaidApplied, Summary, EnabledIds, ServedInv, AppliedServed
  <2> QED BY <2>1, <2>2
<1>5. AppliedServed'
  BY <1>4 DEF AppliedServed, ServedBy, Shows, Names
<1> QED BY <1>1, <1>2, <1>3, <1>5

\* The instance as it is serves what the panel calls applied.
LEMMA RuntimeServesOthers ==
  ASSUME ServedInv, NEW r \in DOMAIN job, Running(r)
  PROVE  ServesOthers(runtime, job[r].inb)
<1>1. \A k \in EnabledIds \ {job[r].inb} : ~Half(k)
  BY NotHalf DEF ServedInv
<1> QED BY <1>1 DEF ServesOthers, ServedInv, AppliedServed

\* A hot change of the clients is planned for one entry that listens alike in
\* both documents, and nothing is planned only when they are equal.
LEMMA PlanSays ==
  ASSUME NEW j, j.oldTags = {} \/ \E t : j.oldTags = {t}
  PROVE  /\ Plan(j) = "NOOP" => runtime = j.desired
         /\ Plan(j) = "HOT_CLIENTS" =>
              /\ j.oldTags = {j.tag}
              /\ \E p \in WithTag(runtime, {j.tag}), n \in WithTag(j.desired, {j.tag}) :
                   p.listener = n.listener
<1> DEFINE plan == ComputeApplyPlan(runtime, j.desired, j.oldTags, j.tag)
<1>1. Plan(j) = "NOOP" => plan = "NOOP"
  BY DEF Plan
<1>2. plan = "NOOP" => runtime = j.desired
  BY DEF ComputeApplyPlan
<1>3. ASSUME Plan(j) = "HOT_CLIENTS"
      PROVE  /\ j.oldTags = {j.tag}
             /\ \E p \in WithTag(runtime, {j.tag}), n \in WithTag(j.desired, {j.tag}) :
                  p.listener = n.listener
  <2>1. plan = "HOT_CLIENTS"
    BY <1>3 DEF Plan
  <2>2. /\ WithTag(runtime, j.oldTags) # {} /\ WithTag(j.desired, {j.tag}) # {}
        /\ \A p \in WithTag(runtime, j.oldTags), n \in WithTag(j.desired, {j.tag}) :
             <<p.tag, p.listener>> = <<n.tag, n.listener>>
    BY <2>1 DEF ComputeApplyPlan
  <2>3. PICK p \in WithTag(runtime, j.oldTags), n \in WithTag(j.desired, {j.tag}) :
             p.tag = n.tag /\ p.listener = n.listener
    BY <2>2
  <2>4. n.tag = j.tag /\ p.tag \in j.oldTags
    BY DEF WithTag
  <2>5. j.oldTags = {j.tag}
    BY <2>3, <2>4
  <2> QED BY <2>3, <2>5
<1> QED BY <1>1, <1>2, <1>3

\* What the first call of a plan finds.
LEMMA FirstCallReaches ==
  ASSUME ServedInv, NEW r \in DOMAIN job, job[r] \in Job, Running(r),
         job[r].stage = "backup", UNCHANGED runtime, Goto(r, FirstCall(job[r]))
  PROVE  Reaches(r)'
<1> DEFINE j == job[r]
<1>1. Carried(r) /\ job'[r].stage = FirstCall(j)
  BY GotoCarries
<1>2. Aims(r) /\ Returns(r) /\ runtime = j.previous /\ j.doomed = FALSE
  BY DEF ServedInv, AtWork, Holds, Reaches, Marked, Planned, Untouched
<1>3. /\ runtime \in Document /\ j.desired \in Document
      /\ Proper(runtime) /\ Proper(j.desired)
  BY <1>2 DEF ServedInv, TypeOK, Job, Aims, Planned, Untouched
<1>4. j.strategy \in Strategy
  BY DEF Job
<1>5. CASE j.strategy \in {"HOT_INBOUND", "RESTART_REQUIRED"}
  <2>1. job'[r].stage \in {"hotReplace", "restart"}
    BY <1>1, <1>5 DEF FirstCall
  <2> QED BY <1>1, <1>2, <2>1 DEF Reaches, Carried
<1>6. CASE j.strategy = "NOOP"
  <2>1. job'[r].stage = "health"
    BY <1>1, <1>6 DEF FirstCall
  <2>2. runtime = j.desired
    BY <1>2, <1>6 DEF Returns, Planned, Untouched
  <2>3. Replaced(r)'
    BY <1>1, <2>2 DEF Replaced, Carried, WithTag
  <2> QED BY <2>1, <2>3 DEF Reaches, Untouched
<1>7. CASE j.strategy = "HOT_CLIENTS"
  <2>1. job'[r].stage = IF RemovedEmails(j) # {} THEN "hotRemove"
                        ELSE IF AddedUsers(j) # {} THEN "hotAdd" ELSE "health"
    BY <1>1, <1>7 DEF FirstCall
  <2>2. /\ j.oldTags = {j.tag}
        /\ \E p \in WithTag(j.previous, {j.tag}), n \in WithTag(j.desired, {j.tag}) :
             p.listener = n.listener
    BY <1>2, <1>7 DEF Returns, Planned, Untouched
  <2>3. PICK p \in WithTag(j.previous, {j.tag}), n \in WithTag(j.desired, {j.tag}) :
             p.listener = n.listener
    BY <2>2
  <2> DEFINE P == UsersOf(j.previous, {j.tag})  D == UsersOf(j.desired, {j.tag})
  <2>4. p.users = P /\ n.users = D
    BY <1>2, <1>3, OneEntry
  <2>5. CASE RemovedEmails(j) # {}
    BY <1>1, <1>2, <1>7, <2>1, <2>5 DEF Reaches, Carried, Untouched
  <2>6. CASE RemovedEmails(j) = {}
    <3>1. P \ D = {}
      BY <2>2, <2>6 DEF RemovedEmails
    <3>2. CASE AddedUsers(j) # {}
      <4>1. p.users = P \cap D
        BY <2>4, <3>1
      <4>2. Trimmed(r)
        BY <1>2, <2>3, <4>1 DEF Trimmed
      <4>3. Trimmed(r)'
        BY <1>1, <4>2 DEF Trimmed, Carried, WithTag, UsersOf
      <4>4. job'[r].stage = "hotAdd"
        BY <2>1, <2>6, <3>2
      <4> QED BY <1>1, <1>7, <4>3, <4>4 DEF Reaches, Carried, Untouched
    <3>3. CASE AddedUsers(j) = {}
      <4>1. D \ P = {}
        BY <2>2, <3>3 DEF AddedUsers
      <4>2. p.users = n.users
        <5> HIDE DEF P, D
        <5>1. P = D
          BY <3>1, <4>1
        <5> QED BY <2>4, <5>1
      <4>3. WithTag(runtime, {j.tag}) = WithTag(j.desired, {j.tag})
        BY <1>2, <1>3, <2>3, <4>2, SameEntry
      <4>4. Replaced(r)'
        BY <1>1, <4>3 DEF Replaced, Carried, WithTag
      <4>5. job'[r].stage = "health"
        BY <2>1, <2>6, <3>3
      <4> QED BY <4>4, <4>5 DEF Reaches, Untouched
    <3> QED BY <3>2, <3>3
  <2> QED BY <2>5, <2>6
<1> QED BY <1>4, <1>5, <1>6, <1>7 DEF Strategy

LEMMA ServedPrepare ==
  ASSUME ServedInv, NEW r \in Request, Prepare(r)
  PROVE  UniqueTags' /\ UniqueEmails' /\ AppliedServed' /\ AtWork(r)'
<1>0. PICK i : i = job[r].inb
  OBVIOUS
<1>1. /\ r \in DOMAIN job /\ job[r] \in Job /\ Running(r)
      /\ Holds(r) /\ Aims(r) /\ Returns(r) /\ Reaches(r)
  BY ProceedIsJob, ProceedIsRunning DEF ServedInv, AtWork, Proceed
<1>2. job[r].stage \in {"policy", "build", "current", "begin", "applying", "validate", "backup"}
  BY DEF Prepare, ReadPolicy, Build, ReadCurrent, BeginApply, MarkApplying,
     ValidateConfig, Backup, At
<1>3. UNCHANGED runtime
  BY DEF Prepare
<1>4. ASSUME UNCHANGED rows
      PROVE  /\ UniqueTags' /\ UniqueEmails' /\ AppliedServed'
             /\ RowsKept /\ SaidKept(i)
  BY <1>1, <1>2, <1>3, <1>4, NoWriteServed, SameRowsKept
<1>5. CASE ReadPolicy(r)
  <2>1. Carried(r) /\ job'[r].stage = "build"
    BY <1>1, <1>5 DEF ReadPolicy, Job, Carried
  <2>2. UNCHANGED rows
    BY <1>5 DEF ReadPolicy
  <2>3. Holds(r)'
    BY <1>1, <1>2, <1>4, <2>1, <2>2, HoldsOn DEF Marked, Planned, Untouched
  <2> QED BY <1>4, <2>1, <2>2, <2>3, EarlyStage DEF Planned, Untouched
<1>6. CASE Build(r)
  <2>1. /\ UNCHANGED rows /\ job'[r].inb = i /\ job'[r].tag = job[r].tag
        /\ job'[r].oldTags = job[r].oldTags /\ job'[r].enabled = job[r].enabled
        /\ job'[r].op = job[r].op
        /\ \/ job'[r].stage = "begin" /\ job'[r].doomed = TRUE
           \/ job'[r].stage = "current" /\ job'[r].desired = BuildDocument(job[r].global)
    BY <1>0, <1>1, <1>6, BuildEffect
  <2>2. Holds(r)'
    BY <1>0, <1>1, <1>2, <2>1 DEF Holds, Marked, Planned, Untouched
  <2>3. Aims(r)'
    <3>1. CASE job'[r].doomed = TRUE
      BY <3>1 DEF Aims
    <3>2. CASE job'[r].desired = BuildDocument(job[r].global)
      <4>1. /\ Proper(job'[r].desired)
            /\ \A k \in EnabledIds : ServedBy(job'[r].desired, rows[k])
            /\ \A e \in job'[r].desired.inbounds : \E k \in EnabledIds : e.tag = rows[k].tag
        BY <3>2, BuiltServes DEF ServedInv
      <4> QED BY <2>1, <4>1 DEF Aims, EnabledIds, Proper, ServedBy, Shows, Names
    <3> QED BY <2>1, <3>1, <3>2
  <2>4. Returns(r)' /\ Reaches(r)'
    BY <2>1 DEF Returns, Reaches, Planned, Untouched
  <2> QED BY <1>4, <2>1, <2>2, <2>3, <2>4 DEF AtWork
<1>7. CASE ReadCurrent(r)
  <2>1. /\ UNCHANGED rows /\ job'[r].inb = i /\ job'[r].tag = job[r].tag
        /\ job'[r].oldTags = job[r].oldTags /\ job'[r].enabled = job[r].enabled
        /\ job'[r].op = job[r].op /\ job'[r].desired = job[r].desired
        /\ job'[r].stage = "begin"
        /\ \/ /\ job'[r].doomed = job[r].doomed /\ job'[r].previous = runtime
              /\ job'[r].strategy = Plan(job[r])
           \/ job'[r].doomed = TRUE
    <3>1. PICK plan : plan = Plan(job[r])
      OBVIOUS
    <3>2. UNCHANGED rows
      BY <1>7 DEF ReadCurrent
    <3>3. CASE job' = [job EXCEPT ![r].stage = "begin", ![r].previous = runtime,
                         ![r].strategy = plan]
      BY <1>0, <1>1, <3>1, <3>2, <3>3 DEF Job
    <3>4. CASE job' = [job EXCEPT ![r].stage = "begin", ![r].doomed = TRUE]
      BY <1>0, <1>1, <3>2, <3>4 DEF Job
    <3> QED BY <1>7, <3>1, <3>3, <3>4 DEF ReadCurrent
  <2>2. Holds(r)'
    BY <1>0, <1>1, <1>2, <2>1 DEF Holds, Marked, Planned, Untouched
  <2>3. CASE job'[r].doomed = TRUE
    BY <1>4, <2>1, <2>2, <2>3 DEF AtWork, Aims, Returns, Reaches, Planned, Untouched
  <2>4. CASE /\ job'[r].doomed = job[r].doomed /\ job'[r].previous = runtime
             /\ job'[r].strategy = Plan(job[r])
    <3>1. Reaches(r)'
      BY <1>3, <2>1, <2>4 DEF Reaches, Untouched
    <3>2. job[r].stage = "current"
      BY <1>7 DEF ReadCurrent, At
    <3>3. Aims(r)'
      BY <1>1, <2>1, <2>4, <3>2 DEF Aims, EnabledIds, Proper, ServedBy, Shows, Names
    <3>4. ServesOthers(runtime, i)
      BY <1>0, <1>1, RuntimeServesOthers
    <3>5. ServesOthers(job[r].previous, job[r].inb)'
      BY <2>1, <2>4, <3>4 DEF ServesOthers, EnabledIds, SaidApplied, Summary, Proper, ServedBy, Shows, Names
    <3>6. job[r].oldTags = {} \/ \E t : job[r].oldTags = {t}
      <4>1. \A s, t \in job[r].oldTags : s = t
        BY <1>1 DEF Holds
      <4>2. CASE job[r].oldTags # {}
        <5>1. PICK t : t \in job[r].oldTags
          BY <4>2
        <5>2. job[r].oldTags = {t}
          BY <4>1, <5>1
        <5> QED BY <5>2
      <4> QED BY <4>2
    <3>7. /\ Plan(job[r]) = "NOOP" => runtime = job[r].desired
          /\ Plan(job[r]) = "HOT_CLIENTS" =>
               /\ job[r].oldTags = {job[r].tag}
               /\ \E p \in WithTag(runtime, {job[r].tag}), n \in WithTag(job[r].desired, {job[r].tag}) :
                    p.listener = n.listener
      BY <3>6, PlanSays
    <3>8. Returns(r)'
      <4>1. /\ job'[r].strategy = "NOOP" => job'[r].previous = job'[r].desired
            /\ job'[r].strategy = "HOT_CLIENTS" =>
                 /\ job'[r].oldTags = {job'[r].tag}
                 /\ \E p \in WithTag(job'[r].previous, {job'[r].tag}),
                       n \in WithTag(job'[r].desired, {job'[r].tag}) : p.listener = n.listener
        BY <2>1, <2>4, <3>7
      <4> QED BY <3>5, <4>1 DEF Returns, WithTag
    <3> QED BY <1>4, <2>1, <2>2, <3>1, <3>3, <3>8 DEF AtWork
  <2> QED BY <2>1, <2>3, <2>4
<1>8. CASE BeginApply(r) \/ ValidateConfig(r) \/ Backup(r)
  <2>0. PICK stage :
          /\ Goto(r, stage) /\ UNCHANGED rows
          /\ \/ stage = "applying" /\ job[r].stage = "begin"
             \/ stage = "failure" /\ job[r].stage \in {"validate", "backup"}
             \/ stage = "backup" /\ job[r].stage = "validate"
             \/ stage = FirstCall(job[r]) /\ job[r].stage = "backup"
    <3>1. CASE BeginApply(r)
      BY <3>1 DEF BeginApply, At
    <3>2. CASE ValidateConfig(r)
      BY <3>2 DEF ValidateConfig, At
    <3>3. CASE Backup(r)
      BY <3>3 DEF Backup, At
    <3> QED BY <1>8, <3>1, <3>2, <3>3
  <2>1. Carried(r) /\ job'[r].stage = stage
    BY <1>1, <2>0, GotoCarries
  <2>2. stage \in {"applying", "failure", "backup"} \cup Mutating \cup {"health"}
    BY <1>1, <2>0, FirstCallStage DEF Job
  <2>3. job[r].stage \in Planned
    BY <1>1, <1>2, <2>0, FirstCallStage DEF Planned, Untouched, Job, Mutating
  <2>4. stage # "applying" => job[r].stage \in Marked \ {"failure"}
    BY <2>0 DEF Marked, Planned, Untouched
  <2>5. Holds(r)'
    BY <1>0, <1>1, <1>2, <1>4, <2>0, <2>1, <2>4, HoldsOn DEF Holds, Marked, Planned, Untouched
  <2>6. Aims(r)' /\ Returns(r)'
    BY <1>0, <1>1, <1>4, <2>0, <2>1, <2>3, AimsOn, ReturnsOn
  <2>7. Reaches(r)'
    <3>1. CASE stage \in {"applying", "backup"} /\ job[r].stage \in {"begin", "validate"}
      BY <1>1, <1>3, <2>1, <3>1 DEF Reaches, Carried, Untouched
    <3>2. CASE stage = "failure"
      BY <2>1, <3>2 DEF Reaches, Untouched
    <3>3. CASE stage = FirstCall(job[r]) /\ job[r].stage = "backup"
      BY <1>1, <1>3, <2>0, <3>3, FirstCallReaches
    <3> QED BY <2>0, <3>1, <3>2, <3>3
  <2> QED BY <1>4, <2>0, <2>5, <2>6, <2>7 DEF AtWork
<1>9. CASE MarkApplying(r)
  <2> DEFINE row == [rows[i] EXCEPT !.status = "APPLYING"]
  <2>1. rows[i] \in Row /\ i \in DOMAIN rows
    BY <1>0, <1>1 DEF Holds, ServedInv, TypeOK, RowsOK
  <2>2. /\ RowKept(rows[i], row) /\ row.clients = rows[i].clients
        /\ row.status = "APPLYING"
    BY <2>1, StatusKept DEF Row
  <2>3. rows' = Updated(rows, i, row)
    BY <1>0, <1>9 DEF MarkApplying
  <2> HIDE DEF row
  <2>4. /\ RowsKept /\ SaidKept(i) /\ rows'[i] = row
        /\ UniqueTags' /\ UniqueEmails' /\ AppliedServed'
    BY <1>0, <1>1, <1>2, <1>3, <2>2, <2>3, StatusServed
  <2>5. /\ Carried(r) /\ job[r].stage = "applying"
        /\ job'[r].stage = IF job[r].doomed THEN "failure" ELSE "validate"
    BY <1>1, <1>9, GotoCarries DEF MarkApplying, At
  <2>6. job[r].doomed \in BOOLEAN
    BY <1>1 DEF Job
  <2>7. Holds(r)'
    BY <1>0, <1>1, <2>2, <2>4, <2>5, <2>6, HoldsOn
  <2>8. job[r].stage \in Planned
    BY <2>5 DEF Planned, Untouched
  <2>9. Aims(r)' /\ Returns(r)'
    BY <1>0, <1>1, <2>4, <2>5, <2>8, AimsOn, ReturnsOn
  <2>10. Reaches(r)'
    BY <1>1, <1>3, <2>5 DEF Reaches, Carried, Untouched
  <2> QED BY <2>4, <2>7, <2>9, <2>10 DEF AtWork
<1> QED BY <1>5, <1>6, <1>7, <1>8, <1>9 DEF Prepare

\* The rows are not written while the instance is changed.
LEMMA ServesOthersStill ==
  ASSUME UNCHANGED rows, NEW document, NEW i, ServesOthers(document, i), runtime' = document
  PROVE  ServesOthers(runtime, i)'
  BY DEF ServesOthers, EnabledIds, SaidApplied, Summary, Proper, ServedBy, Shows, Names

\* A call that leaves a document which serves the other rows, and that reaches
\* what it was to reach unless it goes on to the restore.
LEMMA PerformServed ==
  ASSUME ServedInv, NEW r \in DOMAIN job, job[r] \in Job, Running(r), UNCHANGED rows,
         NEW i, i = job[r].inb,
         job[r].stage \in Marked \ {"failure"}, Carried(r),
         ServesOthers(runtime, i)', job'[r].stage \in Marked,
         job'[r].stage \notin {"failure", "restore", "restoreHealth"} => Reaches(r)'
  PROVE  UniqueTags' /\ UniqueEmails' /\ Proper(runtime)' /\ AppliedServed' /\ AtWork(r)'
<1>1. Holds(r) /\ Aims(r) /\ Returns(r)
  BY DEF ServedInv, AtWork
<1>2. RowsKept /\ SaidKept(i)
  BY SameRowsKept
<1>3. i \in DOMAIN rows /\ rows[i].status = "APPLYING" /\ job[r].doomed = FALSE
  BY <1>1 DEF Holds
<1>4. job[r].stage \in Planned /\ job[r].stage # "reread"
  BY DEF Marked, Planned, Untouched
<1>5. Holds(r)'
  BY <1>1, <1>2, <1>3, <1>4, HoldsOn
<1>6. Aims(r)' /\ Returns(r)'
  BY <1>1, <1>2, <1>4, AimsOn, ReturnsOn
<1>7. Reaches(r)'
  BY DEF Reaches, Untouched
<1>8. AppliedServed'
  BY <1>3 DEF AppliedServed, ServesOthers, SaidApplied, Summary, EnabledIds
<1>9. UniqueTags' /\ UniqueEmails'
  BY DEF ServedInv, UniqueTags, UniqueEmails
<1> QED BY <1>5, <1>6, <1>7, <1>8, <1>9 DEF AtWork, ServesOthers

\* A call either does what it should, or goes on to the restore.
LEMMA CallServes ==
  ASSUME UNCHANGED rows, NEW i, NEW after, NEW partly, NEW next, NEW r,
         ServesOthers(runtime, i), ServesOthers(after, i),
         \A d \in partly : ServesOthers(d, i), Call(r, after, partly, next)
  PROVE  /\ ServesOthers(runtime, i)'
         /\ \/ runtime' = after /\ Goto(r, next)
            \/ Goto(r, "restore")
<1>1. PICK d : d = runtime' /\ ServesOthers(d, i)
  BY DEF Call
<1>2. ServesOthers(runtime, i)'
  BY <1>1, ServesOthersStill
<1> QED BY <1>2 DEF Call

\* The other rows have other tags than the request may touch.
LEMMA OthersKeepServed ==
  ASSUME NEW r, Holds(r), NEW document, NEW after, ServesOthers(document, job[r].inb),
         Proper(after),
         \A e \in document.inbounds :
           e.tag \notin job[r].oldTags \cup {job[r].tag} => e \in after.inbounds
  PROVE  ServesOthers(after, job[r].inb)
<1>1. ASSUME NEW k \in EnabledIds \ {job[r].inb}, SaidApplied(k)
      PROVE  ServedBy(after, rows[k])
  <2>1. ServedBy(document, rows[k])
    BY <1>1 DEF ServesOthers
  <2>2. rows[k].tag \notin job[r].oldTags \cup {job[r].tag}
    BY DEF Holds, EnabledIds
  <2> QED BY <2>1, <2>2, OtherTagsServe
<1> QED BY <1>1 DEF ServesOthers

LEMMA ServedHotRemove ==
  ASSUME ServedInv, NEW r \in DOMAIN job, job[r] \in Job, Running(r), UNCHANGED rows,
         HotRemoveUsers(r)
  PROVE  UniqueTags' /\ UniqueEmails' /\ Proper(runtime)' /\ AppliedServed' /\ AtWork(r)'
<1>0. PICK i, t, desired, after, next :
        /\ i = job[r].inb /\ t = job[r].tag /\ desired = job[r].desired
        /\ after = EditUsers(job[r].oldTags, RemovedEmails(job[r]), {})
        /\ next = IF AddedUsers(job[r]) # {} THEN "hotAdd" ELSE "health"
  OBVIOUS
<1>1. job[r].stage = "hotRemove" /\ r \in DOMAIN job
  BY DEF HotRemoveUsers, At
<1>2. /\ Holds(r) /\ Aims(r) /\ Returns(r) /\ runtime = job[r].previous
      /\ job[r].strategy = "HOT_CLIENTS" /\ job[r].doomed = FALSE
  BY <1>1 DEF ServedInv, AtWork, Holds, Reaches, Marked, Planned, Untouched
<1>3. /\ runtime \in Document /\ Proper(runtime) /\ ServesOthers(runtime, i)
      /\ desired \in Document /\ Proper(desired)
  BY <1>0, <1>1, <1>2, RuntimeServesOthers
     DEF ServedInv, TypeOK, Job, Aims, Planned, Untouched
<1>4. /\ job[r].oldTags = {t}
      /\ \E p \in WithTag(runtime, {t}), n \in WithTag(desired, {t}) : p.listener = n.listener
  BY <1>0, <1>1, <1>2 DEF Returns, Planned, Untouched
<1>5. PICK p \in WithTag(runtime, {t}), n \in WithTag(desired, {t}) : p.listener = n.listener
  BY <1>4
<1>6. PICK P, D : P = UsersOf(runtime, {t}) /\ D = UsersOf(desired, {t})
  OBVIOUS
<1>7. p.users = P /\ n.users = D
  BY <1>3, <1>6, OneEntry
<1>8. \A u, v \in P : u.email = v.email => u = v
  BY <1>3, <1>7 DEF Proper, WithTag
<1>9. /\ RemovedEmails(job[r]) = {w.email : w \in P \ D}
      /\ AddedUsers(job[r]) = D \ P
  BY <1>0, <1>2, <1>4, <1>6 DEF RemovedEmails, AddedUsers
<1>10. PICK left, emails : left = P \cap D /\ emails = RemovedEmails(job[r])
  OBVIOUS
<1>11. left = {u \in p.users : u.email \notin emails} \cup {}
  BY <1>7, <1>8, <1>9, <1>10, TrimmedUsers
<1>12. \A u, v \in left : u.email = v.email => u = v
  BY <1>8, <1>10
<1>13. after = EditUsers({t}, emails, {})
  BY <1>0, <1>4, <1>10
<1>14. /\ Proper(after)
       /\ \A e \in runtime.inbounds : e.tag \notin {t} => e \in after.inbounds
       /\ \E e \in WithTag(after, {t}) : e.listener = p.listener /\ e.users = left
  <2>1. \A u : u \in left <=> (u \in p.users /\ u.email \notin emails) \/ u \in {}
    BY <1>11
  <2>2. /\ Proper(after)
        /\ \A e \in runtime.inbounds : e.tag \notin {t} => e \in after.inbounds
        /\ [p EXCEPT !.users = left] \in WithTag(after, {t})
    BY <1>3, <1>12, <1>13, <2>1, EditOne
  <2>3. p \in Entry
    BY <1>3 DEF WithTag, Document
  <2> DEFINE e == [p EXCEPT !.users = left]
  <2>4. e.listener = p.listener /\ e.users = left
    BY <2>3 DEF Entry
  <2> QED BY <2>2, <2>4
<1>15. ServesOthers(after, i)
  BY <1>0, <1>2, <1>3, <1>4, <1>14, OthersKeepServed
<1>16. /\ ServesOthers(runtime, i)'
       /\ \/ runtime' = after /\ Goto(r, next)
          \/ Goto(r, "restore")
  <2>1. CASE Carries(job[r].oldTags)
    BY <1>0, <1>3, <1>15, <2>1, CallServes DEF HotRemoveUsers
  <2>2. CASE ~Carries(job[r].oldTags)
    <3>1. runtime' = runtime /\ Goto(r, "restore")
      BY <2>2 DEF HotRemoveUsers, Refused
    <3> QED BY <1>3, <3>1, ServesOthersStill
  <2> QED BY <2>1, <2>2
<1>17. CASE Goto(r, "restore")
  <2>1. Carried(r) /\ job'[r].stage = "restore"
    BY <1>17, GotoCarries
  <2> QED BY <1>0, <1>1, <1>16, <2>1, PerformServed DEF Marked, Planned, Untouched
<1>18. CASE runtime' = after /\ Goto(r, next)
  <2>1. Carried(r) /\ job'[r].stage = next
    BY <1>18, GotoCarries
  <2>2. PICK e \in WithTag(after, {t}) : e.listener = n.listener /\ e.users = left
    BY <1>5, <1>14
  <2>3. CASE AddedUsers(job[r]) # {}
    <3>1. Trimmed(r)'
      <4>1. /\ job'[r].tag = t /\ job'[r].desired = desired /\ job'[r].previous = runtime
            /\ e \in WithTag(runtime', {t}) /\ n \in WithTag(desired, {t})
        BY <1>0, <1>2, <1>5, <1>18, <2>1 DEF Carried
      <4>2. e.users = UsersOf(runtime, {t}) \cap UsersOf(desired, {t})
        BY <1>6, <1>10, <2>2
      <4> QED BY <2>2, <4>1, <4>2 DEF Trimmed, WithTag, UsersOf
    <3> QED BY <1>0, <1>1, <1>2, <1>16, <2>1, <2>3, <3>1, PerformServed
            DEF Reaches, Carried, Marked, Planned, Untouched
  <2>4. CASE AddedUsers(job[r]) = {}
    <3>1. e.users = n.users
      BY <1>7, <1>9, <1>10, <2>2, <2>4
    <3>2. after \in Document
      BY <1>13, EditUsersType DEF ServedInv
    <3>3. WithTag(after, {t}) = WithTag(desired, {t})
      <4>1. Proper(after) /\ e.listener = n.listener
        BY <1>14, <2>2
      <4> QED BY <1>3, <3>1, <3>2, <4>1, SameEntry
    <3>4. Replaced(r)'
      BY <1>0, <1>18, <2>1, <3>3 DEF Replaced, Carried, WithTag
    <3> QED BY <1>0, <1>1, <1>16, <2>1, <2>4, <3>4, PerformServed
            DEF Reaches, Marked, Planned, Untouched
  <2> QED BY <2>3, <2>4
<1> QED BY <1>16, <1>17, <1>18

LEMMA ServedHotAdd ==
  ASSUME ServedInv, NEW r \in DOMAIN job, job[r] \in Job, Running(r), UNCHANGED rows,
         HotAddUsers(r)
  PROVE  UniqueTags' /\ UniqueEmails' /\ Proper(runtime)' /\ AppliedServed' /\ AtWork(r)'
<1>0. PICK i, t, desired, after, users :
        /\ i = job[r].inb /\ t = job[r].tag /\ desired = job[r].desired
        /\ users = AddedUsers(job[r]) /\ after = EditUsers({job[r].tag}, {}, users)
  OBVIOUS
<1>1. job[r].stage = "hotAdd"
  BY DEF HotAddUsers, At
<1>2. /\ Holds(r) /\ Aims(r) /\ Returns(r) /\ Trimmed(r)
      /\ job[r].strategy = "HOT_CLIENTS" /\ job[r].doomed = FALSE
  BY <1>1 DEF ServedInv, AtWork, Holds, Reaches, Marked, Planned, Untouched
<1>3. /\ runtime \in Document /\ Proper(runtime) /\ ServesOthers(runtime, i)
      /\ desired \in Document /\ Proper(desired)
  BY <1>0, <1>1, <1>2, RuntimeServesOthers
     DEF ServedInv, TypeOK, Job, Aims, Planned, Untouched
<1>4. job[r].oldTags = {t}
  BY <1>0, <1>1, <1>2 DEF Returns, Planned, Untouched
<1>5. PICK P, D : P = UsersOf(job[r].previous, {t}) /\ D = UsersOf(desired, {t})
  OBVIOUS
<1>6. PICK p \in WithTag(runtime, {t}), n \in WithTag(desired, {t}) :
        p.listener = n.listener /\ p.users = P \cap D
  BY <1>0, <1>2, <1>5 DEF Trimmed
<1>7. n.users = D /\ users = D \ P
  BY <1>0, <1>3, <1>4, <1>5, OneEntry DEF AddedUsers
<1>8. \A u, v \in D : u.email = v.email => u = v
  BY <1>3, <1>7 DEF Proper, WithTag
<1>9. /\ Proper(after)
      /\ \A e \in runtime.inbounds : e.tag \notin {t} => e \in after.inbounds
      /\ [p EXCEPT !.users = D] \in WithTag(after, {t})
  <2>1. \A u : u \in D <=> (u \in p.users /\ u.email \notin {}) \/ u \in users
    BY <1>6, <1>7
  <2>2. after = EditUsers({t}, {}, users)
    BY <1>0
  <2> QED BY <1>3, <1>8, <2>1, <2>2, EditOne
<1>10. PICK e \in WithTag(after, {t}) : e.listener = n.listener /\ e.users = n.users
  <2>1. p \in Entry
    BY <1>3 DEF WithTag, Document
  <2> DEFINE e == [p EXCEPT !.users = D]
  <2>2. e.listener = p.listener /\ e.users = D
    BY <2>1 DEF Entry
  <2> QED BY <1>6, <1>7, <1>9, <2>2
<1>11. ServesOthers(after, i)
  BY <1>0, <1>2, <1>3, <1>4, <1>9, OthersKeepServed
<1>12. WithTag(after, {t}) = WithTag(desired, {t})
  <2>1. users \in SUBSET User
    BY <1>3, <1>5, <1>7, UsersOfType
  <2>2. after \in Document
    BY <1>0, <2>1, EditUsersType DEF ServedInv
  <2> QED BY <1>3, <1>9, <1>10, <2>2, SameEntry
<1>13. /\ ServesOthers(runtime, i)'
       /\ \/ runtime' = after /\ Goto(r, "health")
          \/ Goto(r, "restore")
  <2>1. CASE Carries({t})
    <3>1. Call(r, after, {}, "health")
      BY <1>0, <2>1 DEF HotAddUsers
    <3> QED BY <1>3, <1>11, <3>1, CallServes
  <2>2. CASE ~Carries({t})
    <3>1. runtime' = runtime /\ Goto(r, "restore")
      BY <1>0, <2>2 DEF HotAddUsers, Refused
    <3> QED BY <1>3, <3>1, ServesOthersStill
  <2> QED BY <2>1, <2>2
<1>14. CASE Goto(r, "restore")
  <2>1. Carried(r) /\ job'[r].stage = "restore"
    BY <1>14, GotoCarries
  <2> QED BY <1>0, <1>1, <1>13, <2>1, PerformServed DEF Marked, Planned, Untouched
<1>15. CASE runtime' = after /\ Goto(r, "health")
  <2>1. Carried(r) /\ job'[r].stage = "health"
    BY <1>15, GotoCarries
  <2>2. Replaced(r)'
    BY <1>0, <1>12, <1>15, <2>1 DEF Replaced, Carried, WithTag
  <2> QED BY <1>0, <1>1, <1>13, <2>1, <2>2, PerformServed
          DEF Reaches, Marked, Planned, Untouched
<1> QED BY <1>13, <1>14, <1>15

LEMMA ServedHotReplace ==
  ASSUME ServedInv, NEW r \in DOMAIN job, job[r] \in Job, Running(r), UNCHANGED rows,
         HotReplaceInbound(r)
  PROVE  UniqueTags' /\ UniqueEmails' /\ Proper(runtime)' /\ AppliedServed' /\ AtWork(r)'
<1>0. PICK i, t, desired, new, without, after :
        /\ i = job[r].inb /\ t = job[r].tag /\ desired = job[r].desired
        /\ new = WithTag(job[r].desired, {job[r].tag})
        /\ without = [runtime EXCEPT !.inbounds = {e \in @ : e.tag \notin job[r].oldTags}]
        /\ after = [without EXCEPT !.inbounds = @ \cup new]
  OBVIOUS
<1>1. job[r].stage = "hotReplace"
  BY DEF HotReplaceInbound, At
<1>2. Holds(r) /\ Aims(r) /\ job[r].doomed = FALSE
  BY <1>1 DEF ServedInv, AtWork, Holds, Marked, Planned, Untouched
<1>3. /\ runtime \in Document /\ Proper(runtime) /\ ServesOthers(runtime, i)
      /\ desired \in Document /\ Proper(desired)
  BY <1>0, <1>1, <1>2, RuntimeServesOthers
     DEF ServedInv, TypeOK, Job, Aims, Planned, Untouched
<1>4. PICK oldTags : oldTags = job[r].oldTags
  OBVIOUS
<1>5. /\ new = WithTag(desired, {t})
      /\ \A e : e \in without.inbounds <=> e \in runtime.inbounds /\ e.tag \notin oldTags
      /\ after.inbounds = without.inbounds \cup new
  <2>1. without.inbounds = {e \in runtime.inbounds : e.tag \notin oldTags}
    BY <1>0, <1>3, <1>4 DEF Document
  <2>2. after.inbounds = without.inbounds \cup new
    BY <1>0, <1>3 DEF Document
  <2> QED BY <1>0, <2>1, <2>2
<1>6. /\ Proper(without)
      /\ \A e \in runtime.inbounds : e.tag \notin oldTags \cup {t} => e \in without.inbounds
      /\ \A e \in runtime.inbounds : e.tag \notin oldTags \cup {t} => e \in after.inbounds
  BY <1>3, <1>5, RemoveOne
<1>7. ASSUME new = {} \/ WithTag(without, {t}) = {}
      PROVE  /\ Proper(after)
             /\ (new # {} \/ t \in oldTags) => WithTag(after, {t}) = new
  <2>1. Proper(after)
    BY <1>3, <1>5, <1>7, ReplacedProper
  <2>2. ASSUME t \in oldTags \/ WithTag(without, {t}) = {} PROVE WithTag(after, {t}) = new
    <3>1. \A e \in new : e.tag = t
      BY <1>5 DEF WithTag
    <3>2. \A e \in without.inbounds : e.tag # t
      BY <1>5, <2>2 DEF WithTag
    <3> QED BY <1>5, <3>1, <3>2 DEF WithTag
  <2> QED BY <1>7, <2>1, <2>2
<1>8. ServesOthers(without, i)
  BY <1>0, <1>2, <1>3, <1>4, <1>6, OthersKeepServed
<1>9. /\ ServesOthers(runtime, i)'
      /\ \/ /\ runtime' = after /\ Goto(r, "health")
            /\ ~(new # {} /\ WithTag(without, {t}) # {})
         \/ Goto(r, "restore")
  <2>1. CASE new # {} /\ WithTag(without, {t}) # {}
    <3>1. runtime' = without /\ Goto(r, "restore")
      BY <1>0, <2>1 DEF HotReplaceInbound, Refused
    <3> QED BY <1>8, <3>1, ServesOthersStill
  <2>2. CASE ~(new # {} /\ WithTag(without, {t}) # {})
    <3>1. Call(r, after, {without}, "health")
      BY <1>0, <2>2 DEF HotReplaceInbound
    <3>2. ServesOthers(after, i)
      <4>1. Proper(after)
        BY <1>7, <2>2
      <4> QED BY <1>0, <1>2, <1>3, <1>4, <1>6, <4>1, OthersKeepServed
    <3>3. \A d \in {without} : ServesOthers(d, i)
      BY <1>8
    <3> QED BY <1>3, <2>2, <3>1, <3>2, <3>3, CallServes
  <2> QED BY <2>1, <2>2
<1>10. CASE Goto(r, "restore")
  <2>1. Carried(r) /\ job'[r].stage = "restore"
    BY <1>10, GotoCarries
  <2> QED BY <1>0, <1>1, <1>9, <2>1, PerformServed DEF Marked, Planned, Untouched
<1>11. CASE /\ runtime' = after /\ Goto(r, "health")
           /\ ~(new # {} /\ WithTag(without, {t}) # {})
  <2>1. Carried(r) /\ job'[r].stage = "health"
    BY <1>11, GotoCarries
  <2>2. Replaced(r)'
    <3>1. (new # {} \/ t \in oldTags) => WithTag(after, {t}) = new
      BY <1>11, <1>7
    <3> QED BY <1>0, <1>4, <1>11, <2>1, <3>1 DEF Replaced, Carried, WithTag
  <2> QED BY <1>0, <1>1, <1>9, <2>1, <2>2, PerformServed
          DEF Reaches, Marked, Planned, Untouched
<1> QED BY <1>9, <1>10, <1>11

LEMMA ServedRestart ==
  ASSUME ServedInv, NEW r \in DOMAIN job, job[r] \in Job, Running(r), UNCHANGED rows,
         RestartWithConfig(r)
  PROVE  UniqueTags' /\ UniqueEmails' /\ Proper(runtime)' /\ AppliedServed' /\ AtWork(r)'
<1>0. PICK i, desired : i = job[r].inb /\ desired = job[r].desired
  OBVIOUS
<1>1. job[r].stage = "restart" /\ Call(r, desired, {}, "health")
  BY <1>0 DEF RestartWithConfig, At
<1>2. Holds(r) /\ Aims(r) /\ job[r].doomed = FALSE
  BY <1>1 DEF ServedInv, AtWork, Holds, Marked, Planned, Untouched
<1>3. ServesOthers(desired, i) /\ ServesOthers(runtime, i)
  BY <1>0, <1>1, <1>2, RuntimeServesOthers DEF Aims, Planned, Untouched, ServesOthers
<1>4. /\ ServesOthers(runtime, i)'
      /\ \/ runtime' = desired /\ Goto(r, "health")
         \/ Goto(r, "restore")
  BY <1>1, <1>3, CallServes
<1>5. CASE Goto(r, "restore")
  <2>1. Carried(r) /\ job'[r].stage = "restore"
    BY <1>5, GotoCarries
  <2> QED BY <1>0, <1>1, <1>4, <2>1, PerformServed DEF Marked, Planned, Untouched
<1>6. CASE runtime' = desired /\ Goto(r, "health")
  <2>1. Carried(r) /\ job'[r].stage = "health"
    BY <1>6, GotoCarries
  <2>2. Replaced(r)'
    BY <1>0, <1>6, <2>1 DEF Replaced, Carried, WithTag
  <2> QED BY <1>0, <1>1, <1>4, <2>1, <2>2, PerformServed
          DEF Reaches, Marked, Planned, Untouched
<1> QED BY <1>4, <1>5, <1>6

LEMMA ServedPerform ==
  ASSUME ServedInv, NEW r \in Request, Perform(r)
  PROVE  UniqueTags' /\ UniqueEmails' /\ Proper(runtime)' /\ AppliedServed' /\ AtWork(r)'
<1>0. PICK i : i = job[r].inb
  OBVIOUS
<1>1. r \in DOMAIN job /\ job[r] \in Job /\ Running(r) /\ AtWork(r)
  BY ProceedIsJob, ProceedIsRunning DEF ServedInv, Proceed
<1>2. UNCHANGED rows
  BY DEF Perform
<1>3. ServesOthers(runtime, i)
  BY <1>0, <1>1, RuntimeServesOthers
<1>4. CASE HotRemoveUsers(r) \/ HotAddUsers(r) \/ HotReplaceInbound(r) \/ RestartWithConfig(r)
  BY <1>1, <1>2, <1>4, ServedHotRemove, ServedHotAdd, ServedHotReplace, ServedRestart
<1>5. CASE HealthCheck(r)
  <2>1. job[r].stage = "health" /\ runtime' = runtime
    BY <1>5 DEF HealthCheck, At
  <2>2. ServesOthers(runtime, i)'
    BY <1>2, <1>3, <2>1, ServesOthersStill
  <2>3. PICK stage \in {"success", "failure", "restore"} : Goto(r, stage)
    BY <1>5 DEF HealthCheck, Unwind
  <2>4. Carried(r) /\ job'[r].stage = stage
    BY <1>1, <2>3, GotoCarries
  <2>5. Replaced(r)'
    BY <1>1, <2>1, <2>4 DEF AtWork, Reaches, Replaced, Carried, WithTag
  <2> QED BY <1>0, <1>1, <1>2, <2>1, <2>2, <2>4, <2>5, PerformServed
          DEF Reaches, Marked, Planned, Untouched
<1>6. CASE RestoreConfig(r)
  <2>1. job[r].stage = "restore" /\ runtime' \in {runtime, job[r].previous}
    BY <1>6 DEF RestoreConfig, At
  <2>2. ServesOthers(job[r].previous, i)
    BY <1>0, <1>1, <2>1 DEF AtWork, Returns, Holds, Marked, Planned, Untouched
  <2>3. ServesOthers(runtime, i)'
    BY <1>2, <1>3, <2>1, <2>2, ServesOthersStill
  <2>4. PICK stage \in {"restoreHealth", "failure"} : Goto(r, stage)
    BY <1>6 DEF RestoreConfig
  <2>5. Carried(r) /\ job'[r].stage = stage
    BY <1>1, <2>4, GotoCarries
  <2> QED BY <1>0, <1>1, <1>2, <2>1, <2>3, <2>5, PerformServed DEF Marked, Planned, Untouched
<1>7. CASE RestoreHealthCheck(r)
  <2>1. job[r].stage = "restoreHealth" /\ runtime' = runtime
    BY <1>7 DEF RestoreHealthCheck, At
  <2>2. ServesOthers(runtime, i)'
    BY <1>2, <1>3, <2>1, ServesOthersStill
  <2>3. Carried(r) /\ job'[r].stage = "failure"
    BY <1>1, <1>7 DEF RestoreHealthCheck, Carried, Job
  <2> QED BY <1>0, <1>1, <1>2, <2>1, <2>2, <2>3, PerformServed DEF Marked, Planned, Untouched
<1> QED BY <1>4, <1>5, <1>6, <1>7 DEF Perform

\* An enabled row is among the desired entries, so the instance serves it once
\* the tagged entry is the desired one.
LEMMA SuccessIsServed ==
  ASSUME ServedInv, NEW r \in DOMAIN job, Running(r), job[r].stage = "success"
  PROVE  /\ job[r].inb \in DOMAIN rows
         /\ rows[job[r].inb].enabled => ServedBy(runtime, rows[job[r].inb])
<1>0. PICK i : i = job[r].inb
  OBVIOUS
<1>1. Holds(r) /\ Aims(r) /\ Replaced(r) /\ job[r].doomed = FALSE
  BY DEF ServedInv, AtWork, Holds, Reaches, Marked, Planned, Untouched
<1>2. i \in DOMAIN rows /\ job[r].tag = rows[i].tag
  BY <1>0, <1>1 DEF Holds
<1>3. ASSUME rows[i].enabled PROVE ServedBy(runtime, rows[i])
  <2>1. ServedBy(job[r].desired, rows[i])
    BY <1>1, <1>2, <1>3 DEF Aims, Planned, Untouched, EnabledIds
  <2>2. PICK e \in job[r].desired.inbounds : Shows(e, rows[i])
    BY <2>1 DEF ServedBy
  <2>3. e \in WithTag(job[r].desired, {job[r].tag})
    BY <1>2, <2>2 DEF Shows, WithTag
  <2>4. e \in WithTag(runtime, {job[r].tag})
    BY <1>1, <2>3 DEF Replaced
  <2> QED BY <2>2, <2>4 DEF ServedBy, WithTag
<1> QED BY <1>0, <1>2, <1>3

LEMMA ServedConclude ==
  ASSUME ServedInv, NEW r \in Request, Conclude(r)
  PROVE  /\ UniqueTags' /\ UniqueEmails' /\ Proper(runtime)' /\ AppliedServed'
         /\ Running(r)' => AtWork(r)'
<1>0. PICK i : i = job[r].inb
  OBVIOUS
<1>1. /\ r \in DOMAIN job /\ job[r] \in Job /\ Running(r)
      /\ Holds(r) /\ i \in DOMAIN rows /\ rows[i] \in Row
  BY <1>0, ProceedIsJob, ProceedIsRunning
     DEF ServedInv, AtWork, Proceed, Holds, TypeOK, RowsOK
<1>2. UNCHANGED runtime /\ Proper(runtime)'
  BY DEF Conclude, ServedInv, Proper
<1>3. ASSUME NEW how, End(r, how), how \in Ended PROVE ~Running(r)'
  BY <1>1, <1>3 DEF End, Running
<1>4. CASE MarkApplySuccess(r)
  <2>0. job[r].stage = "success"
    BY <1>4 DEF MarkApplySuccess, At
  <2>1. CASE Unwind(r) /\ UNCHANGED rows
    <3>1. ServesOthers(runtime, i)'
      BY <1>0, <1>1, <1>2, <2>1, RuntimeServesOthers, ServesOthersStill
    <3>2. PICK stage \in {"failure", "restore"} : Goto(r, stage)
      BY <2>1 DEF Unwind
    <3>3. Carried(r) /\ job'[r].stage = stage
      BY <1>1, <3>2, GotoCarries
    <3> QED BY <1>0, <1>1, <1>2, <2>0, <2>1, <3>1, <3>3, PerformServed
            DEF Marked, Planned, Untouched
  <2>2. CASE /\ rows' = Updated(rows, i, [rows[i] EXCEPT !.status = "APPLIED",
                                            !.applied = job[r].revision])
             /\ Goto(r, "remove") \/ End(r, "done")
    <3> DEFINE row == [rows[i] EXCEPT !.status = "APPLIED", !.applied = job[r].revision]
    <3>1. /\ RowKept(rows[i], row) /\ row.clients = rows[i].clients
          /\ row.enabled = rows[i].enabled /\ rows' = Updated(rows, i, row)
      BY <1>1, <2>2, StatusKept DEF Row
    <3> HIDE DEF row
    <3>2. row.enabled => ServedBy(runtime, row)
      BY <1>0, <1>1, <2>0, <3>1, SuccessIsServed, KeptServed
    <3>3. RowsKept /\ UniqueTags' /\ UniqueEmails' /\ AppliedServed'
      BY <1>0, <1>1, <1>2, <2>0, <3>1, <3>2, StatusServed
    <3>4. CASE End(r, "done")
      BY <1>2, <1>3, <3>3, <3>4 DEF Ended
    <3>5. CASE Goto(r, "remove")
      <4>1. Carried(r) /\ job'[r].stage = "remove"
        BY <1>1, <3>5, GotoCarries
      <4>2. Holds(r)'
        BY <1>1, <2>0, <3>3, <4>1, HoldsOn DEF Marked, Planned, Untouched
      <4> QED BY <1>2, <3>3, <4>1, <4>2, EarlyStage DEF Planned, Untouched
    <3> QED BY <2>2, <3>4, <3>5
  <2> QED BY <1>0, <1>4, <2>1, <2>2 DEF MarkApplySuccess
<1>5. CASE MarkApplyFailure(r)
  <2>1. PICK status \in {"ROLLED_BACK", "FAILED"} :
          rows' = Updated(rows, i, [rows[i] EXCEPT !.status = status])
    BY <1>0, <1>5 DEF MarkApplyFailure
  <2> DEFINE row == [rows[i] EXCEPT !.status = status]
  <2>2. /\ RowKept(rows[i], row) /\ row.clients = rows[i].clients
        /\ row.status # "APPLIED" /\ rows' = Updated(rows, i, row)
    BY <1>1, <2>1, StatusKept DEF Row
  <2>3. job[r].stage = "failure" /\ End(r, "done")
    BY <1>5 DEF MarkApplyFailure, At
  <2> HIDE DEF row
  <2>4. UniqueTags' /\ UniqueEmails' /\ AppliedServed'
    BY <1>0, <1>1, <1>2, <2>2, <2>3, StatusServed
  <2> QED BY <1>2, <1>3, <2>3, <2>4 DEF Ended
<1>6. CASE Remove(r)
  <2>1. rows' = [k \in DOMAIN rows \ {i} |-> rows[k]] /\ End(r, "done")
    BY <1>0, <1>6 DEF Remove
  <2>2. /\ \A k \in DOMAIN rows' \ {i} : k \in DOMAIN rows /\ rows'[k] = rows[k]
        /\ i \notin DOMAIN rows'
    BY <2>1
  <2>3. UniqueTags' /\ UniqueEmails'
    BY <2>2 DEF ServedInv, UniqueTags, UniqueEmails
  <2>4. \A k : k # i => ~Half(k)
    BY <1>0, <1>1, NotHalf DEF ServedInv
  <2>5. AppliedServed'
    BY <1>2, <2>2, <2>4, WriteKeepsServed DEF ServedInv
  <2> QED BY <1>2, <1>3, <2>1, <2>3, <2>5 DEF Ended
<1>7. CASE Abort(r)
  <2>1. job[r].stage # "bump"
    BY <1>0, <1>1, <1>7 DEF Abort, At, Stored
  <2>2. UNCHANGED rows /\ End(r, "aborted")
    BY <1>7 DEF Abort
  <2>3. UniqueTags' /\ UniqueEmails' /\ AppliedServed'
    BY <1>1, <1>2, <2>1, <2>2, NoWriteServed
  <2> QED BY <1>2, <1>3, <2>2, <2>3 DEF Ended
<1> QED BY <1>4, <1>5, <1>6, <1>7 DEF Conclude

\* The process may die at any stage but between the two statements that change
\* the clients of a row and take its APPLIED back.
LEMMA ServedCrash ==
  ASSUME "bump" \notin CrashStages, ServedInv, NEW r \in Request, Crash(r)
  PROVE  UniqueTags' /\ UniqueEmails' /\ Proper(runtime)' /\ AppliedServed' /\ ~Running(r)'
<1>1. r \in DOMAIN job /\ Running(r) /\ job[r].stage # "bump" /\ UNCHANGED <<rows, runtime>>
  BY DEF Crash, Running
<1>2. UniqueTags' /\ UniqueEmails' /\ AppliedServed' /\ Proper(runtime)'
  BY <1>1, NoWriteServed DEF ServedInv, Proper
<1> QED BY <1>1, <1>2 DEF Crash, End, Running, Ended

LEMMA ServedExpires ==
  ASSUME ServedInv, NEW i \in Inbound, ClientExpires(i)
  PROVE  /\ UniqueTags' /\ UniqueEmails' /\ Proper(runtime)' /\ AppliedServed'
         /\ \A r \in DOMAIN job' : Running(r)' => AtWork(r)'
<1>1. /\ i \in DOMAIN rows /\ rows[i] \in Row /\ rows[i].clients \in SUBSET Client
      /\ UNCHANGED <<runtime, job>>
  BY DEF ClientExpires, ServedInv, TypeOK, RowsOK, Row
<1>2. PICK c \in rows[i].clients :
        /\ c.live
        /\ rows' = [rows EXCEPT ![i].clients = (@ \ {c}) \cup {[c EXCEPT !.live = FALSE]}]
  BY DEF ClientExpires
<1>3. PICK d, clients :
        /\ d = [c EXCEPT !.live = FALSE] /\ clients = (rows[i].clients \ {c}) \cup {d}
  OBVIOUS
<1>4. Names(c, d) /\ d.email = c.email /\ d.live = FALSE
  BY <1>1, <1>3 DEF Names, Client
<1>5. /\ DOMAIN rows' = DOMAIN rows /\ \A k \in DOMAIN rows \ {i} : rows'[k] = rows[k]
      /\ rows'[i].clients = clients /\ rows'[i].tag = rows[i].tag
      /\ rows'[i].listener = rows[i].listener /\ rows'[i].enabled = rows[i].enabled
      /\ rows'[i].status = rows[i].status /\ rows'[i].applied = rows[i].applied
      /\ rows'[i].desired = rows[i].desired
  <2>1. rows' = [rows EXCEPT ![i] = [rows[i] EXCEPT !.clients = clients]]
    BY <1>1, <1>2, <1>3
  <2> QED BY <1>1, <2>1 DEF Row
<1>6. RowKept(rows[i], rows'[i])
  <2>1. ASSUME NEW a \in rows[i].clients PROVE \E b \in clients : Names(a, b)
    <3>1. CASE a = c
      BY <1>3, <1>4, <3>1
    <3>2. CASE a # c
      BY <1>3, <3>2 DEF Names
    <3> QED BY <3>1, <3>2
  <2>2. ASSUME NEW b \in clients
        PROVE  \E a \in rows[i].clients : Names(a, b) /\ (b.live => a.live)
    <3>1. CASE b = d
      BY <1>4, <3>1
    <3>2. CASE b # d
      BY <1>3, <3>2 DEF Names
    <3> QED BY <3>1, <3>2
  <2> QED BY <1>5, <2>1, <2>2 DEF RowKept
<1>7. RowsKept /\ \A k : SaidKept(k)
  BY <1>5, <1>6, SameRowKept DEF RowsKept, SaidKept, SaidApplied, Summary
<1>8. UniqueTags'
  <2>1. \A k \in DOMAIN rows : rows'[k].tag = rows[k].tag
    BY <1>5
  <2> QED BY <1>5, <2>1 DEF ServedInv, UniqueTags
<1>9. UniqueEmails'
  <2>1. \A a, b \in clients : a.email = b.email => a = b
    <3>1. \A a, b \in rows[i].clients : a.email = b.email => a = b
      BY <1>1 DEF ServedInv, UniqueEmails
    <3>2. \A a \in clients : a = d \/ (a \in rows[i].clients /\ a # c)
      BY <1>3
    <3>3. \A a \in rows[i].clients : a.email = d.email => a = c
      BY <1>4, <3>1
    <3> QED BY <3>1, <3>2, <3>3
  <2> QED BY <1>5, <2>1 DEF ServedInv, UniqueEmails
<1>10. Proper(runtime)'
  BY <1>1 DEF ServedInv, Proper
<1>11. AppliedServed'
  <2>1. ASSUME NEW k \in EnabledIds', SaidApplied(k)', ~Half(k)'
        PROVE  ServedBy(runtime, rows'[k])
    <3>1. k \in EnabledIds /\ k \in DOMAIN rows
      BY <1>7, EnabledKept DEF EnabledIds
    <3>2. SaidApplied(k) /\ ~Half(k)
      BY <1>1, <1>5, <2>1, <3>1 DEF SaidApplied, Summary, Half
    <3>3. ServedBy(runtime, rows[k]) /\ RowKept(rows[k], rows'[k])
      BY <1>7, <3>1, <3>2 DEF ServedInv, AppliedServed, RowsKept
    <3> QED BY <3>3, KeptServed
  <2> QED BY <1>1, <2>1 DEF AppliedServed, ServedBy, Shows, Names
<1>12. ASSUME NEW r \in DOMAIN job, Running(r) PROVE AtWork(r)'
  <2>1. Holds(r) /\ Aims(r) /\ Returns(r) /\ Reaches(r)
    BY <1>12 DEF ServedInv, AtWork
  <2>2. Carried(r) /\ job'[r].stage = job[r].stage
    BY <1>1 DEF Carried
  <2>3. job[r].inb \in DOMAIN rows /\ rows'[job[r].inb].status = rows[job[r].inb].status
    BY <1>5, <2>1 DEF Holds
  <2>4. Holds(r)'
    <3>1. job'[r].stage \in Marked =>
            /\ rows'[job[r].inb].status = "APPLYING"
            /\ job'[r].stage # "failure" => job[r].doomed = FALSE
      BY <2>1, <2>2, <2>3 DEF Holds
    <3> QED BY <1>7, <2>1, <2>2, <3>1, HoldsOn
  <2>5. Aims(r)' /\ Returns(r)'
    BY <1>7, <2>1, <2>2, AimsOn, ReturnsOn
  <2>6. Reaches(r)'
    BY <1>1, <2>1 DEF Reaches, Trimmed, Replaced, WithTag, UsersOf
  <2> QED BY <2>4, <2>5, <2>6 DEF AtWork
<1> QED BY <1>1, <1>8, <1>9, <1>10, <1>11, <1>12 DEF Running

\* Nothing the invariant speaks of changes.
LEMMA ServedStutter ==
  ASSUME ServedInv, TypeOK', UNCHANGED <<rows, runtime, job>> PROVE ServedInv'
<1>1. Sole' /\ UniqueTags' /\ UniqueEmails' /\ Proper(runtime)'
  BY DEF ServedInv, Sole, Running, UniqueTags, UniqueEmails, Proper
<1>2. AppliedServed'
  BY DEF ServedInv, AppliedServed, EnabledIds, SaidApplied, Summary, Half, ServedBy, Shows, Names
<1>3. ASSUME NEW r \in DOMAIN job', Running(r)' PROVE AtWork(r)'
  <2>1. Holds(r) /\ Aims(r) /\ Returns(r) /\ Reaches(r) /\ r \in DOMAIN job
    BY <1>3 DEF ServedInv, AtWork, Running
  <2>2. Carried(r) /\ RowsKept /\ SaidKept(job[r].inb) /\ job'[r].stage = job[r].stage
    BY SameRowsKept DEF Carried
  <2>3. Holds(r)'
    BY <2>1 DEF Holds
  <2>4. Aims(r)' /\ Returns(r)'
    BY <2>1, <2>2, AimsOn, ReturnsOn
  <2>5. Reaches(r)'
    BY <2>1 DEF Reaches, Trimmed, Replaced, WithTag, UsersOf
  <2> QED BY <2>3, <2>4, <2>5 DEF AtWork
<1> QED BY <1>1, <1>2, <1>3 DEF ServedInv

LEMMA ServedInit == Init => ServedInv
<1> SUFFICES ASSUME Init PROVE ServedInv
  OBVIOUS
<1>1. TypeOK
  BY InitType
<1>2. Sole /\ \A r \in DOMAIN job : Running(r) => AtWork(r)
  BY DEF Init, Sole
<1>3. UniqueTags
  BY DEF Init, UniqueTags
<1>4. UniqueEmails
  BY AppliedRowIs DEF Init, UniqueEmails
<1>5. PICK global : runtime = BuildDocument(global)
  BY DEF Init
<1>6. Proper(runtime) /\ AppliedServed
  BY <1>1, <1>3, <1>4, <1>5, BuiltServes DEF AppliedServed
<1> QED BY <1>1, <1>2, <1>3, <1>4, <1>6 DEF ServedInv

LEMMA ServedInductive ==
  ASSUME Serialised, "bump" \notin CrashStages PROVE ServedInv /\ [Next]_vars => ServedInv'
<1> SUFFICES ASSUME ServedInv, [Next]_vars PROVE ServedInv'
  OBVIOUS
<1>0. TypeOK'
  BY TypeInductive DEF ServedInv
<1>1. CASE UNCHANGED <<rows, runtime, job>>
  BY <1>0, <1>1, ServedStutter
<1>2. ASSUME NEW r, r \in DOMAIN job \/ Quiet, Running(r) \/ Quiet, OnlyOwn(r), Sole',
             UniqueTags' /\ UniqueEmails' /\ Proper(runtime)' /\ AppliedServed',
             Running(r)' => AtWork(r)'
      PROVE  ServedInv'
  <2>1. \A q \in DOMAIN job' \ {r} : ~Running(q)'
    BY <1>2 DEF OnlyOwn, ServedInv, Sole, Running, Quiet
  <2> QED BY <1>0, <1>2, <2>1 DEF ServedInv
<1>3. ASSUME NEW r \in Request, Submit(r) PROVE ServedInv'
  <2>1. OnlyOwn(r) /\ Quiet /\ Sole'
    BY <1>3, OwnSubmit, SoleSubmit
  <2>2. UniqueTags' /\ UniqueEmails' /\ AppliedServed' /\ AtWork(r)'
    BY <1>3, ServedSubmit
  <2>3. Proper(runtime)'
    BY <1>3 DEF Submit, ServedInv, Proper
  <2> QED BY <1>2, <2>1, <2>2, <2>3
<1>4. ASSUME NEW r \in Request, Proceed(r) PROVE ServedInv'
  <2>1. r \in DOMAIN job /\ Running(r) /\ OnlyOwn(r)
    BY <1>4, ProceedIsRunning, OwnWrite, OwnPrepare, OwnPerform, OwnConclude
       DEF ServedInv, Proceed, Running
  <2>2. Sole'
    BY <2>1, SoleProceed DEF ServedInv
  <2>3. /\ UniqueTags' /\ UniqueEmails' /\ Proper(runtime)' /\ AppliedServed'
        /\ Running(r)' => AtWork(r)'
    <3>1. CASE Write(r) \/ Prepare(r)
      <4>1. UNCHANGED runtime
        BY <3>1 DEF Write, Prepare
      <4>2. Proper(runtime)'
        BY <4>1 DEF ServedInv, Proper
      <4> QED BY <3>1, <4>2, ServedWrite, ServedPrepare
    <3>2. CASE Perform(r)
      BY <3>2, ServedPerform
    <3>3. CASE Conclude(r)
      BY <3>3, ServedConclude
    <3> QED BY <1>4, <3>1, <3>2, <3>3 DEF Proceed
  <2> QED BY <1>2, <2>1, <2>2, <2>3
<1>5. ASSUME NEW r \in Request, Crash(r) PROVE ServedInv'
  <2>1. r \in DOMAIN job /\ Running(r) /\ OnlyOwn(r)
    BY <1>5 DEF Crash, End, OnlyOwn, Running
  <2>2. Sole'
    BY <2>1, SoleProceed DEF ServedInv
  <2> QED BY <1>2, <1>5, <2>1, <2>2, ServedCrash
<1>6. ASSUME NEW i \in Inbound, ClientExpires(i) PROVE ServedInv'
  <2>1. Sole'
    BY <1>6 DEF ClientExpires, ServedInv, Sole, Running
  <2> QED BY <1>0, <1>6, <2>1, ServedExpires DEF ServedInv
<1> QED BY <1>1, <1>3, <1>4, <1>5, <1>6 DEF Next, SavePolicy, vars

\* When requests are served one at a time, and the process does not die between
\* the two statements of a client change, an enabled inbound that the panel
\* calls applied at its desired revision is served as it is stored, whichever
\* requests failed, were rolled back or died before, and wherever.
THEOREM AppliedIsAlwaysServed ==
  ASSUME Serialised, "bump" \notin CrashStages PROVE Spec => []AppliedIsServed
<1>1. ServedInv => AppliedIsServed
  <2> SUFFICES ASSUME ServedInv, Quiet, NEW i \in EnabledIds, SaidApplied(i)
               PROVE  Serves(i)
    BY DEF AppliedIsServed
  <2>1. ~Half(i)
    BY QuietNotHalf
  <2>2. ServedBy(runtime, rows[i])
    BY <2>1 DEF ServedInv, AppliedServed
  <2> QED BY <2>2, ServesServedBy
<1>2. ServedInv /\ [Next]_vars => ServedInv'
  BY ServedInductive
<1> QED BY <1>1, <1>2, ServedInit, PTL DEF Spec

-----------------------------------------------------------------------------
(* Requests one at a time: whom a plan leaves alone *)

\* The entries that are not its own, from its first runtime call on.
Spares(r) ==
  LET j == job[r] IN
  j.stage \in {"hotAdd", "health", "success"} =>
    \/ j.stage # "hotAdd" /\ runtime = j.desired
    \/ \A e \in j.previous.inbounds :
         e.tag \in j.oldTags \/ \E f \in runtime.inbounds : f.tag = e.tag

SparingInv == ServedInv /\ \A r \in DOMAIN job : Spares(r)

\* A change of users keeps every entry under its tag.
LEMMA EditSpares ==
  ASSUME NEW tags, NEW emails, NEW users, runtime \in Document,
         runtime' = EditUsers(tags, emails, users)
  PROVE  \A e \in runtime.inbounds : \E f \in runtime'.inbounds : f.tag = e.tag
<1> SUFFICES ASSUME NEW e \in runtime.inbounds PROVE \E f \in runtime'.inbounds : f.tag = e.tag
  OBVIOUS
<1> DEFINE Edited(d) ==
      IF d.tag \in tags
        THEN [d EXCEPT !.users = {u \in @ : u.email \notin emails} \cup users] ELSE d
<1>1. runtime'.inbounds = {Edited(d) : d \in runtime.inbounds}
  BY DEF EditUsers, Document
<1>2. Edited(e).tag = e.tag
  BY DEF Document, Entry
<1> HIDE DEF Edited
<1> QED BY <1>1, <1>2

\* Prepare reaches a stage that is spoken of with nothing to do.
LEMMA SparesPrepare ==
  ASSUME ServedInv, NEW r \in Request, Prepare(r) PROVE Spares(r)'
<1>1. r \in DOMAIN job /\ job[r] \in Job /\ Running(r) /\ AtWork(r)
  BY ProceedIsJob, ProceedIsRunning DEF ServedInv, Proceed
<1>2. CASE Backup(r) /\ Goto(r, FirstCall(job[r]))
  <2>1. runtime = job[r].previous /\ UNCHANGED runtime
    BY <1>1, <1>2 DEF AtWork, Reaches, Holds, Untouched, Marked, Planned, Backup, At, Prepare
  <2>2. job'[r].previous = job[r].previous
    BY <1>1, <1>2 DEF Goto, Job
  <2> QED BY <2>1, <2>2 DEF Spares
<1>3. CASE BeginApply(r) \/ MarkApplying(r) \/ ValidateConfig(r) \/ (Backup(r) /\ Goto(r, "failure"))
  <2>1. job'[r].stage \in {"applying", "validate", "backup", "failure"}
    BY <1>1, <1>3, GotoStage DEF BeginApply, MarkApplying, ValidateConfig
  <2> QED BY <2>1 DEF Spares
<1>4. CASE ReadPolicy(r) \/ Build(r) \/ ReadCurrent(r)
  <2>1. CASE ReadPolicy(r) \/ ReadCurrent(r)
    <3>1. CASE ReadPolicy(r)
      BY <1>1, <3>1 DEF ReadPolicy, Job, Spares
    <3>2. CASE ReadCurrent(r)
      BY <1>1, <3>2 DEF ReadCurrent, Job, Spares
    <3> QED BY <2>1, <3>1, <3>2
  <2>2. CASE Build(r)
    BY <1>1, <2>2, BuildEffect DEF Spares
  <2> QED BY <1>4, <2>1, <2>2
<1> QED BY <1>2, <1>3, <1>4 DEF Prepare, Backup

\* A change of users that was chosen for the document that runs.
LEMMA SparesEdit ==
  ASSUME ServedInv, NEW r \in DOMAIN job, NEW tags, NEW emails, NEW users,
         job'[r].previous = job[r].previous, job'[r].oldTags = job[r].oldTags,
         \A e \in job[r].previous.inbounds :
           e.tag \in job[r].oldTags \/ \E f \in runtime.inbounds : f.tag = e.tag,
         runtime' = EditUsers(tags, emails, users)
  PROVE  Spares(r)'
<1>1. runtime \in Document
  BY DEF ServedInv, TypeOK
<1>2. \A e \in runtime.inbounds : \E f \in runtime'.inbounds : f.tag = e.tag
  BY <1>1, EditSpares
<1>3. ASSUME NEW e \in job[r].previous.inbounds, e.tag \notin job[r].oldTags
      PROVE  \E f \in runtime'.inbounds : f.tag = e.tag
  <2>1. PICK f \in runtime.inbounds : f.tag = e.tag
    BY <1>3
  <2>2. PICK h \in runtime'.inbounds : h.tag = f.tag
    BY <1>2
  <2> QED BY <2>1, <2>2
<1> QED BY <1>3 DEF Spares

LEMMA SparesPerform ==
  ASSUME ServedInv, NEW r \in Request, Perform(r), Spares(r) PROVE Spares(r)'
<1>1. r \in DOMAIN job /\ job[r] \in Job /\ AtWork(r)
  BY ProceedIsJob, ProceedIsRunning DEF ServedInv, Proceed
<1> DEFINE Kept == /\ job'[r].previous = job[r].previous /\ job'[r].oldTags = job[r].oldTags
                   /\ job'[r].desired = job[r].desired
<1>2. ASSUME NEW stage, Goto(r, stage) PROVE Kept /\ job'[r].stage = stage
  BY <1>1, <1>2 DEF Goto, Job
<1>3. ASSUME Goto(r, "restore") \/ Goto(r, "failure") \/ Goto(r, "restoreHealth") PROVE Spares(r)'
  BY <1>2, <1>3 DEF Spares
<1>4. ASSUME NEW after, NEW partly, NEW next, Call(r, after, partly, next),
             runtime' = after /\ Kept /\ job'[r].stage = next => Spares(r)'
      PROVE  Spares(r)'
  BY <1>2, <1>3, <1>4 DEF Call
<1>5. CASE HotRemoveUsers(r)
  <2>1. \A e \in job[r].previous.inbounds : \E f \in runtime.inbounds : f.tag = e.tag
    BY <1>1, <1>5 DEF HotRemoveUsers, At, AtWork, Reaches, Holds, Untouched, Marked, Planned
  <2>2. ASSUME runtime' = EditUsers(job[r].oldTags, RemovedEmails(job[r]), {}), Kept
        PROVE  Spares(r)'
    BY <1>1, <2>1, <2>2, SparesEdit
  <2>3. \/ Refused(r, runtime)
        \/ \E next : Call(r, EditUsers(job[r].oldTags, RemovedEmails(job[r]), {}), {}, next)
    BY <1>5 DEF HotRemoveUsers
  <2> QED BY <1>3, <1>4, <2>2, <2>3 DEF Refused
<1>6. CASE HotAddUsers(r)
  <2> DEFINE t == job[r].tag
             added == AddedUsers(job[r])
  <2>1. \A e \in job[r].previous.inbounds :
          e.tag \in job[r].oldTags \/ \E f \in runtime.inbounds : f.tag = e.tag
    BY <1>6 DEF HotAddUsers, At, Spares
  <2>2. ASSUME runtime' = EditUsers({t}, {}, added), Kept PROVE Spares(r)'
    BY <1>1, <2>1, <2>2, SparesEdit
  <2>3. Refused(r, runtime) \/ Call(r, EditUsers({t}, {}, added), {}, "health")
    BY <1>6 DEF HotAddUsers
  <2> QED BY <1>3, <1>4, <2>2, <2>3 DEF Refused
<1>7. CASE HotReplaceInbound(r)
  <2> DEFINE new == WithTag(job[r].desired, {job[r].tag})
             without == [runtime EXCEPT !.inbounds = {e \in @ : e.tag \notin job[r].oldTags}]
             with == [without EXCEPT !.inbounds = @ \cup new]
  <2>1. runtime = job[r].previous /\ runtime \in Document
    BY <1>1, <1>7 DEF HotReplaceInbound, At, AtWork, Reaches, Holds, Untouched, Marked, Planned,
       ServedInv, TypeOK
  <2>2. \A e \in runtime.inbounds : e.tag \in job[r].oldTags \/ e \in with.inbounds
    BY <2>1 DEF Document
  <2>3. Refused(r, without) \/ Call(r, with, {without}, "health")
    BY <1>7 DEF HotReplaceInbound
  <2> HIDE DEF with, without
  <2>4. ASSUME runtime' = with, Kept PROVE Spares(r)'
    BY <2>1, <2>2, <2>4 DEF Spares
  <2> QED BY <1>3, <1>4, <2>3, <2>4 DEF Refused
<1>8. CASE RestartWithConfig(r)
  <2>1. ASSUME runtime' = job[r].desired, Kept, job'[r].stage = "health" PROVE Spares(r)'
    BY <2>1 DEF Spares
  <2> QED BY <1>4, <1>8, <2>1 DEF RestartWithConfig
<1>9. CASE HealthCheck(r)
  <2>1. CASE Goto(r, "success")
    <3>1. UNCHANGED runtime /\ job[r].stage = "health"
      BY <1>9 DEF HealthCheck, At
    <3> QED BY <1>2, <2>1, <3>1 DEF Spares
  <2> QED BY <1>3, <1>9, <2>1 DEF HealthCheck, Unwind
<1>10. CASE RestoreConfig(r)
  BY <1>3, <1>10 DEF RestoreConfig
<1>11. CASE RestoreHealthCheck(r)
  BY <1>1, <1>11 DEF RestoreHealthCheck, Job, Spares
<1> QED BY <1>5, <1>6, <1>7, <1>8, <1>9, <1>10, <1>11 DEF Perform

LEMMA SparingInductive ==
  ASSUME Serialised, "bump" \notin CrashStages
  PROVE  SparingInv /\ [Next]_vars => SparingInv'
<1> SUFFICES ASSUME SparingInv, [Next]_vars PROVE SparingInv'
  OBVIOUS
<1>0. ServedInv /\ ServedInv'
  BY ServedInductive DEF SparingInv
<1>1. CASE UNCHANGED <<runtime, job>>
  BY <1>0, <1>1 DEF SparingInv, Spares
<1>2. ASSUME NEW r \in Request, OnlyOwn(r), Spares(r)',
             UNCHANGED runtime \/ \A q \in DOMAIN job \ {r} : ~Running(q)
      PROVE  SparingInv'
  <2>1. ASSUME NEW q \in DOMAIN job', q # r PROVE Spares(q)'
    <3>1. q \in DOMAIN job /\ job'[q] = job[q] /\ Spares(q)
      BY <1>2, <2>1 DEF OnlyOwn, SparingInv
    <3>2. CASE UNCHANGED runtime
      BY <3>1, <3>2 DEF Spares
    <3>3. CASE ~Running(q)
      BY <3>1, <3>3 DEF Running, Ended, Spares
    <3> QED BY <1>2, <2>1, <3>1, <3>2, <3>3
  <2> QED BY <1>0, <1>2, <2>1 DEF SparingInv
<1>3. ASSUME NEW r \in Request, Submit(r) PROVE SparingInv'
  <2>1. OnlyOwn(r) /\ UNCHANGED runtime
    BY <1>3, OwnSubmit DEF Submit
  <2> QED BY <1>2, <1>3, <2>1, SubmitStarts DEF Spares
<1>4. ASSUME NEW r \in Request, Proceed(r) PROVE SparingInv'
  <2>1. /\ r \in DOMAIN job /\ job[r] \in Job /\ Running(r) /\ OnlyOwn(r) /\ Spares(r)
        /\ \A q \in DOMAIN job \ {r} : ~Running(q)
    BY <1>0, <1>4, ProceedIsJob, ProceedIsRunning, OwnWrite, OwnPrepare, OwnPerform, OwnConclude
       DEF ServedInv, SparingInv, Proceed, Running, Sole
  <2>2. Spares(r)'
    <3>1. CASE Write(r)
      <4>1. CASE \E stage \in {"reread", "bump", "policy"} : Goto(r, stage)
        BY <2>1, <4>1, GotoStage DEF Spares
      <4>2. CASE End(r, "done")
        BY <2>1, <4>2 DEF End, Spares
      <4>3. CASE Reread(r)
        BY <2>1, <4>3 DEF Reread, Job, Spares
      <4> QED BY <3>1, <4>1, <4>2, <4>3 DEF Write, WriteUpdate, WriteEnabled, WriteCreateClient,
              WriteClients, NothingExpired, MarkPending, WriteDelete
    <3>2. CASE Prepare(r)
      BY <1>0, <3>2, SparesPrepare
    <3>3. CASE Perform(r)
      BY <1>0, <2>1, <3>3, SparesPerform
    <3>4. CASE Conclude(r)
      <4>1. CASE \E stage \in {"remove", "failure", "restore"} : Goto(r, stage)
        BY <2>1, <4>1, GotoStage DEF Spares
      <4>2. CASE \E how \in {"done", "aborted"} : End(r, how)
        BY <2>1, <4>2 DEF End, Spares
      <4> QED BY <3>4, <4>1, <4>2 DEF Conclude, MarkApplySuccess, MarkApplyFailure, Remove,
              Abort, Unwind
    <3> QED BY <1>4, <3>1, <3>2, <3>3, <3>4 DEF Proceed
  <2> QED BY <1>2, <2>1, <2>2
<1>5. ASSUME NEW r \in Request, Crash(r) PROVE SparingInv'
  <2>1. OnlyOwn(r) /\ UNCHANGED runtime /\ r \in DOMAIN job
    BY <1>5 DEF Crash, End, OnlyOwn, Running
  <2>2. Spares(r)'
    BY <1>5, <2>1 DEF Crash, End, Spares
  <2> QED BY <1>2, <2>1, <2>2
<1> QED BY <1>1, <1>3, <1>4, <1>5 DEF Next, ClientExpires, SavePolicy, vars

\* When requests are served one at a time, and the process does not die between
\* the two statements of a client change, a request that disables an inbound
\* and answers APPLIED leaves nothing under the tag of its row, and every
\* enabled inbound that was served when it planned is served still, whichever
\* requests failed, were rolled back or died before.
THEOREM DisablingAlwaysTakesOneOut ==
  ASSUME Serialised, "bump" \notin CrashStages PROVE Spec => DisablingTakesOneOut
<1> DEFINE OneOut ==
      \A r \in Request :
        (/\ At(r, "success") /\ At(r, "done")'
         /\ job[r].op = "setEnabled" /\ ~job[r].enabled)
          => /\ ~Carries({rows[job[r].inb].tag})
             /\ \A i \in EnabledIds :
                  WithTag(job[r].previous, {rows[i].tag}) # {} => Carries({rows[i].tag})
<1>1. SparingInv => OneOut
  <2> SUFFICES ASSUME SparingInv, NEW r \in Request, At(r, "success"),
                      job[r].op = "setEnabled", ~job[r].enabled
               PROVE  /\ ~Carries({rows[job[r].inb].tag})
                      /\ \A i \in EnabledIds :
                           WithTag(job[r].previous, {rows[i].tag}) # {} => Carries({rows[i].tag})
    OBVIOUS
  <2>0. PICK t, i : t = job[r].tag /\ i = job[r].inb
    OBVIOUS
  <2>1. ServedInv /\ Running(r) /\ r \in DOMAIN job /\ job[r].stage = "success" /\ Spares(r)
    BY DEF At, Running, Ended, SparingInv
  <2>2. Holds(r) /\ Aims(r) /\ Replaced(r) /\ job[r].doomed = FALSE
    BY <2>1 DEF ServedInv, AtWork, Holds, Reaches, Marked, Planned, Untouched
  <2>3. /\ i \in DOMAIN rows /\ rows[i].tag = t /\ job[r].oldTags = {t} /\ ~rows[i].enabled
    BY <2>0, <2>1, <2>2 DEF Holds
  <2>4. /\ \A k \in EnabledIds : ServedBy(job[r].desired, rows[k])
        /\ \A e \in job[r].desired.inbounds : \E k \in EnabledIds : e.tag = rows[k].tag
    BY <2>1, <2>2 DEF Aims, Planned, Untouched
  <2>5. \A k \in EnabledIds : rows[k].tag # t
    BY <2>1, <2>3 DEF ServedInv, UniqueTags, EnabledIds
  <2>6. WithTag(job[r].desired, {t}) = {}
    BY <2>4, <2>5 DEF WithTag
  <2>7. ~Carries({t})
    BY <2>0, <2>2, <2>3, <2>6 DEF Replaced, Carries
  <2>8. ASSUME NEW k \in EnabledIds, WithTag(job[r].previous, {rows[k].tag}) # {}
        PROVE  Carries({rows[k].tag})
    <3>1. CASE runtime = job[r].desired
      BY <2>4, <3>1 DEF ServedBy, Shows, Carries, WithTag
    <3>2. CASE runtime # job[r].desired
      <4>1. PICK e \in job[r].previous.inbounds : e.tag = rows[k].tag
        BY <2>8 DEF WithTag
      <4>2. PICK f \in runtime.inbounds : f.tag = e.tag
        BY <2>1, <2>3, <2>5, <3>2, <4>1 DEF Spares
      <4> QED BY <4>1, <4>2 DEF Carries, WithTag
    <3> QED BY <3>1, <3>2
  <2> QED BY <2>0, <2>3, <2>7, <2>8
<1>2. SparingInv /\ [Next]_vars => SparingInv'
  BY SparingInductive
<1>3. SparingInv /\ [Next]_vars => [OneOut]_vars
  BY <1>1
<1>4. Init => SparingInv
  BY ServedInit DEF SparingInv, Init
<1> QED BY <1>2, <1>3, <1>4, PTL DEF Spec, DisablingTakesOneOut

=============================================================================
