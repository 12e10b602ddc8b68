--------------------------- MODULE ServerEnrollment ---------------------------
(***************************************************************************)
(* The enrollment of one server: join tokens, their exchange for an agent  *)
(* credential, and heartbeats (ServerRepository).                          *)
(*                                                                         *)
(* Each operation is one transaction of PostgreSQL at READ COMMITTED, and  *)
(* a process here.  A step is a row lock that is granted, or a statement   *)
(* that goes on with the rows it locked.  The writes of a transaction are  *)
(* shown at its commit, which is when the others see them: the rows it     *)
(* read stay locked until then.                                            *)
(*                                                                         *)
(* The agent row is named by its credential.  Metrics, audit rows and the  *)
(* xray_instances row are left out; the replay check is a refusal here.    *)
(***************************************************************************)
EXTENDS Naturals

CONSTANTS
  Token,       \* join tokens, random and never generated twice
  Credential,  \* agent credentials, likewise
  Request      \* bound: connections that serve requests at one time

ASSUME RowsAssumption ==
  "server" \notin Token \cup Credential /\ Token \cap Credential = {}

VARIABLES
  server,  \* servers.status, "ABSENT" before the row is there
  tokens,  \* table server_join_tokens, a function on the tokens issued
  agents,  \* table server_agents: credential -> status
  minted,  \* credentials generated so far
  known,   \* the tokens and credentials that reached the node
  stale,   \* no heartbeat of the agent row in the last 90 seconds
  heard,   \* history: heartbeats accepted from the agent row, up to two
  tx       \* the transactions in progress

vars == <<server, tokens, agents, minted, known, stale, heard, tx>>

-----------------------------------------------------------------------------
Status == {"ABSENT", "PENDING_INSTALL", "REGISTERED", "CONNECTING", "ONLINE", "ERROR"}
Joinable == {"PENDING_INSTALL", "REGISTERED", "CONNECTING", "ERROR", "OFFLINE"}
Health == {"ONLINE", "ERROR"}

JoinToken == [used : BOOLEAN, revoked : BOOLEAN, expired : BOOLEAN]

\* Rows that a transaction locks.
Row == {"server"} \cup Token \cup Credential

\* stage names the row the transaction locks next, or "revoke" for the update
\* of the outstanding tokens; key is what the request presents.
Transaction == [kind : {"issue", "enroll", "heartbeat"}, key : Row,
                stage : {"server", "token", "agent", "revoke"}, held : SUBSET Row]

Usable(token) == ~token.used /\ ~token.revoked /\ ~token.expired
Outstanding == {t \in DOMAIN tokens : ~tokens[t].used /\ ~tokens[t].revoked}

NextHeartbeatStatus(current, health) ==
  IF current = "REGISTERED" THEN "CONNECTING" ELSE health

\* The status shown by the list of servers.
Shown ==
  IF stale /\ server \notin {"ABSENT", "PENDING_INSTALL", "REGISTERED", "CONNECTING"}
  THEN "OFFLINE" ELSE server

-----------------------------------------------------------------------------
(* Row locks *)

At(r, kind, stage) == r \in DOMAIN tx /\ tx[r].kind = kind /\ tx[r].stage = stage

\* Mutant: the tokens are revoked, and the agent replaced, without a lock.
WantedFirst(r) ==
  CASE tx[r].stage = "server" -> {"server"}
    [] tx[r].stage = "token" -> {tx[r].key}
    [] tx[r].stage = "agent" ->
         IF tx[r].kind = "enroll" THEN {} ELSE {tx[r].key} \cap DOMAIN agents
    [] tx[r].stage = "revoke" -> {}

\* Mutant: issueJoinToken reads the server with its agent, FOR UPDATE of both.
WantedJoined(r) ==
  CASE tx[r].stage = "server" ->
         IF tx[r].kind = "issue" THEN {"server"} \cup DOMAIN agents ELSE {"server"}
    [] tx[r].stage = "token" -> {tx[r].key}
    [] tx[r].stage = "agent" ->
         IF tx[r].kind = "enroll" THEN DOMAIN agents
         ELSE {tx[r].key} \cap DOMAIN agents
    [] tx[r].stage = "revoke" -> Outstanding

\* The rows that the statement at hand locks, as they are by now: a waiter
\* evaluates its condition again when the lock is granted.
Wanted(r) ==
  CASE tx[r].stage = "server" -> {"server"}
    [] tx[r].stage = "token" -> {tx[r].key}
    [] tx[r].stage = "agent" ->
         IF tx[r].kind = "enroll" THEN DOMAIN agents
         ELSE {tx[r].key} \cap DOMAIN agents
    [] tx[r].stage = "revoke" -> Outstanding

Locked(r) == Wanted(r) \subseteq tx[r].held
Blocks(q, r) == tx[q].held \cap (Wanted(r) \ tx[r].held) # {}

Lock(r) ==
  /\ r \in DOMAIN tx
  /\ \E row \in Wanted(r) \ tx[r].held :
       /\ \A q \in DOMAIN tx : row \notin tx[q].held
       /\ tx' = [tx EXCEPT ![r].held = @ \cup {row}]
  /\ UNCHANGED <<server, tokens, agents, minted, known, stale, heard>>

Goto(r, stage) == tx' = [tx EXCEPT ![r].stage = stage]

\* Commit or rollback: the locks are released.
End(r) == tx' = [q \in DOMAIN tx \ {r} |-> tx[q]]

Begin(r, kind, key, stage) ==
  /\ r \notin DOMAIN tx
  /\ tx' = [q \in DOMAIN tx \cup {r} |->
              IF q = r THEN [kind |-> kind, key |-> key, stage |-> stage, held |-> {}]
              ELSE tx[q]]
  /\ UNCHANGED <<server, tokens, agents, minted, known, stale, heard>>

-----------------------------------------------------------------------------
(* Operations *)

Create ==
  /\ server = "ABSENT" /\ server' = "PENDING_INSTALL"
  /\ UNCHANGED <<tokens, agents, minted, known, stale, heard, tx>>

\* issueJoinToken
IssueChecks(r) ==
  /\ At(r, "issue", "server") /\ Locked(r)
  /\ IF server \in Joinable THEN Goto(r, "revoke") ELSE End(r)
  /\ UNCHANGED <<server, tokens, agents, minted, known, stale, heard>>

\* The command is not always shown: joinCommand answers 503 without a public
\* URL, after the commit, and an answer may be lost.
IssueCommits(r) ==
  /\ At(r, "issue", "revoke") /\ Locked(r)
  /\ \E t \in Token \ DOMAIN tokens, shown \in BOOLEAN :
       /\ tokens' = [u \in DOMAIN tokens \cup {t} |->
            IF u = t THEN [used |-> FALSE, revoked |-> FALSE, expired |-> FALSE]
            ELSE IF u \in Outstanding THEN [tokens[u] EXCEPT !.revoked = TRUE]
            ELSE tokens[u]]
       /\ known' = IF shown THEN known \cup {t} ELSE known
  /\ End(r)
  /\ UNCHANGED <<server, agents, minted, stale, heard>>

\* enroll: the query locks the token, then the server it joins.
EnrollFinds(r) ==
  /\ At(r, "enroll", "token") /\ Locked(r)
  /\ Goto(r, "server")
  /\ UNCHANGED <<server, tokens, agents, minted, known, stale, heard>>

\* Mutant: the token is checked for its age only.
EnrollChecksAge(r) ==
  /\ At(r, "enroll", "server") /\ Locked(r)
  /\ IF tokens[tx[r].key].expired THEN End(r) ELSE Goto(r, "agent")
  /\ UNCHANGED <<server, tokens, agents, minted, known, stale, heard>>

EnrollChecks(r) ==
  /\ At(r, "enroll", "server") /\ Locked(r)
  /\ IF Usable(tokens[tx[r].key]) THEN Goto(r, "agent") ELSE End(r)
  /\ UNCHANGED <<server, tokens, agents, minted, known, stale, heard>>

\* The agent row of the server is replaced.
EnrollCommits(r) ==
  /\ At(r, "enroll", "agent") /\ Locked(r)
  /\ \E c \in Credential \ minted, shown \in BOOLEAN :
       /\ agents' = [a \in {c} |-> "REGISTERED"]
       /\ minted' = minted \cup {c}
       /\ known' = IF shown THEN known \cup {c} ELSE known
  /\ tokens' = [tokens EXCEPT ![tx[r].key].used = TRUE]
  /\ server' = "REGISTERED" /\ stale' = TRUE /\ heard' = 0
  /\ End(r)

\* heartbeat: the query locks the agent, then the server it joins; an agent
\* row deleted meanwhile is no row.
HeartbeatFinds(r) ==
  /\ At(r, "heartbeat", "agent") /\ Locked(r)
  /\ IF tx[r].key \in DOMAIN agents THEN Goto(r, "server") ELSE End(r)
  /\ UNCHANGED <<server, tokens, agents, minted, known, stale, heard>>

HeartbeatCommits(r) ==
  /\ At(r, "heartbeat", "server") /\ Locked(r)
  /\ \E health \in Health :
       /\ agents' = [agents EXCEPT ![tx[r].key] = health]
       /\ server' = NextHeartbeatStatus(server, health)
  /\ heard' = IF tx[r].key \notin DOMAIN agents THEN heard
              ELSE IF heard = 0 THEN 1 ELSE 2
  /\ stale' = FALSE
  /\ End(r)
  /\ UNCHANGED <<tokens, minted, known>>

\* A statement fails, a replayed heartbeat is refused, PostgreSQL breaks a
\* deadlock, the API dies.
RollBack(r) ==
  /\ r \in DOMAIN tx
  /\ End(r)
  /\ UNCHANGED <<server, tokens, agents, minted, known, stale, heard>>

\* The requests that an administrator, an installer and an agent make.
Arrive(r) ==
  \/ server # "ABSENT" /\ Begin(r, "issue", "server", "server")
  \/ \E t \in known \cap Token : Begin(r, "enroll", t, "token")
  \/ \E c \in known \cap Credential : Begin(r, "heartbeat", c, "agent")

-----------------------------------------------------------------------------
(* Time *)

TokenExpires(t) ==
  /\ t \in DOMAIN tokens
  /\ tokens' = [tokens EXCEPT ![t].expired = TRUE]
  /\ UNCHANGED <<server, agents, minted, known, stale, heard, tx>>

HeartbeatMissed ==
  /\ stale' = TRUE
  /\ UNCHANGED <<server, tokens, agents, minted, known, heard, tx>>

-----------------------------------------------------------------------------
Init ==
  /\ server = "ABSENT" /\ stale = TRUE /\ heard = 0
  /\ tokens = [t \in {} |-> {}] /\ agents = [c \in {} |-> {}]
  /\ minted = {} /\ known = {}
  /\ tx = [r \in {} |-> {}]

Statement(r) ==
  \/ IssueChecks(r) \/ IssueCommits(r)
  \/ EnrollFinds(r) \/ EnrollChecks(r) \/ EnrollCommits(r)
  \/ HeartbeatFinds(r) \/ HeartbeatCommits(r)

Next ==
  \/ Create
  \/ \E r \in Request :
       Arrive(r) \/ Lock(r) \/ Statement(r) \/ RollBack(r)
  \/ \E t \in Token : TokenExpires(t)
  \/ HeartbeatMissed

Spec == Init /\ [][Next]_vars

-----------------------------------------------------------------------------
(* Properties *)

\* Types of the tables and of the transactions.
TypeOK ==
  /\ server \in Status
  /\ DOMAIN tokens \subseteq Token /\ tokens \in [DOMAIN tokens -> JoinToken]
  /\ minted \subseteq Credential
  /\ DOMAIN agents \subseteq minted /\ agents \in [DOMAIN agents -> {"REGISTERED"} \cup Health]
  /\ known \subseteq DOMAIN tokens \cup minted
  /\ stale \in BOOLEAN /\ heard \in 0..2
  /\ DOMAIN tx \subseteq Request /\ tx \in [DOMAIN tx -> Transaction]

\* Administrators who ask for commands at the same time, with exchanges in
\* between, never leave two tokens that could both be exchanged.
OneOutstanding == \A t, u \in Outstanding : t = u

\* An exchange and a revocation of one token never both succeed.
ExchangedOrRevoked == \A t \in DOMAIN tokens : ~(tokens[t].used /\ tokens[t].revoked)

\* A heartbeat that got past its credential check is from the credential the
\* master accepts until it commits: an exchange waits for it, or it for the
\* exchange.
OnlyHolderIsHeard ==
  \A r \in DOMAIN tx : At(r, "heartbeat", "server") => tx[r].key \in DOMAIN agents

\* How often the credential in force was heard, by the stored status.
HeardInOrder ==
  /\ server \in {"ABSENT", "PENDING_INSTALL", "REGISTERED"} => heard = 0
  /\ server = "CONNECTING" => heard = 1
  /\ server \in Health => heard = 2

\* ONLINE, and ERROR, need two heartbeats of the credential in force: those of
\* a credential that was replaced do not count, however late they commit. Nor is
\* a server shown OFFLINE that was not ONLINE before.
StatusIsObserved ==
  HeardInOrder /\ (Shown = "OFFLINE" => heard = 2)

\* Each change of the status, the tokens and the credential is one that the
\* lifecycle allows, as if the transactions ran one at a time.
Lifecycle == INSTANCE EnrollmentLifecycle WITH
  status <- server, issued <- DOMAIN tokens, outstanding <- Outstanding,
  holder <- DOMAIN agents
FollowsLifecycle == Lifecycle!Spec

\* Each of gang waits for one of gang.
Deadlocked(gang) == \A r \in gang : \E q \in gang : Blocks(q, r)

\* Where transactions wait in a circle, an exchange and an issue, or an
\* exchange and a heartbeat, hold what the other asks for: the exchange locks
\* the token before the server and the agent after it.  Commands that are issued
\* and heartbeats never deadlock each other, nor do two exchanges.
DeadlocksNeedExchange ==
  \A gang \in (SUBSET DOMAIN tx) \ {{}} : Deadlocked(gang) =>
    \E q, r \in gang :
      /\ tx[q].kind = "enroll" /\ tx[r].kind # "enroll"
      /\ Blocks(q, r) /\ Blocks(r, q)
=============================================================================
