------------------------ MODULE ServerEnrollmentProofs ------------------------
(***************************************************************************)
(* Proofs about ServerEnrollment, for any number of tokens, credentials    *)
(* and concurrent requests.  The inductive invariant IInv says what the    *)
(* row locks of a transaction guarantee at each of its stages.             *)
(***************************************************************************)
EXTENDS ServerEnrollment, TLAPS

\* No row is locked by two transactions.
Exclusive ==
  \A q, r \in DOMAIN tx : q # r => tx[q].held \cap tx[r].held = {}

IssueOrderly(r) ==
  tx[r].kind = "issue" =>
    /\ tx[r].stage \in {"server", "revoke"}
    /\ tx[r].stage = "revoke" => "server" \in tx[r].held /\ server \in Joinable

EnrollOrderly(r) ==
  tx[r].kind = "enroll" =>
    /\ tx[r].key \in DOMAIN tokens
    /\ tx[r].stage \in {"token", "server", "agent"}
    /\ tx[r].stage # "token" => tx[r].key \in tx[r].held
    /\ tx[r].stage = "agent" => "server" \in tx[r].held /\ tx[r].key \in Outstanding

HeartbeatOrderly(r) ==
  tx[r].kind = "heartbeat" =>
    /\ tx[r].key \in Credential
    /\ tx[r].stage \in {"agent", "server"}
    /\ tx[r].stage = "server" => tx[r].key \in tx[r].held /\ tx[r].key \in DOMAIN agents

\* What a transaction has found is still so, because it holds the rows.
Orderly(r) == IssueOrderly(r) /\ EnrollOrderly(r) /\ HeartbeatOrderly(r)

\* The server of an agent was enrolled.
AgentMeansJoined ==
  DOMAIN agents # {} => server \notin {"ABSENT", "PENDING_INSTALL"}

IInv ==
  /\ TypeOK /\ Exclusive
  /\ \A r \in DOMAIN tx : Orderly(r)
  /\ OneOutstanding /\ ExchangedOrRevoked /\ HeardInOrder /\ AgentMeansJoined

tables == <<server, tokens, agents, minted, known, stale, heard>>

-----------------------------------------------------------------------------
(* Steps that leave the tables alone *)

LEMMA TablesKept ==
  ASSUME IInv, UNCHANGED tables,
         DOMAIN tx' \subseteq Request, tx' \in [DOMAIN tx' -> Transaction],
         Exclusive', \A q \in DOMAIN tx' : Orderly(q)'
  PROVE  IInv'
  BY DEF IInv, tables, TypeOK, OneOutstanding, ExchangedOrRevoked, HeardInOrder,
         AgentMeansJoined, Outstanding

\* A transaction that is not touched stays orderly while the tables do.
LEMMA OrderlyKept ==
  ASSUME UNCHANGED tables, NEW q, Orderly(q), tx'[q] = tx[q]
  PROVE  Orderly(q)'
  BY DEF tables, Orderly, IssueOrderly, EnrollOrderly, HeartbeatOrderly, Outstanding

LEMMA EndKeeps ==
  ASSUME IInv, UNCHANGED tables, NEW r, End(r)
  PROVE  IInv'
<1>1. /\ DOMAIN tx' = DOMAIN tx \ {r}
      /\ \A q \in DOMAIN tx' : tx'[q] = tx[q]
  BY DEF End
<1>2. DOMAIN tx' \subseteq Request /\ tx' \in [DOMAIN tx' -> Transaction]
  BY <1>1 DEF IInv, TypeOK, End
<1>3. Exclusive'
  BY <1>1 DEF IInv, Exclusive
<1>4. \A q \in DOMAIN tx' : Orderly(q)'
  BY <1>1, OrderlyKept DEF IInv
<1> QED BY <1>2, <1>3, <1>4, TablesKept

LEMMA GotoKeeps ==
  ASSUME IInv, UNCHANGED tables, NEW r \in DOMAIN tx,
         NEW stage \in {"server", "token", "agent", "revoke"}, Goto(r, stage), Orderly(r)'
  PROVE  IInv'
<1>1. /\ DOMAIN tx' = DOMAIN tx
      /\ \A q \in DOMAIN tx' : tx'[q].held = tx[q].held /\ (q # r => tx'[q] = tx[q])
  BY DEF Goto, IInv, TypeOK, Transaction
<1>2. DOMAIN tx' \subseteq Request /\ tx' \in [DOMAIN tx' -> Transaction]
  BY <1>1 DEF IInv, TypeOK, Goto, Transaction
<1>3. Exclusive'
  BY <1>1 DEF IInv, Exclusive
<1>4. \A q \in DOMAIN tx' : Orderly(q)'
  BY <1>1, OrderlyKept DEF IInv
<1> QED BY <1>2, <1>3, <1>4, TablesKept

LEMMA BeginKeeps ==
  ASSUME IInv, NEW r \in Request, Arrive(r)
  PROVE  IInv'
<1>1. PICK kind, key, stage :
        /\ Begin(r, kind, key, stage)
        /\ \/ kind = "issue" /\ key = "server" /\ stage = "server"
           \/ kind = "enroll" /\ key \in known \cap Token /\ stage = "token"
           \/ kind = "heartbeat" /\ key \in known \cap Credential /\ stage = "agent"
  BY DEF Arrive
<1>2. /\ r \notin DOMAIN tx /\ UNCHANGED tables
      /\ DOMAIN tx' = DOMAIN tx \cup {r}
      /\ tx'[r] = [kind |-> kind, key |-> key, stage |-> stage, held |-> {}]
      /\ \A q \in DOMAIN tx : tx'[q] = tx[q]
  BY <1>1 DEF Begin, tables
<1>3. DOMAIN tx' \subseteq Request /\ tx' \in [DOMAIN tx' -> Transaction]
  <2>1. tx'[r] \in Transaction
    BY <1>1, <1>2 DEF Transaction, Row
  <2>2. tx' = [q \in DOMAIN tx' |-> tx'[q]]
    BY <1>1, <1>2 DEF Begin
  <2> QED BY <1>2, <2>1, <2>2 DEF IInv, TypeOK
<1>4. Exclusive'
  BY <1>2 DEF IInv, Exclusive
<1>5. Orderly(r)'
  BY <1>1, <1>2, RowsAssumption
     DEF IInv, TypeOK, tables, Orderly, IssueOrderly, EnrollOrderly, HeartbeatOrderly
<1>6. \A q \in DOMAIN tx' : Orderly(q)'
  BY <1>2, <1>5, OrderlyKept DEF IInv
<1> QED BY <1>2, <1>3, <1>4, <1>6, TablesKept

LEMMA LockKeeps ==
  ASSUME IInv, NEW r \in Request, Lock(r)
  PROVE  IInv'
<1>1. PICK row \in Wanted(r) \ tx[r].held :
        /\ \A q \in DOMAIN tx : row \notin tx[q].held
        /\ tx' = [tx EXCEPT ![r].held = @ \cup {row}]
  BY DEF Lock
<1>2. row \in Row
  <2>1. tx[r] \in Transaction /\ DOMAIN agents \subseteq Credential /\ Outstanding \subseteq Token
    BY DEF Lock, IInv, TypeOK, Outstanding
  <2> QED BY <1>1, <2>1 DEF Wanted, Row, Transaction
<1>3. /\ r \in DOMAIN tx /\ UNCHANGED tables
      /\ DOMAIN tx' = DOMAIN tx
      /\ tx'[r] = [tx[r] EXCEPT !.held = @ \cup {row}]
      /\ \A q \in DOMAIN tx : q # r => tx'[q] = tx[q]
  BY <1>1 DEF Lock, tables, IInv, TypeOK
<1>4. /\ tx'[r].held = tx[r].held \cup {row} /\ tx'[r].kind = tx[r].kind
      /\ tx'[r].key = tx[r].key /\ tx'[r].stage = tx[r].stage
  BY <1>3 DEF IInv, TypeOK, Transaction
<1>5. DOMAIN tx' \subseteq Request /\ tx' \in [DOMAIN tx' -> Transaction]
  BY <1>1, <1>2, <1>3 DEF IInv, TypeOK, Transaction
<1>6. Exclusive'
  BY <1>1, <1>3, <1>4 DEF IInv, Exclusive
<1>7. Orderly(r)'
  BY <1>3, <1>4
     DEF IInv, tables, Orderly, IssueOrderly, EnrollOrderly, HeartbeatOrderly, Outstanding
<1>8. \A q \in DOMAIN tx' : Orderly(q)'
  BY <1>3, <1>7, OrderlyKept DEF IInv
<1> QED BY <1>3, <1>5, <1>6, <1>8, TablesKept

-----------------------------------------------------------------------------
(* Statements that only read *)

LEMMA IssueChecksKeeps ==
  ASSUME IInv, NEW r \in Request, IssueChecks(r) PROVE IInv'
<1>1. r \in DOMAIN tx /\ UNCHANGED tables
  BY DEF IssueChecks, At, tables
<1>2. CASE End(r)
  BY <1>1, <1>2, EndKeeps
<1>3. CASE server \in Joinable /\ Goto(r, "revoke")
  <2>1. "server" \in tx[r].held /\ tx[r].kind = "issue"
    BY DEF IssueChecks, At, Locked, Wanted
  <2>2. tx'[r].held = tx[r].held /\ tx'[r].kind = "issue" /\ tx'[r].stage = "revoke"
    BY <1>1, <1>3, <2>1 DEF Goto, IInv, TypeOK, Transaction
  <2>3. Orderly(r)'
    BY <1>1, <1>3, <2>1, <2>2
       DEF tables, Orderly, IssueOrderly, EnrollOrderly, HeartbeatOrderly
  <2> QED BY <1>1, <1>3, <2>3, GotoKeeps
<1> QED BY <1>2, <1>3 DEF IssueChecks

LEMMA EnrollFindsKeeps ==
  ASSUME IInv, NEW r \in Request, EnrollFinds(r) PROVE IInv'
<1>1. r \in DOMAIN tx /\ UNCHANGED tables /\ Goto(r, "server")
  BY DEF EnrollFinds, At, tables
<1>2. tx[r].key \in tx[r].held /\ tx[r].kind = "enroll" /\ EnrollOrderly(r)
  BY DEF EnrollFinds, At, Locked, Wanted, IInv, Orderly
<1>3. /\ tx'[r].held = tx[r].held /\ tx'[r].kind = "enroll"
      /\ tx'[r].key = tx[r].key /\ tx'[r].stage = "server"
  BY <1>1, <1>2 DEF Goto, IInv, TypeOK, Transaction
<1>4. Orderly(r)'
  BY <1>1, <1>2, <1>3
     DEF tables, Orderly, IssueOrderly, EnrollOrderly, HeartbeatOrderly
<1> QED BY <1>1, <1>4, GotoKeeps

LEMMA EnrollChecksKeeps ==
  ASSUME IInv, NEW r \in Request, EnrollChecks(r) PROVE IInv'
<1>1. r \in DOMAIN tx /\ UNCHANGED tables
  BY DEF EnrollChecks, At, tables
<1>2. CASE End(r)
  BY <1>1, <1>2, EndKeeps
<1>3. CASE Usable(tokens[tx[r].key]) /\ Goto(r, "agent")
  <2>1. /\ tx[r].kind = "enroll" /\ "server" \in tx[r].held
        /\ tx[r].key \in tx[r].held /\ tx[r].key \in Outstanding
    BY <1>3 DEF EnrollChecks, At, Locked, Wanted, IInv, Orderly, EnrollOrderly, Usable,
                Outstanding
  <2>2. /\ tx'[r].held = tx[r].held /\ tx'[r].kind = "enroll"
        /\ tx'[r].key = tx[r].key /\ tx'[r].stage = "agent"
    BY <1>1, <1>3, <2>1 DEF Goto, IInv, TypeOK, Transaction
  <2>3. Orderly(r)'
    BY <1>1, <2>1, <2>2
       DEF tables, Orderly, IssueOrderly, EnrollOrderly, HeartbeatOrderly, Outstanding
  <2> QED BY <1>1, <1>3, <2>3, GotoKeeps
<1> QED BY <1>2, <1>3 DEF EnrollChecks

LEMMA HeartbeatFindsKeeps ==
  ASSUME IInv, NEW r \in Request, HeartbeatFinds(r) PROVE IInv'
<1>1. r \in DOMAIN tx /\ UNCHANGED tables
  BY DEF HeartbeatFinds, At, tables
<1>2. CASE End(r)
  BY <1>1, <1>2, EndKeeps
<1>3. CASE tx[r].key \in DOMAIN agents /\ Goto(r, "server")
  <2>1. tx[r].kind = "heartbeat" /\ tx[r].key \in tx[r].held /\ tx[r].key \in Credential
    BY <1>3 DEF HeartbeatFinds, At, Locked, Wanted, IInv, TypeOK
  <2>2. /\ tx'[r].held = tx[r].held /\ tx'[r].kind = "heartbeat"
        /\ tx'[r].key = tx[r].key /\ tx'[r].stage = "server"
    BY <1>1, <1>3, <2>1 DEF Goto, IInv, TypeOK, Transaction
  <2>3. Orderly(r)'
    BY <1>1, <1>3, <2>1, <2>2
       DEF tables, Orderly, IssueOrderly, EnrollOrderly, HeartbeatOrderly
  <2> QED BY <1>1, <1>3, <2>3, GotoKeeps
<1> QED BY <1>2, <1>3 DEF HeartbeatFinds

-----------------------------------------------------------------------------
(* Commits *)

\* The transactions that go on after a commit of r, and the locks of r.
LEMMA AfterEnd ==
  ASSUME IInv, NEW r \in DOMAIN tx, End(r)
  PROVE  /\ DOMAIN tx' = DOMAIN tx \ {r}
         /\ DOMAIN tx' \subseteq Request /\ tx' \in [DOMAIN tx' -> Transaction]
         /\ Exclusive'
         /\ \A q \in DOMAIN tx' :
              tx'[q] = tx[q] /\ tx[q].held \cap tx[r].held = {} /\ Orderly(q)
<1>1. /\ DOMAIN tx' = DOMAIN tx \ {r}
      /\ \A q \in DOMAIN tx' : tx'[q] = tx[q]
  BY DEF End
<1>2. DOMAIN tx' \subseteq Request /\ tx' \in [DOMAIN tx' -> Transaction]
  BY <1>1 DEF IInv, TypeOK, End
<1> QED BY <1>1, <1>2 DEF IInv, Exclusive

\* The new token is the only outstanding one.
LEMMA IssueOutstanding ==
  ASSUME IInv, NEW r \in Request, IssueCommits(r)
  PROVE  \E t \in Token \ DOMAIN tokens :
           /\ DOMAIN tokens' = DOMAIN tokens \cup {t}
           /\ tokens' \in [DOMAIN tokens' -> JoinToken]
           /\ Outstanding' = {t}
           /\ \A u \in DOMAIN tokens' : ~(tokens'[u].used /\ tokens'[u].revoked)
<1> DEFINE fresh == [used |-> FALSE, revoked |-> FALSE, expired |-> FALSE]
<1>1. PICK t \in Token \ DOMAIN tokens :
        tokens' = [u \in DOMAIN tokens \cup {t} |->
            IF u = t THEN fresh
            ELSE IF u \in Outstanding THEN [tokens[u] EXCEPT !.revoked = TRUE]
            ELSE tokens[u]]
  BY DEF IssueCommits
<1>2. \A u \in DOMAIN tokens :
        /\ tokens[u] \in JoinToken
        /\ u \in Outstanding => ~tokens[u].used
        /\ u \notin Outstanding => tokens[u].used \/ tokens[u].revoked
        /\ ~(tokens[u].used /\ tokens[u].revoked)
  BY DEF IInv, TypeOK, Outstanding, ExchangedOrRevoked
<1>3. \A u \in DOMAIN tokens :
        u \in Outstanding => /\ tokens'[u] = [tokens[u] EXCEPT !.revoked = TRUE]
                             /\ tokens'[u] \in JoinToken
                             /\ tokens'[u].revoked /\ ~tokens'[u].used
  BY <1>1, <1>2 DEF JoinToken
<1>4. \A u \in DOMAIN tokens : u \notin Outstanding => tokens'[u] = tokens[u]
  BY <1>1
<1>5. tokens'[t] = fresh /\ fresh \in JoinToken /\ ~fresh.used /\ ~fresh.revoked
  BY <1>1 DEF JoinToken
<1>6. DOMAIN tokens' = DOMAIN tokens \cup {t}
  BY <1>1
<1>7. tokens' \in [DOMAIN tokens' -> JoinToken]
  <2>1. \A u \in DOMAIN tokens' : tokens'[u] \in JoinToken
    BY <1>2, <1>3, <1>4, <1>5, <1>6
  <2>2. tokens' = [u \in DOMAIN tokens' |-> tokens'[u]]
    BY <1>1
  <2> QED BY <2>1, <2>2
<1>8. Outstanding' = {t}
  BY <1>2, <1>3, <1>4, <1>5, <1>6 DEF Outstanding
<1>9. \A u \in DOMAIN tokens' : ~(tokens'[u].used /\ tokens'[u].revoked)
  BY <1>2, <1>3, <1>4, <1>5, <1>6
<1> QED BY <1>6, <1>7, <1>8, <1>9

LEMMA IssueCommitsKeeps ==
  ASSUME IInv, NEW r \in Request, IssueCommits(r) PROVE IInv'
<1>1. PICK t \in Token \ DOMAIN tokens :
           /\ DOMAIN tokens' = DOMAIN tokens \cup {t}
           /\ tokens' \in [DOMAIN tokens' -> JoinToken]
           /\ Outstanding' = {t}
           /\ \A u \in DOMAIN tokens' : ~(tokens'[u].used /\ tokens'[u].revoked)
  BY IssueOutstanding
<1>2. known' \subseteq known \cup DOMAIN tokens'
  BY DEF IssueCommits
<1>3. r \in DOMAIN tx /\ End(r) /\ UNCHANGED <<server, agents, minted, stale, heard>>
  BY DEF IssueCommits, At
<1>4. Outstanding \subseteq tx[r].held
  BY DEF IssueCommits, At, Locked, Wanted
<1>5. \A q \in DOMAIN tx' : Orderly(q)'
  <2> SUFFICES ASSUME NEW q \in DOMAIN tx' PROVE Orderly(q)'
    OBVIOUS
  <2>1. tx'[q] = tx[q] /\ tx[q].held \cap tx[r].held = {} /\ Orderly(q)
    BY <1>3, AfterEnd
  <2>2. ~(tx[q].kind = "enroll" /\ tx[q].stage = "agent")
    BY <1>4, <2>1 DEF Orderly, EnrollOrderly
  <2> QED BY <1>1, <1>3, <2>1, <2>2
             DEF Orderly, IssueOrderly, EnrollOrderly, HeartbeatOrderly
<1>6. TypeOK'
  BY <1>1, <1>2, <1>3, AfterEnd DEF IInv, TypeOK
<1>7. OneOutstanding' /\ ExchangedOrRevoked'
  BY <1>1 DEF OneOutstanding, ExchangedOrRevoked
<1>8. HeardInOrder' /\ AgentMeansJoined'
  BY <1>3 DEF IInv, HeardInOrder, AgentMeansJoined
<1> QED BY <1>3, <1>5, <1>6, <1>7, <1>8, AfterEnd DEF IInv

\* No token is outstanding after an exchange.
LEMMA EnrollOutstanding ==
  ASSUME IInv, NEW r \in Request, EnrollCommits(r)
  PROVE  /\ DOMAIN tokens' = DOMAIN tokens
         /\ tokens' \in [DOMAIN tokens' -> JoinToken]
         /\ Outstanding = {tx[r].key} /\ Outstanding' = {}
         /\ \A u \in DOMAIN tokens' : ~(tokens'[u].used /\ tokens'[u].revoked)
<1> DEFINE key == tx[r].key
<1>1. key \in Outstanding /\ Outstanding = {key}
  BY DEF EnrollCommits, At, IInv, Orderly, EnrollOrderly, OneOutstanding
<1>2. key \in DOMAIN tokens /\ ~tokens[key].revoked
  BY <1>1 DEF Outstanding
<1>3. tokens \in [DOMAIN tokens -> JoinToken]
  BY DEF IInv, TypeOK
<1>4. tokens' = [tokens EXCEPT ![key].used = TRUE]
  BY DEF EnrollCommits
<1> HIDE DEF key
<1>5. /\ tokens'[key] \in JoinToken
      /\ tokens'[key].used /\ ~tokens'[key].revoked
  BY <1>2, <1>3, <1>4 DEF JoinToken
<1>6. DOMAIN tokens' = DOMAIN tokens /\ \A u \in DOMAIN tokens \ {key} : tokens'[u] = tokens[u]
  BY <1>3, <1>4
<1>7. tokens' \in [DOMAIN tokens' -> JoinToken]
  BY <1>3, <1>4, <1>5, <1>6
<1>8. Outstanding' = {}
  BY <1>1, <1>5, <1>6 DEF Outstanding
<1>9. \A u \in DOMAIN tokens' : ~(tokens'[u].used /\ tokens'[u].revoked)
  BY <1>5, <1>6 DEF IInv, ExchangedOrRevoked
<1> QED BY <1>1, <1>6, <1>7, <1>8, <1>9 DEF key

LEMMA EnrollCommitsKeeps ==
  ASSUME IInv, NEW r \in Request, EnrollCommits(r) PROVE IInv'
<1>1. PICK c \in Credential \ minted :
        /\ agents' = [a \in {c} |-> "REGISTERED"]
        /\ minted' = minted \cup {c}
        /\ known' \subseteq known \cup {c}
  BY DEF EnrollCommits
<1>2. /\ r \in DOMAIN tx /\ End(r)
      /\ server' = "REGISTERED" /\ stale' = TRUE /\ heard' = 0
  BY DEF EnrollCommits, At
<1>3. DOMAIN agents \subseteq tx[r].held /\ "server" \in tx[r].held
  BY DEF EnrollCommits, At, Locked, Wanted, IInv, Orderly, EnrollOrderly
<1>4. tx[r].key \in tx[r].held
  BY DEF EnrollCommits, At, IInv, Orderly, EnrollOrderly
<1>5. \A q \in DOMAIN tx' : Orderly(q)'
  <2> SUFFICES ASSUME NEW q \in DOMAIN tx' PROVE Orderly(q)'
    OBVIOUS
  <2>1. tx'[q] = tx[q] /\ tx[q].held \cap tx[r].held = {} /\ Orderly(q)
    BY <1>2, AfterEnd
  <2>2. ~(tx[q].kind = "issue" /\ tx[q].stage = "revoke")
    BY <1>3, <2>1 DEF Orderly, IssueOrderly
  <2>3. ~(tx[q].kind = "enroll" /\ tx[q].stage = "agent")
    BY <1>3, <2>1 DEF Orderly, EnrollOrderly
  <2>4. ~(tx[q].kind = "heartbeat" /\ tx[q].stage = "server")
    BY <1>3, <2>1 DEF Orderly, HeartbeatOrderly
  <2> QED BY <2>1, <2>2, <2>3, <2>4, EnrollOutstanding
             DEF Orderly, IssueOrderly, EnrollOrderly, HeartbeatOrderly
<1>6. TypeOK'
  <2>1. DOMAIN agents' = {c} /\ agents' \in [{c} -> {"REGISTERED"} \cup Health]
    BY <1>1
  <2>2. /\ minted' \subseteq Credential /\ DOMAIN agents' \subseteq minted'
        /\ known' \subseteq DOMAIN tokens' \cup minted'
    BY <1>1, <2>1, EnrollOutstanding DEF IInv, TypeOK
  <2>3. server' \in Status /\ stale' \in BOOLEAN /\ heard' \in 0..2
    BY <1>2 DEF Status
  <2>4. DOMAIN tokens' \subseteq Token /\ tokens' \in [DOMAIN tokens' -> JoinToken]
    BY EnrollOutstanding DEF IInv, TypeOK
  <2>5. DOMAIN tx' \subseteq Request /\ tx' \in [DOMAIN tx' -> Transaction]
    BY <1>2, AfterEnd
  <2> QED BY <2>1, <2>2, <2>3, <2>4, <2>5 DEF TypeOK
<1>7. OneOutstanding' /\ ExchangedOrRevoked'
  BY EnrollOutstanding DEF OneOutstanding, ExchangedOrRevoked
<1>8. HeardInOrder' /\ AgentMeansJoined'
  BY <1>2 DEF HeardInOrder, AgentMeansJoined, Health
<1> QED BY <1>2, <1>5, <1>6, <1>7, <1>8, AfterEnd DEF IInv

\* A heartbeat is one of the agent in force, and moves the status on.
LEMMA HeartbeatMoves ==
  ASSUME IInv, NEW r \in Request, HeartbeatCommits(r)
  PROVE  /\ DOMAIN agents # {}
         /\ server' \in IF heard = 0 THEN {"CONNECTING"} ELSE {"ONLINE", "ERROR"}
         /\ heard' = IF heard = 0 THEN 1 ELSE 2
<1>1. tx[r].key \in DOMAIN agents
  BY DEF HeartbeatCommits, At, IInv, Orderly, HeartbeatOrderly
<1>2. heard' = IF heard = 0 THEN 1 ELSE 2
  BY <1>1 DEF HeartbeatCommits
<1>3. server \in {"REGISTERED", "CONNECTING", "ONLINE", "ERROR"}
  BY <1>1 DEF IInv, TypeOK, Status, AgentMeansJoined
<1>4. server = "REGISTERED" <=> heard = 0
  BY <1>3 DEF IInv, HeardInOrder, Health
<1>5. PICK health \in Health : server' = NextHeartbeatStatus(server, health)
  BY DEF HeartbeatCommits
<1>6. server' \in IF heard = 0 THEN {"CONNECTING"} ELSE {"ONLINE", "ERROR"}
  BY <1>4, <1>5 DEF NextHeartbeatStatus, Health
<1> QED BY <1>1, <1>2, <1>6

LEMMA HeartbeatCommitsKeeps ==
  ASSUME IInv, NEW r \in Request, HeartbeatCommits(r) PROVE IInv'
<1>1. PICK health \in Health : agents' = [agents EXCEPT ![tx[r].key] = health]
  BY DEF HeartbeatCommits
<1>2. /\ r \in DOMAIN tx /\ End(r) /\ stale' = FALSE
      /\ UNCHANGED <<tokens, minted, known>> /\ "server" \in tx[r].held
  BY DEF HeartbeatCommits, At, Locked, Wanted
<1>3. /\ DOMAIN agents' = DOMAIN agents
      /\ agents' \in [DOMAIN agents -> {"REGISTERED"} \cup Health]
  BY <1>1 DEF IInv, TypeOK
<1>4. \A q \in DOMAIN tx' : Orderly(q)'
  <2> SUFFICES ASSUME NEW q \in DOMAIN tx' PROVE Orderly(q)'
    OBVIOUS
  <2>1. tx'[q] = tx[q] /\ tx[q].held \cap tx[r].held = {} /\ Orderly(q)
    BY <1>2, AfterEnd
  <2>2. ~(tx[q].kind = "issue" /\ tx[q].stage = "revoke")
    BY <1>2, <2>1 DEF Orderly, IssueOrderly
  <2> QED BY <1>2, <1>3, <2>1, <2>2
             DEF Orderly, IssueOrderly, EnrollOrderly, HeartbeatOrderly, Outstanding
<1>5. TypeOK'
  <2>1. server' \in Status /\ heard' \in 0..2
    BY HeartbeatMoves DEF IInv, TypeOK, Status
  <2>2. DOMAIN tx' \subseteq Request /\ tx' \in [DOMAIN tx' -> Transaction]
    BY <1>2, AfterEnd
  <2> QED BY <1>2, <1>3, <2>1, <2>2 DEF IInv, TypeOK
<1>6. OneOutstanding' /\ ExchangedOrRevoked'
  BY <1>2 DEF IInv, OneOutstanding, ExchangedOrRevoked, Outstanding
<1>7. HeardInOrder' /\ AgentMeansJoined'
  BY HeartbeatMoves DEF IInv, TypeOK, HeardInOrder, AgentMeansJoined, Health
<1> QED BY <1>2, <1>4, <1>5, <1>6, <1>7, AfterEnd DEF IInv

LEMMA TokenExpiresKeeps ==
  ASSUME IInv, NEW t \in Token, TokenExpires(t) PROVE IInv'
<1>1. /\ UNCHANGED <<server, agents, minted, known, stale, heard, tx>>
      /\ tokens' = [tokens EXCEPT ![t].expired = TRUE] /\ t \in DOMAIN tokens
  BY DEF TokenExpires
<1>2. tokens \in [DOMAIN tokens -> JoinToken]
  BY DEF IInv, TypeOK
<1>3. /\ DOMAIN tokens' = DOMAIN tokens /\ tokens' \in [DOMAIN tokens' -> JoinToken]
      /\ \A u \in DOMAIN tokens : /\ tokens'[u].used = tokens[u].used
                                  /\ tokens'[u].revoked = tokens[u].revoked
  BY <1>1, <1>2 DEF JoinToken
<1>4. Outstanding' = Outstanding
  BY <1>3 DEF Outstanding
<1>5. \A q \in DOMAIN tx' : Orderly(q)'
  BY <1>1, <1>3, <1>4 DEF IInv, Orderly, IssueOrderly, EnrollOrderly, HeartbeatOrderly
<1>6. TypeOK' /\ Exclusive'
  BY <1>1, <1>3 DEF IInv, TypeOK, Exclusive
<1>7. OneOutstanding' /\ ExchangedOrRevoked' /\ HeardInOrder' /\ AgentMeansJoined'
  BY <1>1, <1>3, <1>4
     DEF IInv, OneOutstanding, ExchangedOrRevoked, HeardInOrder, AgentMeansJoined
<1> QED BY <1>5, <1>6, <1>7 DEF IInv

-----------------------------------------------------------------------------
(* The inductive invariant *)

LEMMA InitInv == Init => IInv
<1> SUFFICES ASSUME Init PROVE IInv
  OBVIOUS
<1>1. TypeOK
  BY DEF Init, TypeOK, Status
<1>2. Outstanding = {}
  BY DEF Init, Outstanding
<1> QED BY <1>1, <1>2
           DEF Init, IInv, Exclusive, OneOutstanding, ExchangedOrRevoked,
               HeardInOrder, AgentMeansJoined, Health

\* Steps that change nothing the invariant speaks of but these flags.
LEMMA FlagsKeep ==
  ASSUME IInv, UNCHANGED <<tokens, agents, minted, known, heard, tx>>,
         \/ UNCHANGED server /\ stale' \in BOOLEAN
         \/ server = "ABSENT" /\ server' = "PENDING_INSTALL" /\ UNCHANGED stale
  PROVE  IInv'
<1>1. TypeOK' /\ Exclusive'
  BY DEF IInv, TypeOK, Exclusive, Status
<1>2. Outstanding' = Outstanding
  BY DEF Outstanding
<1>3. server \in Joinable => server' \in Joinable
  BY DEF Joinable
<1>4. \A q \in DOMAIN tx' : Orderly(q)'
  BY <1>2, <1>3 DEF IInv, Orderly, IssueOrderly, EnrollOrderly, HeartbeatOrderly
<1>5. OneOutstanding' /\ ExchangedOrRevoked'
  BY <1>2 DEF IInv, OneOutstanding, ExchangedOrRevoked
<1>6. HeardInOrder' /\ AgentMeansJoined'
  BY DEF IInv, HeardInOrder, AgentMeansJoined, Health
<1> QED BY <1>1, <1>4, <1>5, <1>6 DEF IInv

LEMMA NextInv == IInv /\ [Next]_vars => IInv'
<1> SUFFICES ASSUME IInv, [Next]_vars PROVE IInv'
  OBVIOUS
<1>1. CASE Create
  BY <1>1, FlagsKeep DEF Create
<1>2. CASE HeartbeatMissed
  BY <1>2, FlagsKeep DEF HeartbeatMissed
<1>3. CASE UNCHANGED vars
  BY <1>3, FlagsKeep DEF vars, IInv, TypeOK
<1>4. ASSUME NEW t \in Token, TokenExpires(t) PROVE IInv'
  BY <1>4, TokenExpiresKeeps
<1>5. ASSUME NEW r \in Request, Arrive(r) PROVE IInv'
  BY <1>5, BeginKeeps
<1>6. ASSUME NEW r \in Request, Lock(r) PROVE IInv'
  BY <1>6, LockKeeps
<1>7. ASSUME NEW r \in Request, Statement(r) PROVE IInv'
  BY <1>7, IssueChecksKeeps, IssueCommitsKeeps, EnrollFindsKeeps, EnrollChecksKeeps,
     EnrollCommitsKeeps, HeartbeatFindsKeeps, HeartbeatCommitsKeeps DEF Statement
<1>8. ASSUME NEW r \in Request, RollBack(r) PROVE IInv'
  <2>1. End(r) /\ UNCHANGED tables
    BY <1>8 DEF RollBack, tables
  <2> QED BY <2>1, EndKeeps
<1> QED BY <1>1, <1>2, <1>3, <1>4, <1>5, <1>6, <1>7, <1>8 DEF Next

\* The invariant holds of every reachable state.
THEOREM Invariance == Spec => []IInv
<1> QED BY InitInv, NextInv, PTL DEF Spec

\* The tables and the transactions stay well formed; in particular no status
\* but those of the lifecycle is ever stored.
THEOREM TypeCorrect == Spec => []TypeOK
<1>1. IInv => TypeOK
  BY DEF IInv
<1> QED BY <1>1, Invariance, PTL

\* Whatever administrators and installers do at the same time, one join token
\* at most can be exchanged.
THEOREM OneOutstandingAlways == Spec => []OneOutstanding
<1>1. IInv => OneOutstanding
  BY DEF IInv
<1> QED BY <1>1, Invariance, PTL

\* An exchange and a revocation of one token exclude each other.
THEOREM ExchangedOrRevokedAlways == Spec => []ExchangedOrRevoked
<1>1. IInv => ExchangedOrRevoked
  BY DEF IInv
<1> QED BY <1>1, Invariance, PTL

\* A heartbeat past its credential check is of the credential in force.
THEOREM OnlyHolderIsHeardAlways == Spec => []OnlyHolderIsHeard
<1>1. IInv => OnlyHolderIsHeard
  BY DEF IInv, OnlyHolderIsHeard, At, Orderly, HeartbeatOrderly
<1> QED BY <1>1, Invariance, PTL

\* ONLINE and ERROR take two heartbeats of the credential in force.
THEOREM StatusIsObservedAlways == Spec => []StatusIsObserved
<1>1. IInv => StatusIsObserved
  BY DEF IInv, TypeOK, HeardInOrder, StatusIsObserved, Shown, Status, Health
<1> QED BY <1>1, Invariance, PTL

-----------------------------------------------------------------------------
(* Deadlocks *)

\* The rows a transaction can have locked by its stage.
MayHold(r) ==
  CASE tx[r].kind = "issue" ->
         IF tx[r].stage = "server" THEN {"server"} ELSE {"server"} \cup Token
    [] tx[r].kind = "enroll" ->
         IF tx[r].stage = "token" THEN {tx[r].key}
         ELSE IF tx[r].stage = "server" THEN {tx[r].key, "server"}
         ELSE {tx[r].key, "server"} \cup Credential
    [] tx[r].kind = "heartbeat" ->
         IF tx[r].stage = "agent" THEN {tx[r].key} ELSE {tx[r].key, "server"}

HInv == \A r \in DOMAIN tx : tx[r].held \subseteq MayHold(r)

\* What a transaction asks for it may hold.
LEMMA WantedInMayHold ==
  ASSUME IInv, NEW r \in DOMAIN tx
  PROVE  Wanted(r) \subseteq MayHold(r)
<1>1. tx[r].kind \in {"issue", "enroll", "heartbeat"} /\ Orderly(r)
  BY DEF IInv, TypeOK, Transaction
<1>2. Outstanding \subseteq Token /\ DOMAIN agents \subseteq Credential
  BY DEF IInv, TypeOK, Outstanding
<1>3. CASE tx[r].kind = "issue"
  BY <1>1, <1>2, <1>3 DEF Orderly, IssueOrderly, Wanted, MayHold
<1>4. CASE tx[r].kind = "enroll"
  BY <1>1, <1>2, <1>4 DEF Orderly, EnrollOrderly, Wanted, MayHold
<1>5. CASE tx[r].kind = "heartbeat"
  BY <1>1, <1>2, <1>5 DEF Orderly, HeartbeatOrderly, Wanted, MayHold
<1> QED BY <1>1, <1>3, <1>4, <1>5

LEMMA MayHoldKept ==
  ASSUME HInv, NEW q \in DOMAIN tx, tx'[q] = tx[q]
  PROVE  tx'[q].held \subseteq MayHold(q)'
BY DEF HInv, MayHold

LEMMA EndHolds ==
  ASSUME HInv, NEW r, End(r) PROVE HInv'
<1>1. \A q \in DOMAIN tx' : q \in DOMAIN tx /\ tx'[q] = tx[q]
  BY DEF End
<1> QED BY <1>1, MayHoldKept DEF HInv

\* A later stage may hold what an earlier one held.
LEMMA GotoHolds ==
  ASSUME IInv, HInv, NEW r \in DOMAIN tx, NEW stage,
         \/ tx[r].kind = "issue" /\ stage = "revoke"
         \/ tx[r].kind = "enroll" /\ tx[r].stage = "token" /\ stage = "server"
         \/ tx[r].kind = "enroll" /\ tx[r].stage = "server" /\ stage = "agent"
         \/ tx[r].kind = "heartbeat" /\ stage = "server",
         Goto(r, stage)
  PROVE  HInv'
<1>1. /\ DOMAIN tx' = DOMAIN tx
      /\ \A q \in DOMAIN tx \ {r} : tx'[q] = tx[q]
      /\ tx'[r].held = tx[r].held /\ tx'[r].kind = tx[r].kind
      /\ tx'[r].key = tx[r].key /\ tx'[r].stage = stage
  BY DEF Goto, IInv, TypeOK, Transaction
<1>2. tx'[r].held \subseteq MayHold(r)'
  BY <1>1 DEF HInv, MayHold
<1> QED BY <1>1, <1>2, MayHoldKept DEF HInv

LEMMA LockHolds ==
  ASSUME IInv, HInv, NEW r, Lock(r) PROVE HInv'
<1>1. PICK row \in Wanted(r) : tx' = [tx EXCEPT ![r].held = @ \cup {row}]
  BY DEF Lock
<1>2. /\ r \in DOMAIN tx /\ DOMAIN tx' = DOMAIN tx
      /\ \A q \in DOMAIN tx \ {r} : tx'[q] = tx[q]
      /\ tx'[r].held = tx[r].held \cup {row} /\ tx'[r].kind = tx[r].kind
      /\ tx'[r].key = tx[r].key /\ tx'[r].stage = tx[r].stage
  BY <1>1 DEF Lock, IInv, TypeOK, Transaction
<1>3. MayHold(r)' = MayHold(r)
  BY <1>2 DEF MayHold
<1>4. tx'[r].held \subseteq MayHold(r)'
  BY <1>1, <1>2, <1>3, WantedInMayHold DEF HInv
<1> QED BY <1>2, <1>4, MayHoldKept DEF HInv

LEMMA NextHolds == IInv /\ HInv /\ [Next]_vars => HInv'
<1> SUFFICES ASSUME IInv, HInv, [Next]_vars PROVE HInv'
  OBVIOUS
<1>1. CASE UNCHANGED tx
  BY <1>1 DEF HInv, MayHold
<1>2. ASSUME NEW r, End(r) PROVE HInv'
  BY <1>2, EndHolds
<1>3. ASSUME NEW r \in Request, Arrive(r) PROVE HInv'
  <2>1. PICK kind, key, stage : Begin(r, kind, key, stage)
    BY <1>3 DEF Arrive
  <2>2. /\ DOMAIN tx' = DOMAIN tx \cup {r} /\ tx'[r].held = {}
        /\ \A q \in DOMAIN tx : tx'[q] = tx[q]
    BY <2>1 DEF Begin
  <2> QED BY <2>2, MayHoldKept DEF HInv
<1>4. ASSUME NEW r \in Request, Lock(r) PROVE HInv'
  BY <1>4, LockHolds
<1>5. ASSUME NEW r \in Request, IssueChecks(r) PROVE HInv'
  BY <1>2, <1>5, GotoHolds DEF IssueChecks, At
<1>6. ASSUME NEW r \in Request, EnrollFinds(r) PROVE HInv'
  BY <1>6, GotoHolds DEF EnrollFinds, At
<1>7. ASSUME NEW r \in Request, EnrollChecks(r) PROVE HInv'
  BY <1>2, <1>7, GotoHolds DEF EnrollChecks, At
<1>8. ASSUME NEW r \in Request, HeartbeatFinds(r) PROVE HInv'
  BY <1>2, <1>8, GotoHolds DEF HeartbeatFinds, At
<1>9. ASSUME NEW r \in Request,
             IssueCommits(r) \/ EnrollCommits(r) \/ HeartbeatCommits(r) \/ RollBack(r)
      PROVE  HInv'
  BY <1>2, <1>9 DEF IssueCommits, EnrollCommits, HeartbeatCommits, RollBack
<1> QED BY <1>1, <1>3, <1>4, <1>5, <1>6, <1>7, <1>8, <1>9
           DEF Next, Statement, Create, TokenExpires, HeartbeatMissed, vars

\* Who waits for the first row it locks holds nothing; who waits for the server
\* holds its key; the others that wait hold the server.
LEMMA WaiterHolds ==
  ASSUME IInv, HInv, NEW q \in DOMAIN tx, NEW r \in DOMAIN tx, Blocks(q, r)
  PROVE  /\ \/ At(r, "issue", "server") /\ tx[r].held = {} /\ Wanted(r) = {"server"}
            \/ At(r, "issue", "revoke") /\ "server" \in tx[r].held
                 /\ Wanted(r) = Outstanding
            \/ At(r, "enroll", "token") /\ tx[r].held = {} /\ Wanted(r) = {tx[r].key}
            \/ At(r, "enroll", "server") /\ tx[r].held = {tx[r].key}
                 /\ Wanted(r) = {"server"}
            \/ At(r, "enroll", "agent") /\ "server" \in tx[r].held
                 /\ tx[r].held \subseteq {tx[r].key, "server"} \cup Credential
                 /\ Wanted(r) = DOMAIN agents
            \/ At(r, "heartbeat", "agent") /\ tx[r].held = {}
                 /\ Wanted(r) \subseteq {tx[r].key}
            \/ At(r, "heartbeat", "server") /\ tx[r].held = {tx[r].key}
                 /\ Wanted(r) = {"server"}
         /\ tx[r].kind = "issue" => tx[r].held \subseteq {"server"} \cup Token
         /\ tx[r].kind = "enroll" => tx[r].key \in Token
         /\ tx[r].kind = "heartbeat" => tx[r].key \in Credential
<1>1. tx[r].kind \in {"issue", "enroll", "heartbeat"} /\ Orderly(r)
  BY DEF IInv, TypeOK, Transaction
<1>2. tx[r].held \subseteq MayHold(r) /\ Wanted(r) \ tx[r].held # {}
  BY DEF HInv, Blocks
<1>3. DOMAIN tokens \subseteq Token
  BY DEF IInv, TypeOK
<1>4. CASE tx[r].kind = "issue"
  BY <1>1, <1>2, <1>4 DEF Orderly, IssueOrderly, Wanted, MayHold, At
<1>5. CASE tx[r].kind = "enroll"
  <2>1. /\ tx[r].key \in Token /\ tx[r].stage \in {"token", "server", "agent"}
        /\ tx[r].stage # "token" => tx[r].key \in tx[r].held
        /\ tx[r].stage = "agent" => "server" \in tx[r].held
    BY <1>1, <1>3, <1>5 DEF Orderly, EnrollOrderly
  <2>2. CASE tx[r].stage = "token"
    BY <1>2, <1>5, <2>1, <2>2 DEF Wanted, MayHold, At
  <2>3. CASE tx[r].stage = "server"
    BY <1>2, <1>5, <2>1, <2>3 DEF Wanted, MayHold, At
  <2>4. CASE tx[r].stage = "agent"
    BY <1>2, <1>5, <2>1, <2>4 DEF Wanted, MayHold, At
  <2> QED BY <2>1, <2>2, <2>3, <2>4
<1>6. CASE tx[r].kind = "heartbeat"
  <2>1. /\ tx[r].key \in Credential /\ tx[r].stage \in {"agent", "server"}
        /\ tx[r].stage = "server" => tx[r].key \in tx[r].held
    BY <1>1, <1>6 DEF Orderly, HeartbeatOrderly
  <2>2. CASE tx[r].stage = "agent"
    BY <1>2, <1>6, <2>1, <2>2 DEF Wanted, MayHold, At
  <2>3. CASE tx[r].stage = "server"
    BY <1>2, <1>6, <2>1, <2>3 DEF Wanted, MayHold, At
  <2> QED BY <2>1, <2>2, <2>3
<1> QED BY <1>1, <1>4, <1>5, <1>6

\* Somebody in a circle holds the server.
LEMMA CircleHoldsServer ==
  ASSUME IInv, HInv, NEW gang \in SUBSET DOMAIN tx, gang # {}, Deadlocked(gang)
  PROVE  \E s \in gang : "server" \in tx[s].held
<1> SUFFICES ASSUME \A s \in gang : "server" \notin tx[s].held PROVE FALSE
  OBVIOUS
<1>1. \A r \in gang : \E q \in gang : Blocks(q, r)
  BY DEF Deadlocked
\* Nobody waits for the server then: every one waits for its first row.
<1>2. ASSUME NEW r \in gang
      PROVE  tx[r].held = {}
  <2>1. PICK q \in gang : Blocks(q, r)
    BY <1>1
  <2>2. "server" \notin tx[q].held
    OBVIOUS
  <2>3. Wanted(r) # {"server"}
    BY <2>1, <2>2 DEF Blocks
  <2> QED BY <2>1, <2>3, WaiterHolds
<1>3. PICK r \in gang, q \in gang : Blocks(q, r)
  BY <1>1
<1>4. tx[q].held # {}
  BY <1>3 DEF Blocks
<1> QED BY <1>2, <1>4

LEMMA CircleIsMixed ==
  ASSUME IInv, HInv, NEW gang \in SUBSET DOMAIN tx, gang # {}, Deadlocked(gang)
  PROVE  \E q, r \in gang :
           /\ tx[q].kind = "enroll" /\ tx[r].kind # "enroll"
           /\ Blocks(q, r) /\ Blocks(r, q)
<1>1. \A r \in gang : \E q \in gang : Blocks(q, r)
  BY DEF Deadlocked
<1>2. PICK s \in gang : "server" \in tx[s].held
  BY CircleHoldsServer
<1>3. PICK q \in gang : Blocks(q, s)
  BY <1>1
<1>4. PICK row : row \in tx[q].held /\ row \in Wanted(s) /\ row \notin tx[s].held
  BY <1>3 DEF Blocks
<1>5. q # s /\ "server" \notin tx[q].held
  BY <1>2, <1>4 DEF IInv, Exclusive
<1>6. PICK p \in gang : Blocks(p, q)
  BY <1>1
<1>7. /\ Outstanding \subseteq Token /\ DOMAIN agents \subseteq Credential
      /\ "server" \notin Token /\ "server" \notin Credential
      /\ Token \cap Credential = {}
  BY RowsAssumption DEF IInv, TypeOK, Outstanding
\* What the holder of the server waits for is held by one who waits for it.
<1>8. \/ At(q, "enroll", "server") /\ tx[q].key \in Token
      \/ At(q, "heartbeat", "server") /\ tx[q].key \in Credential
  BY <1>4, <1>5, <1>6, WaiterHolds DEF At
<1>9. tx[q].held = {tx[q].key} /\ Wanted(q) = {"server"}
  BY <1>6, <1>8, WaiterHolds DEF At
<1>10. Blocks(s, q)
  BY <1>2, <1>5, <1>9 DEF Blocks
<1>11. \/ At(s, "issue", "revoke") /\ Wanted(s) = Outstanding
       \/ At(s, "enroll", "agent") /\ Wanted(s) = DOMAIN agents
  <2>1. tx[s].kind \in {"enroll"} => tx[s].key # "server"
    BY <1>3, <1>7, WaiterHolds
  <2>2. tx[s].kind \in {"heartbeat"} => tx[s].key # "server"
    BY <1>3, <1>7, WaiterHolds
  <2> QED BY <1>2, <1>3, <2>1, <2>2, WaiterHolds DEF At
<1>12. row = tx[q].key
  BY <1>4, <1>9
<1>13. CASE At(s, "issue", "revoke")
  <2>1. row \in Token
    BY <1>4, <1>7, <1>11, <1>13 DEF At
  <2>2. tx[q].kind = "enroll"
    BY <1>7, <1>8, <1>12, <2>1 DEF At
  <2> QED BY <1>3, <1>10, <1>13, <2>2 DEF At
<1>14. CASE At(s, "enroll", "agent")
  <2>1. row \in Credential
    BY <1>4, <1>7, <1>11, <1>14 DEF At
  <2>2. tx[q].kind = "heartbeat"
    BY <1>7, <1>8, <1>12, <2>1 DEF At
  <2> QED BY <1>3, <1>10, <1>14, <2>2 DEF At
<1> QED BY <1>11, <1>13, <1>14

\* However many connections issue, exchange and hear at once: transactions
\* that wait in a circle contain an exchange that waits for, and is waited for
\* by, an issue or a heartbeat.
THEOREM DeadlocksAlwaysNeedExchange == Spec => []DeadlocksNeedExchange
<1>1. Init => HInv
  BY DEF Init, HInv
<1>2. IInv /\ HInv => DeadlocksNeedExchange
  BY CircleIsMixed DEF DeadlocksNeedExchange
<1> QED BY <1>1, <1>2, InitInv, NextInv, NextHolds, PTL DEF Spec

-----------------------------------------------------------------------------
(* Refinement *)

LEMMA InitLifecycle == Init => Lifecycle!Init
BY DEF Init, Lifecycle!Init, Outstanding

LEMMA StepLifecycle ==
  ASSUME IInv, [Next]_vars
  PROVE  [Lifecycle!Next]_(Lifecycle!vars)
<1>1. ASSUME UNCHANGED tables PROVE UNCHANGED Lifecycle!vars
  BY <1>1 DEF tables, Lifecycle!vars, Outstanding
<1>2. CASE Create
  BY <1>2 DEF Create, Lifecycle!Next, Lifecycle!Create, Outstanding
<1>3. CASE HeartbeatMissed \/ UNCHANGED vars
  BY <1>3 DEF HeartbeatMissed, vars, Lifecycle!vars, Outstanding
<1>4. ASSUME NEW t \in Token, TokenExpires(t) PROVE UNCHANGED Lifecycle!vars
  <2>1. tokens \in [DOMAIN tokens -> JoinToken]
    BY DEF IInv, TypeOK
  <2>2. /\ DOMAIN tokens' = DOMAIN tokens
        /\ \A u \in DOMAIN tokens : /\ tokens'[u].used = tokens[u].used
                                    /\ tokens'[u].revoked = tokens[u].revoked
    BY <1>4, <2>1 DEF TokenExpires, JoinToken
  <2> QED BY <1>4, <2>2 DEF TokenExpires, Lifecycle!vars, Outstanding
<1>5. ASSUME NEW r \in Request, IssueCommits(r) PROVE Lifecycle!Issue
  <2>1. server \in Joinable
    BY <1>5 DEF IssueCommits, At, IInv, Orderly, IssueOrderly
  <2>2. server \in Lifecycle!Joinable
    BY <2>1 DEF Joinable, Lifecycle!Joinable
  <2>3. UNCHANGED <<server, minted, agents, heard>>
    BY <1>5 DEF IssueCommits
  <2> QED BY <1>5, <2>2, <2>3, IssueOutstanding DEF Lifecycle!Issue
<1>6. ASSUME NEW r \in Request, EnrollCommits(r) PROVE Lifecycle!Enroll
  <2>1. PICK c \in Credential \ minted :
          agents' = [a \in {c} |-> "REGISTERED"] /\ minted' = minted \cup {c}
    BY <1>6 DEF EnrollCommits
  <2>2. DOMAIN agents' = {c}
    BY <2>1
  <2>3. server' = "REGISTERED" /\ heard' = 0
    BY <1>6 DEF EnrollCommits
  <2> QED BY <1>6, <2>1, <2>2, <2>3, EnrollOutstanding DEF Lifecycle!Enroll
<1>7. ASSUME NEW r \in Request, HeartbeatCommits(r) PROVE Lifecycle!Observe
  <2>1. DOMAIN agents' = DOMAIN agents /\ UNCHANGED <<tokens, minted>>
    BY <1>7 DEF HeartbeatCommits, IInv, TypeOK
  <2> QED BY <1>7, <2>1, HeartbeatMoves DEF Lifecycle!Observe, Outstanding
<1>8. ASSUME NEW r \in Request,
             Arrive(r) \/ Lock(r) \/ RollBack(r)
      PROVE  UNCHANGED Lifecycle!vars
  BY <1>1, <1>8 DEF Arrive, Begin, Lock, RollBack, tables
<1>9. ASSUME NEW r \in Request, IssueChecks(r) \/ EnrollFinds(r) \/ EnrollChecks(r)
                                  \/ HeartbeatFinds(r)
      PROVE  UNCHANGED Lifecycle!vars
  BY <1>1, <1>9 DEF IssueChecks, EnrollFinds, EnrollChecks, HeartbeatFinds, tables
<1> QED BY <1>2, <1>3, <1>4, <1>5, <1>6, <1>7, <1>8, <1>9
           DEF Next, Statement, Lifecycle!Next

\* The transactions, interleaved lock by lock, implement the lifecycle: their
\* effect is as if they had run one at a time.
THEOREM ImplementsLifecycle == Spec => FollowsLifecycle
<1> QED BY InitLifecycle, StepLifecycle, Invariance, PTL
        DEF Spec, FollowsLifecycle, Lifecycle!Spec

=============================================================================
