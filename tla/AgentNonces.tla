------------------------------ MODULE AgentNonces ------------------------------
(***************************************************************************)
(* Heartbeats that arrive more than once, late or out of order: the replay *)
(* protection of ServerRepository.heartbeat.  A request carries the time   *)
(* and a random id of its agent; the master refuses one that is too old or *)
(* too far ahead, remembers the ids it accepted, and forgets them again.   *)
(*                                                                         *)
(* The rest of the handler is in ServerEnrollment.  The primary key of the *)
(* nonces is left out: the row lock of the agent already orders the        *)
(* deliveries of one request.  PostgreSQL and the API share one clock.     *)
(***************************************************************************)
EXTENDS Integers

CONSTANTS
  Agent, Message,   \* agents, and the requests they make, each with its id
  Connection,       \* bound: requests served at one time
  Window,           \* age, and advance, up to which a timestamp is accepted
  Retention,        \* age up to which a nonce is kept
  Patience,         \* bound: time from the timestamp check to the commit
  MaxNow            \* bound: the clock

\* 300 s twice, and 86 400 s: room for a delivery that takes 85 800 s.  The
\* code sets no limit on the wait for a connection, a lock or a statement.
ASSUME RetentionAssumption ==
  /\ Window \in Nat /\ Retention \in Nat /\ Patience \in Nat /\ MaxNow \in Nat
  /\ 2 * Window + Patience <= Retention

VARIABLES
  now,       \* the clock of the master
  sent,      \* requests in the network, which may deliver each at any time,
             \* any number of times, or never: message -> sender, timestamp
  nonces,    \* table agent_request_nonces: message -> received_at
  work,      \* the deliveries being served
  accepted   \* history: how often a request was accepted, up to two

vars == <<now, sent, nonces, work, accepted>>

Request == [from : Agent, timestamp : 0..MaxNow]

\* begun is the time of BEGIN, which received_at defaults to.
Delivery == [message : Message, checked : 0..MaxNow, begun : 0..MaxNow,
             stage : {"fresh", "begun", "locked", "unseen"}]

\* Mutant: a timestamp ahead of the clock is taken as it is.
NotTooOld(timestamp) == now - timestamp <= Window

Fresh(timestamp) == now - timestamp <= Window /\ timestamp - now <= Window

At(r, stage) == r \in DOMAIN work /\ work[r].stage = stage
From(r) == sent[work[r].message].from
Goto(r, stage) == work' = [work EXCEPT ![r].stage = stage]
End(r) == work' = [q \in DOMAIN work \ {r} |-> work[q]]

\* The nonces that the DELETE leaves, of a table with these rows.
Retained(table) ==
  [m \in {n \in DOMAIN table : table[n] >= now - Retention} |-> table[m]]

-----------------------------------------------------------------------------
\* The clock of an agent may be wrong.
Send(m) ==
  /\ m \notin DOMAIN sent
  /\ \E request \in Request :
       sent' = [n \in DOMAIN sent \cup {m} |-> IF n = m THEN request ELSE sent[n]]
  /\ UNCHANGED <<now, nonces, work, accepted>>

\* The check before the transaction: AGENT_REQUEST_EXPIRED changes nothing.
Deliver(r, m) ==
  /\ r \notin DOMAIN work /\ m \in DOMAIN sent
  /\ work' = IF Fresh(sent[m].timestamp)
             THEN [q \in DOMAIN work \cup {r} |->
                     IF q = r THEN [message |-> m, checked |-> now, begun |-> now, stage |-> "fresh"]
                     ELSE work[q]]
             ELSE work
  /\ UNCHANGED <<now, sent, nonces, accepted>>

\* A connection of the pool is free.
BeginTransaction(r) ==
  /\ At(r, "fresh")
  /\ work' = [work EXCEPT ![r].begun = now, ![r].stage = "begun"]
  /\ UNCHANGED <<now, sent, nonces, accepted>>

LockAgent(r) ==
  /\ At(r, "begun")
  /\ \A q \in DOMAIN work : work[q].stage \in {"locked", "unseen"} => From(q) # From(r)
  /\ Goto(r, "locked")
  /\ UNCHANGED <<now, sent, nonces, accepted>>

ReplayCheck(r) ==
  /\ At(r, "locked")
  /\ IF work[r].message \in DOMAIN nonces THEN End(r) ELSE Goto(r, "unseen")
  /\ UNCHANGED <<now, sent, nonces, accepted>>

\* The nonce is inserted, old ones are deleted, and the rest commits.
Accept(r) ==
  /\ At(r, "unseen")
  /\ nonces' = Retained([m \in DOMAIN nonces \cup {work[r].message} |->
                           IF m = work[r].message THEN work[r].begun ELSE nonces[m]])
  /\ accepted' = [accepted EXCEPT ![work[r].message] = IF @ = 0 THEN 1 ELSE 2]
  /\ End(r)
  /\ UNCHANGED <<now, sent>>

\* The credential was replaced, a statement fails, the API dies.
RollBack(r) ==
  /\ r \in DOMAIN work
  /\ End(r)
  /\ UNCHANGED <<now, sent, nonces, accepted>>

Tick ==
  /\ now < MaxNow /\ now' = now + 1
  /\ \A r \in DOMAIN work : now < work[r].checked + Patience
  /\ UNCHANGED <<sent, nonces, work, accepted>>

Init ==
  /\ now = 0
  /\ sent = [m \in {} |-> {}] /\ nonces = [m \in {} |-> 0] /\ work = [r \in {} |-> {}]
  /\ accepted = [m \in Message |-> 0]

Next ==
  \/ \E m \in Message : Send(m)
  \/ \E r \in Connection :
       \/ \E m \in Message : Deliver(r, m)
       \/ BeginTransaction(r) \/ LockAgent(r) \/ ReplayCheck(r) \/ Accept(r)
       \/ RollBack(r)
  \/ Tick

Spec == Init /\ [][Next]_vars

-----------------------------------------------------------------------------
(* Properties *)

\* Types of the table, of the network and of the deliveries.
TypeOK ==
  /\ now \in 0..MaxNow
  /\ DOMAIN sent \subseteq Message /\ sent \in [DOMAIN sent -> Request]
  /\ DOMAIN nonces \subseteq DOMAIN sent /\ nonces \in [DOMAIN nonces -> 0..MaxNow]
  /\ DOMAIN work \subseteq Connection /\ work \in [DOMAIN work -> Delivery]
  /\ \A r \in DOMAIN work : work[r].message \in DOMAIN sent
  /\ accepted \in [Message -> 0..2]

\* A heartbeat counts once, however often and however late it is delivered,
\* although its id is forgotten: by then its timestamp is refused, by every
\* delivery under way too.
AcceptedOnce == \A m \in Message : accepted[m] <= 1

\* The table holds the id of every accepted request whose timestamp would
\* still pass the check.
StillFreshIsRemembered ==
  \A m \in DOMAIN sent :
    accepted[m] > 0 /\ Fresh(sent[m].timestamp) => m \in DOMAIN nonces
=============================================================================
