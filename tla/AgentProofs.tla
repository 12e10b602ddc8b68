----------------------------- MODULE AgentProofs -----------------------------
(***************************************************************************)
(* What the master may believe of an agent.  A heartbeat is accepted once, for *)
(* any number of agents, requests and connections, any clock, and any window, *)
(* retention and patience that RetentionAssumption relates; and the server it *)
(* is about is heard from one host, for any hosts and runs of the installer. *)
(***************************************************************************)
EXTENDS AgentNonces, NodeInstall, Sequences, TLAPS

\* A delivery passed the timestamp check, and is not older than Patience.
TimelyWork ==
  \A r \in DOMAIN work :
    /\ work[r].checked - sent[work[r].message].timestamp <= Window
    /\ sent[work[r].message].timestamp - work[r].checked <= Window
    /\ work[r].checked <= work[r].begun /\ work[r].begun <= now
    /\ now <= work[r].checked + Patience

\* A nonce is not received long before the timestamp of its request.
TimelyNonces ==
  \A m \in DOMAIN nonces : sent[m].timestamp - nonces[m] <= Window

\* No delivery of m passes the check any more, nor is one under way.
Closed(m) == now > sent[m].timestamp + Window + Patience

\* An accepted request is remembered until it can do no harm.
Remembered ==
  \A m \in Message : accepted[m] > 0 =>
    m \in DOMAIN sent /\ (m \in DOMAIN nonces \/ Closed(m))

Locking(r) == work[r].stage \in {"locked", "unseen"}

\* The row lock of an agent.
OneAtATime ==
  \A q, r \in DOMAIN work : Locking(q) /\ Locking(r) /\ From(q) = From(r) => q = r

\* What the replay check found stays true until the commit.
UnseenIsNew ==
  \A r \in DOMAIN work : work[r].stage = "unseen" => accepted[work[r].message] = 0

IInv ==
  /\ TypeOK /\ TimelyWork /\ TimelyNonces /\ Remembered
  /\ OneAtATime /\ UnseenIsNew /\ AcceptedOnce

-----------------------------------------------------------------------------
(* The empty tables satisfy the invariant. *)
LEMMA InitInv == Init => IInv
<1> SUFFICES ASSUME Init PROVE IInv
  OBVIOUS
<1>1. TypeOK
  <2>1. DOMAIN sent = {} /\ DOMAIN nonces = {} /\ DOMAIN work = {}
    BY DEF Init
  <2>2. sent \in [DOMAIN sent -> Request] /\ nonces \in [DOMAIN nonces -> 0..MaxNow]
        /\ work \in [DOMAIN work -> Delivery]
    BY <2>1 DEF Init
  <2>3. now \in 0..MaxNow /\ accepted \in [Message -> 0..2]
    BY RetentionAssumption DEF Init
  <2> QED BY <2>1, <2>2, <2>3 DEF TypeOK
<1>2. DOMAIN nonces = {} /\ DOMAIN work = {} /\ \A m \in Message : accepted[m] = 0
  BY DEF Init
<1> QED
  BY <1>1, <1>2 DEF IInv, TimelyWork, TimelyNonces, Remembered, OneAtATime, UnseenIsNew, AcceptedOnce

(* A delivery that ends leaves the others as they were. *)
LEMMA EndKeeps ==
  ASSUME IInv, NEW r \in DOMAIN work, End(r), UNCHANGED <<now, sent>>
  PROVE  /\ DOMAIN work' = DOMAIN work \ {r}
         /\ \A q \in DOMAIN work' : work'[q] = work[q]
         /\ work' \in [DOMAIN work' -> Delivery]
         /\ \A q \in DOMAIN work' : work[q].message \in DOMAIN sent
         /\ TimelyWork' /\ OneAtATime'
<1>1. DOMAIN work' = DOMAIN work \ {r} /\ \A q \in DOMAIN work' : work'[q] = work[q]
  BY DEF End
<1>2. work' \in [DOMAIN work' -> Delivery]
  BY <1>1 DEF End, IInv, TypeOK
<1>3. \A q \in DOMAIN work' : work[q].message \in DOMAIN sent
  BY <1>1 DEF IInv, TypeOK
<1>4. TimelyWork'
  BY <1>1 DEF IInv, TimelyWork
<1>5. OneAtATime'
  BY <1>1 DEF IInv, OneAtATime, Locking, From
<1> QED BY <1>1, <1>2, <1>3, <1>4, <1>5

LEMMA SendInv == ASSUME IInv, NEW m \in Message, Send(m) PROVE IInv'
<1> USE DEF IInv
<1>1. PICK request \in Request :
        sent' = [n \in DOMAIN sent \cup {m} |-> IF n = m THEN request ELSE sent[n]]
  BY DEF Send
<1>2. /\ m \notin DOMAIN sent /\ DOMAIN sent' = DOMAIN sent \cup {m}
      /\ \A n \in DOMAIN sent : sent'[n] = sent[n]
      /\ now' = now /\ nonces' = nonces /\ work' = work /\ accepted' = accepted
  BY <1>1 DEF Send
<1>3. TypeOK'
  <2>1. sent' \in [DOMAIN sent' -> Request]
    BY <1>1, <1>2 DEF TypeOK
  <2> QED BY <2>1, <1>2 DEF TypeOK
<1>4. \A r \in DOMAIN work : work[r].message \in DOMAIN sent /\ sent'[work[r].message] = sent[work[r].message]
  BY <1>2 DEF TypeOK
<1>5. TimelyWork'
  BY <1>2, <1>4 DEF TimelyWork
<1>6. TimelyNonces'
  BY <1>2 DEF TimelyNonces, TypeOK
<1>7. Remembered'
  BY <1>2 DEF Remembered, Closed, TypeOK
<1>8. OneAtATime'
  BY <1>2, <1>4 DEF OneAtATime, Locking, From
<1>9. UnseenIsNew' /\ AcceptedOnce'
  BY <1>2 DEF UnseenIsNew, AcceptedOnce
<1> QED BY <1>3, <1>5, <1>6, <1>7, <1>8, <1>9

LEMMA DeliverInv ==
  ASSUME IInv, NEW r \in Connection, NEW m \in Message, Deliver(r, m) PROVE IInv'
<1> USE DEF IInv
<1>1. CASE ~Fresh(sent[m].timestamp)
  <2>1. UNCHANGED vars
    BY <1>1 DEF Deliver, vars
  <2> QED
    BY <2>1 DEF vars, TypeOK, TimelyWork, TimelyNonces, Remembered, Closed, OneAtATime,
                Locking, From, UnseenIsNew, AcceptedOnce
<1>2. CASE Fresh(sent[m].timestamp)
  <2> DEFINE d == [message |-> m, checked |-> now, begun |-> now, stage |-> "fresh"]
  <2>1. /\ r \notin DOMAIN work /\ m \in DOMAIN sent
        /\ work' = [q \in DOMAIN work \cup {r} |-> IF q = r THEN d ELSE work[q]]
        /\ now' = now /\ sent' = sent /\ nonces' = nonces /\ accepted' = accepted
    BY <1>2 DEF Deliver
  <2>2. /\ DOMAIN work' = DOMAIN work \cup {r} /\ work'[r] = d
        /\ \A q \in DOMAIN work : q # r /\ work'[q] = work[q]
    BY <2>1
  <2>3. d \in Delivery
    BY DEF TypeOK, Delivery
  <2>4. TypeOK'
    <3>1. work' \in [DOMAIN work' -> Delivery]
      BY <2>1, <2>3 DEF TypeOK
    <3>2. \A q \in DOMAIN work' : work'[q].message \in DOMAIN sent
      BY <2>1, <2>2 DEF TypeOK
    <3> QED BY <2>1, <2>2, <3>1, <3>2 DEF TypeOK
  <2>5. TimelyWork'
    <3>1. /\ now - sent[m].timestamp <= Window /\ sent[m].timestamp - now <= Window
          /\ now \in Int /\ now <= now + Patience
      BY <1>2, RetentionAssumption DEF Fresh, TypeOK
    <3>2. ASSUME NEW q \in DOMAIN work', q = r
          PROVE  /\ work'[q].checked - sent[work'[q].message].timestamp <= Window
                 /\ sent[work'[q].message].timestamp - work'[q].checked <= Window
                 /\ work'[q].checked <= work'[q].begun /\ work'[q].begun <= now
                 /\ now <= work'[q].checked + Patience
      BY <3>1, <3>2, <2>2
    <3> QED BY <3>2, <2>1, <2>2 DEF TimelyWork
  <2>6. TimelyNonces' /\ Remembered' /\ AcceptedOnce'
    BY <2>1 DEF TimelyNonces, Remembered, Closed, AcceptedOnce
  <2>7. OneAtATime'
    BY <2>1, <2>2 DEF OneAtATime, Locking, From
  <2>8. UnseenIsNew'
    BY <2>1, <2>2 DEF UnseenIsNew
  <2> QED BY <2>4, <2>5, <2>6, <2>7, <2>8
<1> QED BY <1>1, <1>2

LEMMA BeginInv ==
  ASSUME IInv, NEW r \in Connection, BeginTransaction(r) PROVE IInv'
<1> USE DEF IInv
<1>1. /\ r \in DOMAIN work /\ work[r].stage = "fresh" /\ work[r] \in Delivery
      /\ now' = now /\ sent' = sent /\ nonces' = nonces /\ accepted' = accepted
  BY DEF BeginTransaction, At, TypeOK
<1>2. /\ DOMAIN work' = DOMAIN work /\ \A q \in DOMAIN work : q # r => work'[q] = work[q]
      /\ work'[r] = [work[r] EXCEPT !.begun = now, !.stage = "begun"]
  BY <1>1 DEF BeginTransaction
<1>3. /\ work'[r].message = work[r].message /\ work'[r].checked = work[r].checked
      /\ work'[r].begun = now /\ work'[r].stage = "begun" /\ work'[r] \in Delivery
  BY <1>1, <1>2 DEF Delivery, TypeOK
<1>4. \A q \in DOMAIN work : work'[q] \in Delivery /\ work'[q].message = work[q].message
  BY <1>2, <1>3 DEF TypeOK
<1>5. TypeOK'
  <2>1. work' \in [DOMAIN work' -> Delivery]
    BY <1>2, <1>4 DEF BeginTransaction
  <2> QED BY <1>1, <1>2, <1>4, <2>1 DEF TypeOK
<1>6. TimelyWork'
  <2>1. work[r].checked <= now /\ now <= now
    BY <1>1 DEF TimelyWork, TypeOK, Delivery
  <2> QED BY <1>1, <1>2, <1>3, <2>1 DEF TimelyWork
<1>7. TimelyNonces' /\ Remembered' /\ AcceptedOnce'
  BY <1>1 DEF TimelyNonces, Remembered, Closed, AcceptedOnce
<1>8. OneAtATime'
  BY <1>1, <1>2, <1>3, <1>4 DEF OneAtATime, Locking, From
<1>9. UnseenIsNew'
  <2>1. \A q \in DOMAIN work' : work'[q].stage = "unseen" => q # r /\ work'[q] = work[q]
    BY <1>2, <1>3
  <2>2. \A q \in DOMAIN work : work[q].stage = "unseen" => accepted[work[q].message] = 0
    BY DEF UnseenIsNew
  <2> QED BY <1>1, <1>2, <2>1, <2>2 DEF UnseenIsNew
<1> QED BY <1>5, <1>6, <1>7, <1>8, <1>9

(* Moving on to another stage keeps what does not name the stage. *)
LEMMA GotoKeeps ==
  ASSUME IInv, NEW r \in DOMAIN work, NEW stage \in {"locked", "unseen"}, Goto(r, stage),
         UNCHANGED <<now, sent, nonces, accepted>>
  PROVE  /\ DOMAIN work' = DOMAIN work /\ work'[r].stage = stage
         /\ \A q \in DOMAIN work : work'[q].message = work[q].message
         /\ \A q \in DOMAIN work : q # r => work'[q] = work[q]
         /\ TypeOK' /\ TimelyWork' /\ TimelyNonces' /\ Remembered' /\ AcceptedOnce'
<1> USE DEF IInv
<1>1. work[r] \in Delivery
  BY DEF TypeOK
<1>2. /\ DOMAIN work' = DOMAIN work /\ \A q \in DOMAIN work : q # r => work'[q] = work[q]
      /\ work'[r] = [work[r] EXCEPT !.stage = stage]
  BY DEF Goto
<1>3. /\ work'[r].message = work[r].message /\ work'[r].checked = work[r].checked
      /\ work'[r].begun = work[r].begun /\ work'[r].stage = stage /\ work'[r] \in Delivery
  BY <1>1, <1>2 DEF Delivery
<1>4. \A q \in DOMAIN work : work'[q] \in Delivery /\ work'[q].message = work[q].message
  BY <1>2, <1>3 DEF TypeOK
<1>5. TypeOK'
  <2>1. work' \in [DOMAIN work' -> Delivery]
    BY <1>2, <1>4 DEF Goto
  <2> QED BY <1>2, <1>4, <2>1 DEF TypeOK
<1>6. TimelyWork'
  BY <1>2, <1>3 DEF TimelyWork
<1>7. TimelyNonces' /\ Remembered' /\ AcceptedOnce'
  BY DEF TimelyNonces, Remembered, Closed, AcceptedOnce
<1> QED BY <1>2, <1>3, <1>4, <1>5, <1>6, <1>7

LEMMA LockInv == ASSUME IInv, NEW r \in Connection, LockAgent(r) PROVE IInv'
<1>1. r \in DOMAIN work /\ Goto(r, "locked") /\ UNCHANGED <<now, sent, nonces, accepted>>
  BY DEF LockAgent, At
<1>2. /\ DOMAIN work' = DOMAIN work /\ work'[r].stage = "locked"
      /\ \A q \in DOMAIN work : work'[q].message = work[q].message
      /\ \A q \in DOMAIN work : q # r => work'[q] = work[q]
      /\ TypeOK' /\ TimelyWork' /\ TimelyNonces' /\ Remembered' /\ AcceptedOnce'
  BY <1>1, GotoKeeps
<1>3. \A q \in DOMAIN work : From(q)' = From(q)
  BY <1>1, <1>2 DEF From
<1>4. \A q \in DOMAIN work : Locking(q) => From(q) # From(r)
  BY DEF LockAgent, Locking
<1>5. OneAtATime'
  BY <1>2, <1>3, <1>4 DEF OneAtATime, Locking, IInv
<1>6. UnseenIsNew'
  BY <1>1, <1>2 DEF UnseenIsNew, IInv
<1> QED BY <1>2, <1>5, <1>6 DEF IInv

\* An id that is not in the table was not accepted: a request that was, and
\* is forgotten, is closed, and a delivery under way is of none such.
LEMMA CheckInv == ASSUME IInv, NEW r \in Connection, ReplayCheck(r) PROVE IInv'
<1>1. /\ r \in DOMAIN work /\ work[r].stage = "locked"
      /\ UNCHANGED <<now, sent, nonces, accepted>>
  BY DEF ReplayCheck, At
<1>2. CASE work[r].message \in DOMAIN nonces
  <2>1. End(r)
    BY <1>2 DEF ReplayCheck
  <2>2. /\ DOMAIN work' = DOMAIN work \ {r}
        /\ \A q \in DOMAIN work' : work'[q] = work[q]
        /\ work' \in [DOMAIN work' -> Delivery]
        /\ \A q \in DOMAIN work' : work[q].message \in DOMAIN sent
        /\ TimelyWork' /\ OneAtATime'
    BY <1>1, <2>1, EndKeeps
  <2>3. TypeOK'
    BY <1>1, <2>2 DEF IInv, TypeOK
  <2>4. TimelyNonces' /\ Remembered' /\ AcceptedOnce'
    BY <1>1 DEF IInv, TimelyNonces, Remembered, Closed, AcceptedOnce
  <2>5. UnseenIsNew'
    BY <1>1, <2>2 DEF IInv, UnseenIsNew
  <2> QED BY <2>2, <2>3, <2>4, <2>5 DEF IInv
<1>3. CASE work[r].message \notin DOMAIN nonces
  <2>1. Goto(r, "unseen")
    BY <1>3 DEF ReplayCheck
  <2>2. /\ DOMAIN work' = DOMAIN work /\ work'[r].stage = "unseen"
        /\ \A q \in DOMAIN work : work'[q].message = work[q].message
        /\ \A q \in DOMAIN work : q # r => work'[q] = work[q]
        /\ TypeOK' /\ TimelyWork' /\ TimelyNonces' /\ Remembered' /\ AcceptedOnce'
    BY <1>1, <2>1, GotoKeeps
  <2>3. \A q \in DOMAIN work : From(q)' = From(q) /\ (Locking(q)' <=> Locking(q))
    BY <1>1, <2>2 DEF From, Locking
  <2>4. OneAtATime'
    BY <2>2, <2>3 DEF OneAtATime, IInv
  <2>5. ~Closed(work[r].message)
    BY <1>1, RetentionAssumption DEF Closed, IInv, TimelyWork, TypeOK, Delivery, Request
  <2>6. accepted[work[r].message] = 0
    BY <1>1, <1>3, <2>5 DEF IInv, Remembered, TypeOK, Delivery
  <2>7. UnseenIsNew'
    BY <1>1, <2>2, <2>6 DEF UnseenIsNew, IInv
  <2> QED BY <2>2, <2>4, <2>7 DEF IInv
<1> QED BY <1>2, <1>3

LEMMA AcceptInv == ASSUME IInv, NEW r \in Connection, Accept(r) PROVE IInv'
<1> DEFINE m == work[r].message
           table == [n \in DOMAIN nonces \cup {m} |-> IF n = m THEN work[r].begun ELSE nonces[n]]
<1>1. /\ r \in DOMAIN work /\ work[r].stage = "unseen" /\ work[r] \in Delivery
      /\ m \in Message /\ m \in DOMAIN sent /\ accepted[m] = 0
      /\ End(r) /\ now' = now /\ sent' = sent /\ nonces' = Retained(table)
  BY DEF Accept, At, IInv, TypeOK, UnseenIsNew, Delivery
<1>2. /\ DOMAIN work' = DOMAIN work \ {r}
      /\ \A q \in DOMAIN work' : work'[q] = work[q]
      /\ work' \in [DOMAIN work' -> Delivery]
      /\ \A q \in DOMAIN work' : work[q].message \in DOMAIN sent
      /\ TimelyWork' /\ OneAtATime'
  BY <1>1, EndKeeps
<1>3. /\ accepted' \in [Message -> 0..2] /\ accepted'[m] = 1
      /\ \A n \in Message : n # m => accepted'[n] = accepted[n]
  BY <1>1 DEF Accept, IInv, TypeOK
<1>4. /\ table \in [DOMAIN table -> 0..MaxNow] /\ DOMAIN table = DOMAIN nonces \cup {m}
      /\ \A n \in DOMAIN table : n \in DOMAIN sent /\ sent[n].timestamp - table[n] <= Window
  <2>1. work[r].begun \in 0..MaxNow /\ sent[m].timestamp - work[r].begun <= Window
    BY <1>1, RetentionAssumption DEF IInv, TimelyWork, TypeOK, Delivery, Request
  <2>2. \A n \in DOMAIN nonces : n \in DOMAIN sent /\ sent[n].timestamp - nonces[n] <= Window
    BY DEF IInv, TypeOK, TimelyNonces
  <2> QED BY <1>1, <2>1, <2>2 DEF IInv, TypeOK
<1> HIDE DEF table
<1>5. /\ DOMAIN nonces' = {n \in DOMAIN table : table[n] >= now - Retention}
      /\ \A n \in DOMAIN nonces' : n \in DOMAIN table /\ nonces'[n] = table[n]
      /\ nonces' \in [DOMAIN nonces' -> 0..MaxNow]
  BY <1>1, <1>4 DEF Retained
<1>6. TypeOK'
  BY <1>1, <1>2, <1>3, <1>4, <1>5 DEF IInv, TypeOK
<1>7. TimelyNonces'
  BY <1>1, <1>4, <1>5 DEF TimelyNonces
<1>8. Remembered'
  <2>1. ASSUME NEW n \in Message, accepted'[n] > 0
        PROVE  n \in DOMAIN sent /\ (n \in DOMAIN nonces' \/ Closed(n))
    <3>1. n \in DOMAIN sent /\ (n \in DOMAIN table \/ Closed(n))
      BY <2>1, <1>1, <1>3, <1>4 DEF IInv, Remembered
    <3>2. CASE n \in DOMAIN table /\ n \notin DOMAIN nonces'
      <4>1. table[n] < now - Retention /\ sent[n].timestamp - table[n] <= Window
        BY <3>2, <1>4, <1>5, RetentionAssumption DEF IInv, TypeOK
      <4>2. Closed(n)
        BY <4>1, <3>1, <3>2, <1>4, RetentionAssumption DEF Closed, IInv, TypeOK, Request
      <4> QED BY <4>2, <3>1
    <3> QED BY <3>1, <3>2
  <2> QED BY <2>1, <1>1 DEF Remembered, Closed
<1>9. UnseenIsNew'
  <2>1. ASSUME NEW q \in DOMAIN work', work[q].stage = "unseen" PROVE work[q].message # m
    BY <2>1, <1>1, <1>2 DEF IInv, OneAtATime, Locking, From
  <2>2. \A q \in DOMAIN work' : q \in DOMAIN work /\ work[q].message \in Message
    BY <1>2 DEF Delivery
  <2> QED BY <1>2, <1>3, <2>1, <2>2 DEF UnseenIsNew, IInv
<1>10. AcceptedOnce'
  BY <1>3 DEF AcceptedOnce, IInv
<1> QED BY <1>2, <1>6, <1>7, <1>8, <1>9, <1>10 DEF IInv

LEMMA RollBackInv == ASSUME IInv, NEW r \in Connection, RollBack(r) PROVE IInv'
<1>1. r \in DOMAIN work /\ End(r) /\ UNCHANGED <<now, sent, nonces, accepted>>
  BY DEF RollBack
<1>2. /\ DOMAIN work' = DOMAIN work \ {r}
      /\ \A q \in DOMAIN work' : work'[q] = work[q]
      /\ work' \in [DOMAIN work' -> Delivery]
      /\ \A q \in DOMAIN work' : work[q].message \in DOMAIN sent
      /\ TimelyWork' /\ OneAtATime'
  BY <1>1, EndKeeps
<1>3. TypeOK'
  BY <1>1, <1>2 DEF IInv, TypeOK
<1>4. TimelyNonces' /\ Remembered' /\ AcceptedOnce'
  BY <1>1 DEF IInv, TimelyNonces, Remembered, Closed, AcceptedOnce
<1>5. UnseenIsNew'
  BY <1>1, <1>2 DEF IInv, UnseenIsNew
<1> QED BY <1>2, <1>3, <1>4, <1>5 DEF IInv

LEMMA TickInv == ASSUME IInv, Tick PROVE IInv'
<1>1. /\ now' = now + 1 /\ now \in 0..MaxNow /\ now' \in 0..MaxNow
      /\ sent' = sent /\ nonces' = nonces /\ work' = work /\ accepted' = accepted
  BY RetentionAssumption DEF Tick, IInv, TypeOK
<1>2. TypeOK'
  BY <1>1 DEF IInv, TypeOK
<1>3. TimelyWork'
  <2>1. ASSUME NEW r \in DOMAIN work
        PROVE  work[r].begun <= now + 1 /\ now + 1 <= work[r].checked + Patience
    BY <1>1, RetentionAssumption DEF Tick, IInv, TimelyWork, TypeOK, Delivery
  <2> QED BY <1>1, <2>1 DEF IInv, TimelyWork
<1>4. Remembered'
  <2>1. ASSUME NEW m \in DOMAIN sent, Closed(m) PROVE now + 1 > sent[m].timestamp + Window + Patience
    BY <2>1, <1>1, RetentionAssumption DEF Closed, IInv, TypeOK, Request
  <2> QED BY <1>1, <2>1 DEF Remembered, Closed, IInv
<1>5. TimelyNonces' /\ OneAtATime' /\ UnseenIsNew' /\ AcceptedOnce'
  BY <1>1 DEF IInv, TimelyNonces, OneAtATime, Locking, From, UnseenIsNew, AcceptedOnce
<1> QED BY <1>2, <1>3, <1>4, <1>5 DEF IInv

LEMMA StepInv == IInv /\ [Next]_vars => IInv'
<1> SUFFICES ASSUME IInv, [Next]_vars PROVE IInv'
  OBVIOUS
<1>1. CASE UNCHANGED vars
  BY <1>1 DEF vars, IInv, TypeOK, TimelyWork, TimelyNonces, Remembered, Closed, OneAtATime,
              Locking, From, UnseenIsNew, AcceptedOnce
<1>2. CASE \E m \in Message : Send(m)
  BY <1>2, SendInv
<1>3. ASSUME NEW r \in Connection, \E m \in Message : Deliver(r, m) PROVE IInv'
  BY <1>3, DeliverInv
<1>4. ASSUME NEW r \in Connection,
             BeginTransaction(r) \/ LockAgent(r) \/ ReplayCheck(r) \/ Accept(r) \/ RollBack(r)
      PROVE  IInv'
  BY <1>4, BeginInv, LockInv, CheckInv, AcceptInv, RollBackInv
<1>5. CASE Tick
  BY <1>5, TickInv
<1> QED BY <1>1, <1>2, <1>3, <1>4, <1>5 DEF Next

(* IInv holds in every reachable state. *)
THEOREM Invariance == Spec => []IInv
<1> QED BY InitInv, StepInv, PTL DEF Spec

(* The tables and the deliveries keep their types. *)
THEOREM TypeCorrect == Spec => []TypeOK
<1>1. IInv => TypeOK
  BY DEF IInv
<1> QED BY <1>1, Invariance, PTL

(* No heartbeat counts twice, whatever the network delivers. *)
THEOREM AcceptedOnceAlways == Spec => []AcceptedOnce
<1>1. IInv => AcceptedOnce
  BY DEF IInv
<1> QED BY <1>1, Invariance, PTL

(* An accepted request that would still pass the timestamp check is in the
   table of nonces. *)
THEOREM StillFreshIsRememberedAlways == Spec => []StillFreshIsRemembered
<1>1. ASSUME IInv PROVE StillFreshIsRemembered
  <2>1. ASSUME NEW m \in DOMAIN sent, Fresh(sent[m].timestamp) PROVE ~Closed(m)
    BY <1>1, <2>1, RetentionAssumption DEF Fresh, Closed, IInv, TypeOK, Request
  <2>2. DOMAIN sent \subseteq Message
    BY <1>1 DEF IInv, TypeOK
  <2> QED BY <1>1, <2>1, <2>2 DEF StillFreshIsRemembered, IInv, Remembered
<1> QED BY <1>1, Invariance, PTL

------------------------------------------------------------------------------
(* NodeInstall: the installers of a node and the agents they leave behind.  *)

\* The host of the run that holds the accepted credential, if a run does.
AcceptedAt(h) == \A r \in DOMAIN runs : runs[r].credential \in agents => runs[r].host = h

\* One credential is accepted, and no two runs were given the same.
OneHolder ==
  /\ \A c, d \in agents : c = d
  /\ \A r \in DOMAIN runs : runs[r].credential \in minted \cup {None}
  /\ \A q, r \in DOMAIN runs :
       runs[q].credential = runs[r].credential /\ runs[q].credential # None => q = r

\* A host has its credentials from a run there.
Given(h, c) == c # None => \E r \in DOMAIN runs : runs[r].host = h /\ runs[r].credential = c
HeldWhereRun == \A h \in Host : Given(h, env[h]) /\ Given(h, agent[h]) /\ Given(h, flight[h])

\* The status says how many heartbeats of the accepted credential were heard,
\* all from one host.
Hearing ==
  \/ /\ heard = <<>> /\ server \in {"ABSENT", "PENDING_INSTALL"} /\ agents = {}
  \/ /\ heard = <<>> /\ server = "REGISTERED"
  \/ \E h \in Host : heard = <<h>> /\ server = "CONNECTING" /\ AcceptedAt(h)
  \/ \E h \in Host : heard = <<h, h>> /\ server \in {"ONLINE", "ERROR"} /\ AcceptedAt(h)

ToldOnline ==
  \A r \in DOMAIN runs :
    runs[r].stage = "connected" /\ runs[r].credential \in agents => server \in {"ONLINE", "ERROR"}

\* Before the exchange a run has no credential.
NoneYet == \A r \in DOMAIN runs : runs[r].stage \in {"xray", "enroll"} => runs[r].credential = None

NodeInv == NodeTypeOK /\ OneHolder /\ HeldWhereRun /\ Hearing /\ ToldOnline /\ NoneYet

(* A run goes on; its host and its credential stay.                         *)
LEMMA RunGoes ==
  ASSUME NodeInv, NEW r \in DOMAIN runs, NEW t \in InstallRun,
         t.host = runs[r].host, t.credential = runs[r].credential,
         runs' = [runs EXCEPT ![r] = t]
  PROVE  /\ runs' \in [DOMAIN runs -> InstallRun] /\ DOMAIN runs' = DOMAIN runs /\ runs'[r] = t
         /\ \A q \in DOMAIN runs : /\ runs'[q].host = runs[q].host /\ runs'[q].credential = runs[q].credential
                                   /\ q # r => runs'[q].stage = runs[q].stage
BY DEF NodeInv, NodeTypeOK

LEMMA GotoGoes ==
  ASSUME NodeInv, NEW r \in DOMAIN runs,
         NEW s \in {"xray", "enroll", "store", "start", "poll", "connected", "dead"}, RunGoto(r, s)
  PROVE  /\ runs' \in [DOMAIN runs -> InstallRun] /\ DOMAIN runs' = DOMAIN runs /\ runs'[r].stage = s
         /\ \A q \in DOMAIN runs : /\ runs'[q].host = runs[q].host /\ runs'[q].credential = runs[q].credential
                                   /\ q # r => runs'[q].stage = runs[q].stage
<1> DEFINE t == [runs[r] EXCEPT !.stage = s]
<1>1. runs[r] \in InstallRun
  BY DEF NodeInv, NodeTypeOK
<1>2. t \in InstallRun /\ t.host = runs[r].host /\ t.credential = runs[r].credential /\ t.stage = s
  BY <1>1 DEF InstallRun, Ended
<1>3. runs' = [runs EXCEPT ![r] = t]
  BY DEF RunGoto
<1> HIDE DEF t
<1> QED BY <1>2, <1>3, RunGoes

(* What a step keeps that changes no credential of a run, and of the master   *)
(* at most the tokens.                                                      *)
LEMMA SameHolders ==
  ASSUME NodeInv, DOMAIN runs' = DOMAIN runs,
         \A q \in DOMAIN runs : runs'[q].host = runs[q].host /\ runs'[q].credential = runs[q].credential,
         UNCHANGED <<server, agents, minted, heard>>
  PROVE  /\ OneHolder' /\ Hearing'
         /\ \A h, c : Given(h, c) => Given(h, c)'
<1>1. OneHolder'
  BY DEF NodeInv, OneHolder
<1>2. \A h : AcceptedAt(h) => AcceptedAt(h)'
  BY DEF AcceptedAt
<1>3. Hearing'
  BY <1>2 DEF NodeInv, Hearing
<1> QED BY <1>1, <1>3 DEF Given

LEMMA InitNode ==
  ASSUME NodeInit PROVE NodeInv
<1>1. DOMAIN runs = {} /\ DOMAIN tokens = {}
  BY DEF NodeInit
<1>2. \A h \in Host : env[h] = None /\ agent[h] = None /\ flight[h] = None
  BY DEF NodeInit
<1>3. OneHolder /\ HeldWhereRun /\ Hearing /\ ToldOnline /\ NoneYet
  BY <1>1, <1>2 DEF NodeInit, OneHolder, HeldWhereRun, Given, Hearing, ToldOnline, NoneYet
<1>4. NodeTypeOK
  BY <1>1, NodeAssumption DEF NodeInit, NodeTypeOK, XrayFiles
<1> QED BY <1>3, <1>4 DEF NodeInv


(* A run of which only the stage and the count change, with a host that may *)
(* be given what the run there was given.                                   *)
LEMMA ScriptKeeps ==
  ASSUME NodeInv, NEW r \in DOMAIN runs,
         runs' \in [DOMAIN runs -> InstallRun], DOMAIN runs' = DOMAIN runs,
         \A q \in DOMAIN runs : /\ runs'[q].host = runs[q].host /\ runs'[q].credential = runs[q].credential
                                /\ q # r => runs'[q].stage = runs[q].stage,
         runs'[r].stage = "connected" /\ runs[r].credential \in agents => server \in {"ONLINE", "ERROR"},
         runs'[r].stage \in {"xray", "enroll"} => runs[r].credential = None,
         UNCHANGED <<master, maintenance>>,
         xray' \in [Host -> XrayFiles],
         env' \in [Host -> Credential \cup {None}], agent' \in [Host -> Credential \cup {None}], flight' = flight,
         \A h \in Host : Given(h, env'[h]) /\ Given(h, agent'[h])
  PROVE  NodeInv'
<1>1. OneHolder' /\ Hearing' /\ (\A h, c : Given(h, c) => Given(h, c)')
  BY SameHolders DEF master
<1>2. HeldWhereRun'
  <2>1. ASSUME NEW h \in Host, NEW c, Given(h, c)
        PROVE  c # None => \E q \in DOMAIN runs' : runs'[q].host = h /\ runs'[q].credential = c
    BY <1>1, <2>1 DEF Given
  <2>2. \A h \in Host : Given(h, env'[h]) /\ Given(h, agent'[h]) /\ Given(h, flight'[h])
    BY DEF NodeInv, HeldWhereRun
  <2> QED BY <2>1, <2>2 DEF HeldWhereRun, Given
<1>3. ToldOnline' /\ NoneYet'
  BY DEF NodeInv, ToldOnline, NoneYet, master
<1>4. NodeTypeOK'
  BY DEF NodeInv, NodeTypeOK, master
<1> QED BY <1>1, <1>2, <1>3, <1>4 DEF NodeInv

(* The script, but for the exchange.                                        *)
LEMMA ScriptNode ==
  ASSUME NodeInv, NEW r \in Run,
         \/ InstallXray(r) \/ KeepXray(r) \/ Store(r) \/ StartAgent(r)
         \/ AskOnline(r) \/ AskAgain(r) \/ Die(r)
  PROVE  NodeInv'
<1>1. r \in DOMAIN runs /\ Polls \in Nat
  BY NodeAssumption DEF InstallXray, KeepXray, Store, StartAgent, AskOnline, AskAgain, Die, RunAt
<1>2. /\ runs \in [DOMAIN runs -> InstallRun] /\ xray \in [Host -> XrayFiles]
      /\ env \in [Host -> Credential \cup {None}] /\ agent \in [Host -> Credential \cup {None}]
      /\ runs[r].host \in Host /\ runs[r].asked \in 0..Polls /\ runs[r].credential \in Credential \cup {None}
      /\ \A h \in Host : Given(h, env[h]) /\ Given(h, agent[h])
      /\ runs[r].stage = "xray" => runs[r].credential = None
  BY <1>1 DEF NodeInv, NodeTypeOK, HeldWhereRun, InstallRun, NoneYet
<1>3. ASSUME NEW s \in {"enroll", "start", "poll", "connected", "dead"}, RunGoto(r, s),
             s = "connected" => server = "ONLINE", s = "enroll" => runs[r].credential = None,
             UNCHANGED <<master, maintenance>>,
             xray' \in [Host -> XrayFiles],
             env' \in [Host -> Credential \cup {None}], agent' \in [Host -> Credential \cup {None}], flight' = flight,
             \A h \in Host : Given(h, env'[h]) /\ Given(h, agent'[h])
      PROVE  NodeInv'
  BY <1>1, <1>3, GotoGoes, ScriptKeeps DEF master
<1>4. CASE InstallXray(r)
  <2> DEFINE h == runs[r].host
  <2>1. PICK written \in BOOLEAN :
           /\ xray' = [xray EXCEPT ![h].binary = TRUE,
                                   ![h].file = IF written /\ @ = "none" THEN "default" ELSE @]
           /\ RunGoto(r, "enroll") \/ RunGoto(r, "dead")
    BY <1>4 DEF InstallXray
  <2>2. xray' \in [Host -> XrayFiles]
    <3>1. PICK file \in {"none", "own", "default"} :
             xray' = [xray EXCEPT ![h] = [xray[h] EXCEPT !.binary = TRUE, !.file = file]]
      BY <1>2, <2>1 DEF XrayFiles
    <3>2. [xray[h] EXCEPT !.binary = TRUE, !.file = file] \in XrayFiles
      <4>1. xray[h] \in XrayFiles
        BY <1>2
      <4> QED BY <4>1 DEF XrayFiles
    <3> QED BY <1>2, <3>1, <3>2
  <2>3. UNCHANGED <<master, maintenance, env, agent, flight>>
    BY <1>4 DEF InstallXray, node
  <2>4. runs[r].stage = "xray"
    BY <1>4 DEF InstallXray, RunAt
  <2> QED BY <1>2, <1>3, <2>1, <2>2, <2>3, <2>4
<1>5. CASE KeepXray(r) \/ Die(r)
  BY <1>2, <1>3, <1>5 DEF KeepXray, Die, node, RunAt
<1>6. CASE Store(r)
  <2>1. Given(runs[r].host, runs[r].credential)
    BY <1>1 DEF Given
  <2>2. /\ env' \in [Host -> Credential \cup {None}]
        /\ \A h \in Host : env'[h] = IF h = runs[r].host THEN runs[r].credential ELSE env[h]
    BY <1>2, <1>6 DEF Store
  <2>3. RunGoto(r, "start") /\ UNCHANGED <<master, maintenance, agent, flight, xray>>
    BY <1>6 DEF Store
  <2> QED BY <1>2, <1>3, <2>1, <2>2, <2>3
<1>7. CASE StartAgent(r)
  <2>1. /\ agent' \in [Host -> Credential \cup {None}]
        /\ \A h \in Host : agent'[h] \in {agent[h], env[h]}
    BY <1>2, <1>7 DEF StartAgent
  <2>2. RunGoto(r, "poll") /\ UNCHANGED <<master, maintenance, env, flight, xray>>
    BY <1>7 DEF StartAgent
  <2> QED BY <1>2, <1>3, <2>1, <2>2
<1>8. CASE AskOnline(r)
  <2>1. server = "ONLINE"
    BY <1>8 DEF AskOnline, Status
  <2>2. RunGoto(r, "connected") /\ UNCHANGED <<master, maintenance, env, agent, flight, xray>>
    BY <1>8 DEF AskOnline, node
  <2> QED BY <1>2, <1>3, <2>1, <2>2
<1>9. CASE AskAgain(r)
  <2>1. UNCHANGED <<master, maintenance, env, agent, flight, xray>> /\ runs[r].stage = "poll"
    BY <1>9 DEF AskAgain, node, RunAt
  <2>2. CASE RunGoto(r, "dead")
    BY <1>2, <1>3, <2>1, <2>2
  <2>3. CASE runs' = [runs EXCEPT ![r].asked = @ + 1] /\ runs[r].asked # Polls
    <3> DEFINE t == [runs[r] EXCEPT !.asked = runs[r].asked + 1]
    <3>1. runs[r] \in InstallRun /\ runs[r].asked + 1 \in 0..Polls
      BY <1>1, <1>2, <2>3
    <3>2. /\ t \in InstallRun /\ t.host = runs[r].host /\ t.credential = runs[r].credential
          /\ t.stage = "poll"
      BY <2>1, <3>1 DEF InstallRun
    <3>3. runs' = [runs EXCEPT ![r] = t]
      BY <2>3
    <3> HIDE DEF t
    <3> QED BY <1>1, <1>2, <2>1, <3>2, <3>3, RunGoes, ScriptKeeps
  <2> QED BY <1>9, <2>2, <2>3 DEF AskAgain
<1> QED BY <1>4, <1>5, <1>6, <1>7, <1>8, <1>9


(* The exchange: what was accepted before is over, and heard no more.       *)
LEMMA EnrollNode ==
  ASSUME NodeInv, NEW r \in Run, Enroll(r)
  PROVE  NodeInv'
<1>1. PICK c \in Credential \ minted :
         /\ agents' = {c} /\ minted' = minted \cup {c}
         /\ runs' \in {[runs EXCEPT ![r].stage = "store", ![r].credential = c], [runs EXCEPT ![r].stage = "dead"]}
  BY DEF Enroll, Accepted
<1>2. /\ r \in DOMAIN runs /\ tokens' = [tokens EXCEPT ![runs[r].token] = "over"]
      /\ server' = "REGISTERED" /\ heard' = <<>>
      /\ UNCHANGED <<maintenance, env, agent, flight, xray>>
  BY DEF Enroll, RunAt, node
<1>3. /\ runs' \in [DOMAIN runs -> InstallRun] /\ DOMAIN runs' = DOMAIN runs
      /\ \A q \in DOMAIN runs : /\ runs'[q].host = runs[q].host
                                /\ q # r => runs'[q] = runs[q]
      /\ runs'[r].credential \in {c, runs[r].credential} /\ runs'[r].stage \in {"store", "dead"}
  <2>1. runs \in [DOMAIN runs -> InstallRun] /\ runs[r] \in InstallRun
    BY <1>2 DEF NodeInv, NodeTypeOK
  <2>2. PICK t \in {[runs[r] EXCEPT !.stage = "store", !.credential = c], [runs[r] EXCEPT !.stage = "dead"]} :
           runs' = [runs EXCEPT ![r] = t]
    BY <1>1, <1>2, <2>1
  <2>3. /\ t \in InstallRun /\ t.host = runs[r].host /\ t.credential \in {c, runs[r].credential}
        /\ t.stage \in {"store", "dead"}
    BY <2>1, <2>2 DEF InstallRun, Ended
  <2> QED BY <1>2, <2>1, <2>2, <2>3
<1>4. /\ \A q \in DOMAIN runs : runs[q].credential \in (minted \cup {None}) \ {c}
      /\ runs[r].credential = None /\ c # None /\ c \notin minted
  BY <1>1, <1>2, NodeAssumption DEF NodeInv, OneHolder, NoneYet, Enroll, RunAt
<1>5. NodeTypeOK'
  <2>1. agents' \subseteq minted' /\ minted' \subseteq Credential
    BY <1>1 DEF NodeInv, NodeTypeOK
  <2>2. DOMAIN tokens' = DOMAIN tokens /\ tokens' \in [DOMAIN tokens -> {"outstanding", "expired", "over"}]
    BY <1>2 DEF NodeInv, NodeTypeOK
  <2> QED BY <1>2, <1>3, <2>1, <2>2 DEF NodeInv, NodeTypeOK
<1>6. OneHolder'
  BY <1>1, <1>3, <1>4 DEF NodeInv, OneHolder
<1>7. HeldWhereRun'
  <2>1. ASSUME NEW h \in Host, NEW d, Given(h, d)
        PROVE  d # None => \E q \in DOMAIN runs' : runs'[q].host = h /\ runs'[q].credential = d
    BY <1>3, <1>4, <2>1 DEF Given
  <2>2. \A h \in Host : Given(h, env[h]) /\ Given(h, agent[h]) /\ Given(h, flight[h])
    BY DEF NodeInv, HeldWhereRun
  <2> DEFINE Has(h, d) == d # None => \E q \in DOMAIN runs' : runs'[q].host = h /\ runs'[q].credential = d
  <2>3. \A h \in Host : Has(h, env'[h]) /\ Has(h, agent'[h]) /\ Has(h, flight'[h])
    BY <1>2, <2>1, <2>2
  <2> QED BY <2>3 DEF HeldWhereRun, Given
<1>8. Hearing'
  BY <1>2 DEF Hearing
<1>9. ToldOnline' /\ NoneYet'
  BY <1>1, <1>3, <1>4 DEF NodeInv, ToldOnline, NoneYet
<1> QED BY <1>5, <1>6, <1>7, <1>8, <1>9 DEF NodeInv

(* A run is started.                                                        *)
LEMMA LaunchNode ==
  ASSUME NodeInv, NEW r \in Run, Launch(r)
  PROVE  NodeInv'
<1>1. PICK h \in Host, t \in DOMAIN tokens :
         runs' = [q \in DOMAIN runs \cup {r} |->
                    IF q = r THEN [host |-> h, token |-> t, credential |-> None, asked |-> 0, stage |-> "xray"]
                    ELSE runs[q]]
  BY DEF Launch
<1>2. r \notin DOMAIN runs /\ UNCHANGED <<server, tokens, agents, minted, heard, maintenance, env, agent, flight, xray>>
  BY DEF Launch, master, node
<1> DEFINE t0 == [host |-> h, token |-> t, credential |-> None, asked |-> 0, stage |-> "xray"]
<1>3. t0 \in InstallRun /\ t0.credential = None /\ t0.stage = "xray"
  BY NodeAssumption DEF NodeInv, NodeTypeOK, InstallRun
<1>4. DOMAIN runs' = DOMAIN runs \cup {r} /\ runs'[r] = t0 /\ \A q \in DOMAIN runs : runs'[q] = runs[q]
  BY <1>1, <1>2
<1> HIDE DEF t0
<1>5. NodeTypeOK'
  <2>1. DOMAIN runs' \subseteq Run /\ runs' \in [DOMAIN runs' -> InstallRun]
    BY <1>1, <1>3, <1>4 DEF NodeInv, NodeTypeOK
  <2> QED BY <1>2, <2>1 DEF NodeInv, NodeTypeOK
<1>6. None \notin agents
  BY NodeAssumption DEF NodeInv, NodeTypeOK
<1>7. OneHolder'
  BY <1>2, <1>3, <1>4 DEF NodeInv, OneHolder
<1>8. \A g : AcceptedAt(g) => AcceptedAt(g)'
  BY <1>2, <1>3, <1>4, <1>6 DEF AcceptedAt
<1>9. Hearing'
  BY <1>2, <1>8 DEF NodeInv, Hearing
<1>10. HeldWhereRun'
  BY <1>2, <1>4 DEF NodeInv, HeldWhereRun, Given
<1>11. ToldOnline' /\ NoneYet'
  BY <1>2, <1>3, <1>4 DEF NodeInv, ToldOnline, NoneYet
<1> QED BY <1>5, <1>7, <1>9, <1>10, <1>11 DEF NodeInv

(* The pages of the panel.                                                  *)
LEMMA PagesNode ==
  ASSUME NodeInv,
         \/ CreateServer \/ Regenerate \/ ToggleMaintenance
         \/ \E t \in Token : TokenExpires(t)
  PROVE  NodeInv'
<1>1. /\ UNCHANGED <<agents, minted, heard, runs, env, agent, flight, xray>>
      /\ server' = server \/ (server = "ABSENT" /\ server' = "PENDING_INSTALL")
      /\ maintenance' \in BOOLEAN
  BY DEF NodeInv, NodeTypeOK, CreateServer, Regenerate, ToggleMaintenance, TokenExpires,
         master, node
<1>2. DOMAIN tokens' \subseteq Token /\ tokens' \in [DOMAIN tokens' -> {"outstanding", "expired", "over"}]
  <2>1. CASE IssueToken
    BY <2>1 DEF NodeInv, NodeTypeOK, IssueToken
  <2>2. CASE UNCHANGED tokens
    BY <2>2 DEF NodeInv, NodeTypeOK
  <2>3. ASSUME NEW t \in Token, TokenExpires(t)
        PROVE  DOMAIN tokens' \subseteq Token /\ tokens' \in [DOMAIN tokens' -> {"outstanding", "expired", "over"}]
    BY <2>3 DEF NodeInv, NodeTypeOK, TokenExpires
  <2> QED BY <2>1, <2>2, <2>3 DEF CreateServer, Regenerate, ToggleMaintenance, master
<1>3. OneHolder' /\ HeldWhereRun'
  BY <1>1 DEF NodeInv, OneHolder, HeldWhereRun, Given
<1>4. \A h : AcceptedAt(h)' <=> AcceptedAt(h)
  BY <1>1 DEF AcceptedAt
<1>5. Hearing' /\ ToldOnline' /\ NoneYet'
  BY <1>1, <1>4 DEF NodeInv, Hearing, ToldOnline, NoneYet
<1>6. NodeTypeOK'
  BY <1>1, <1>2 DEF NodeInv, NodeTypeOK
<1> QED BY <1>3, <1>5, <1>6 DEF NodeInv

(* The loop of the agent.                                                   *)
LEMMA AgentNode ==
  ASSUME NodeInv, NEW h \in Host,
         SendHeartbeat(h) \/ HeartbeatFails(h) \/ Restart(h)
  PROVE  NodeInv'
<1>1. UNCHANGED <<server, tokens, agents, minted, heard, maintenance, runs, env, xray>>
  BY DEF SendHeartbeat, HeartbeatFails, Restart, master
<1>2. /\ agent' \in [Host -> Credential \cup {None}] /\ flight' \in [Host -> Credential \cup {None}]
      /\ \A g \in Host : agent'[g] \in {agent[g], env[g]} /\ flight'[g] \in {flight[g], agent[g], None}
  BY DEF NodeInv, NodeTypeOK, SendHeartbeat, HeartbeatFails, Restart
<1>3. HeldWhereRun'
  BY <1>1, <1>2 DEF NodeInv, HeldWhereRun, Given
<1>4. OneHolder' /\ ToldOnline' /\ NoneYet'
  BY <1>1 DEF NodeInv, OneHolder, ToldOnline, NoneYet
<1>5. \A g : AcceptedAt(g)' <=> AcceptedAt(g)
  BY <1>1 DEF AcceptedAt
<1>6. Hearing'
  BY <1>1, <1>5 DEF NodeInv, Hearing
<1>7. NodeTypeOK'
  BY <1>1, <1>2 DEF NodeInv, NodeTypeOK
<1> QED BY <1>3, <1>4, <1>6, <1>7 DEF NodeInv

(* The second heartbeat that is heard.                                      *)
LEMMA AppendSecond ==
  ASSUME NEW S, NEW x \in S, NEW y \in S, NEW s \in Seq(S), s = <<x>>
  PROVE  Append(s, y) = <<x, y>>
<1> DEFINE t == Append(s, y)
<1>1. Len(s) = 1 /\ s[1] = x
  OBVIOUS
<1>2. t \in Seq(S) /\ Len(t) = Len(s) + 1
  OBVIOUS
<1>3. t[Len(s) + 1] = y
  OBVIOUS
<1>4. \A i \in 1..Len(s) : t[i] = s[i]
  OBVIOUS
<1> HIDE DEF t
<1>5. t[1] = x /\ t[2] = y /\ Len(t) = 2
  BY <1>1, <1>2, <1>3, <1>4
<1>6. t = <<x, y>>
  BY <1>2, <1>5
<1> QED BY <1>6 DEF t

(* A heartbeat is accepted: it comes from the host of the credential.       *)
LEMMA HeartbeatNode ==
  ASSUME NodeInv, NEW h \in Host, Heartbeat(h)
  PROVE  NodeInv'
<1>1. /\ flight[h] \in agents /\ flight' = [flight EXCEPT ![h] = None]
      /\ server' \in {NextStatus(health) : health \in {"ONLINE", "ERROR"}}
      /\ heard' = IF Len(heard) < 2 THEN Append(heard, h) ELSE heard
      /\ UNCHANGED <<tokens, agents, minted, maintenance, runs, env, agent, xray>>
  BY DEF Heartbeat
<1>2. AcceptedAt(h)
  <2>1. flight[h] # None
    BY <1>1, NodeAssumption DEF NodeInv, NodeTypeOK
  <2>2. PICK r \in DOMAIN runs : runs[r].host = h /\ runs[r].credential = flight[h]
    BY <2>1 DEF NodeInv, HeldWhereRun, Given
  <2>3. ASSUME NEW q \in DOMAIN runs, runs[q].credential \in agents PROVE runs[q].host = h
    <3>1. runs[q].credential = runs[r].credential
      BY <1>1, <2>2, <2>3 DEF NodeInv, OneHolder
    <3>2. q = r
      BY <2>1, <2>2, <3>1 DEF NodeInv, OneHolder
    <3> QED BY <2>2, <3>2
  <2> QED BY <2>3 DEF AcceptedAt
<1>3. \A g : AcceptedAt(g)' <=> AcceptedAt(g)
  BY <1>1 DEF AcceptedAt
<1>4. \E r \in DOMAIN runs : runs[r].credential \in agents /\ runs[r].host = h
  BY <1>1, <1>2, NodeAssumption DEF NodeInv, HeldWhereRun, Given, NodeTypeOK
<1>5. agents # {} /\ (server \in {"ONLINE", "ERROR"} => Len(heard) = 2)
  BY <1>1 DEF NodeInv, Hearing
<1> DEFINE Heard ==
      /\ Hearing' /\ server' \in {"CONNECTING", "ONLINE", "ERROR"}
      /\ server \in {"ONLINE", "ERROR"} => server' \in {"ONLINE", "ERROR"}
      /\ heard' \in {<<>>} \cup {<<g>> : g \in Host} \cup (Host \X Host)
<1>6. Heard
  <2>1. CASE heard = <<>> /\ server = "REGISTERED"
    <3>1. server' = "CONNECTING" /\ heard' = <<h>>
      BY <1>1, <2>1 DEF NextStatus
    <3> QED BY <1>2, <1>3, <2>1, <3>1 DEF Hearing
  <2>2. ASSUME NEW g \in Host, heard = <<g>>, server = "CONNECTING", AcceptedAt(g)
        PROVE  Heard
    <3>1. g = h
      BY <1>4, <2>2 DEF AcceptedAt
    <3>2. server' \in {"ONLINE", "ERROR"} /\ Len(heard) = 1 /\ heard' = Append(heard, h)
      BY <1>1, <2>2 DEF NextStatus
    <3>3. heard' = <<h, h>>
      <4>1. heard \in Seq(Host) /\ heard = <<h>>
        BY <2>2, <3>1
      <4> QED BY <3>2, <4>1, AppendSecond
    <3>4. AcceptedAt(h)'
      BY <1>2, <1>3
    <3>5. Hearing'
      BY <3>2, <3>3, <3>4 DEF Hearing
    <3> QED BY <3>2, <3>3, <3>5
  <2>3. ASSUME NEW g \in Host, heard = <<g, g>>, server \in {"ONLINE", "ERROR"}, AcceptedAt(g)
        PROVE  Heard
    <3>1. server' \in {"ONLINE", "ERROR"} /\ heard' = heard
      BY <1>1, <2>3 DEF NextStatus
    <3> QED BY <1>3, <2>3, <3>1 DEF Hearing
  <2>4. Hearing
    BY DEF NodeInv
  <2> HIDE DEF Heard
  <2> QED BY <1>5, <2>1, <2>2, <2>3, <2>4 DEF Hearing
<1>7. HeldWhereRun'
  BY <1>1 DEF NodeInv, HeldWhereRun, Given, NodeTypeOK
<1>8. OneHolder' /\ ToldOnline' /\ NoneYet'
  BY <1>1, <1>6 DEF NodeInv, OneHolder, ToldOnline, NoneYet
<1>9. NodeTypeOK'
  BY <1>1, <1>6 DEF NodeInv, NodeTypeOK
<1> QED BY <1>6, <1>7, <1>8, <1>9 DEF NodeInv


LEMMA NextNode ==
  ASSUME NodeInv, [NodeNext]_nodeVars
  PROVE  NodeInv'
<1>1. CASE UNCHANGED nodeVars
  BY <1>1 DEF nodeVars, master, node, NodeInv, NodeTypeOK, OneHolder, HeldWhereRun, Given, Hearing,
              AcceptedAt, ToldOnline, NoneYet
<1>2. CASE \E r \in Run : Launch(r) \/ Script(r) \/ Die(r)
  BY <1>2, LaunchNode, ScriptNode, EnrollNode DEF Script
<1>3. CASE \E h \in Host : SendHeartbeat(h) \/ Heartbeat(h) \/ HeartbeatFails(h) \/ Restart(h)
  BY <1>3, AgentNode, HeartbeatNode
<1> QED BY <1>1, <1>2, <1>3, PagesNode DEF NodeNext

\* What the master, the runs of the installer and the hosts hold is of its type.
THEOREM NodeTypeCorrect == NodeSpec => []NodeTypeOK
<1>1. NodeInv => NodeTypeOK
  BY DEF NodeInv
<1>2. NodeInit => NodeInv
  BY InitNode
<1>3. NodeInv /\ [NodeNext]_nodeVars => NodeInv'
  BY NextNode
<1> QED BY <1>1, <1>2, <1>3, PTL DEF NodeSpec

\* node-install.sh says CONNECTED when the status is ONLINE for its credential:
\* then the two heartbeats that made it so came from its host.
THEOREM ConnectedIsAlwaysHeard == NodeSpec => []ConnectedIsHeard
<1>1. NodeInv => ConnectedIsHeard
  BY DEF NodeInv, ToldOnline, Hearing, AcceptedAt, ConnectedIsHeard
<1>2. NodeInit => NodeInv
  BY InitNode
<1>3. NodeInv /\ [NodeNext]_nodeVars => NodeInv'
  BY NextNode
<1> QED BY <1>1, <1>2, <1>3, PTL DEF NodeSpec

\* The exchange gives a server one credential, and every exchange another: no
\* two hosts run an agent that the master accepts.
THEOREM OneHostIsAlwaysHeard == NodeSpec => []OneHostIsHeard
<1>1. ASSUME NodeInv, NEW g \in Host, NEW h \in Host, agent[g] \in agents, agent[h] \in agents
      PROVE  g = h
  <2>1. agent[g] = agent[h] /\ agent[g] # None
    BY <1>1, NodeAssumption DEF NodeInv, OneHolder, NodeTypeOK
  <2> QED BY <1>1, <2>1 DEF NodeInv, OneHolder, HeldWhereRun, Given
<1>2. NodeInv => OneHostIsHeard
  BY <1>1 DEF OneHostIsHeard
<1>3. NodeInit => NodeInv
  BY InitNode
<1>4. NodeInv /\ [NodeNext]_nodeVars => NodeInv'
  BY NextNode
<1> QED BY <1>2, <1>3, <1>4, PTL DEF NodeSpec

-----------------------------------------------------------------------------
(* The lifecycle of the server, while its command is run on any host.       *)

OneToken == \A t, u \in Outstanding : t = u

\* A run was given a token that had been issued.
Commanded == \A r \in DOMAIN runs : runs[r].token \in DOMAIN tokens

(* A run keeps the token of its command.                                    *)
LEMMA RunsKeepTokens ==
  ASSUME NodeInv, NodeNext, NEW q \in DOMAIN runs'
  PROVE  (q \in DOMAIN runs /\ runs'[q].token = runs[q].token) \/ runs'[q].token \in DOMAIN tokens
<1>1. runs \in [DOMAIN runs -> InstallRun]
  BY DEF NodeInv, NodeTypeOK
<1>2. CASE UNCHANGED runs
  BY <1>2
<1>3. ASSUME NEW r \in DOMAIN runs, NEW t, t.token = runs[r].token, runs' = [runs EXCEPT ![r] = t]
      PROVE  q \in DOMAIN runs /\ runs'[q].token = runs[q].token
  BY <1>1, <1>3
<1>4. ASSUME NEW r \in DOMAIN runs, NEW s, RunGoto(r, s) PROVE q \in DOMAIN runs /\ runs'[q].token = runs[q].token
  <2> DEFINE t == [runs[r] EXCEPT !.stage = s]
  <2>1. runs' = [runs EXCEPT ![r] = t]
    BY <1>4 DEF RunGoto
  <2>2. t.token = runs[r].token
    BY <1>1 DEF InstallRun
  <2> HIDE DEF t
  <2> QED BY <1>3, <2>1, <2>2
<1>5. ASSUME NEW r \in Run, Launch(r)
      PROVE  (q \in DOMAIN runs /\ runs'[q] = runs[q]) \/ runs'[q].token \in DOMAIN tokens
  BY <1>5 DEF Launch
<1>6. ASSUME NEW r \in Run, Script(r) \/ Die(r) PROVE q \in DOMAIN runs /\ runs'[q].token = runs[q].token
  <2>1. r \in DOMAIN runs
    BY <1>6 DEF Script, InstallXray, KeepXray, Enroll, Store, StartAgent, AskOnline, AskAgain, Die, RunAt
  <2>2. CASE \E s : RunGoto(r, s)
    BY <1>4, <2>1, <2>2
  <2>3. CASE AskAgain(r) /\ runs' = [runs EXCEPT ![r].asked = @ + 1]
    <3> DEFINE t == [runs[r] EXCEPT !.asked = @ + 1]
    <3>1. runs' = [runs EXCEPT ![r] = t]
      BY <2>3
    <3>2. t.token = runs[r].token
      BY <1>1, <2>1 DEF InstallRun
    <3> HIDE DEF t
    <3> QED BY <1>3, <2>1, <3>1, <3>2
  <2>4. CASE Enroll(r)
    <3>1. PICK c : runs' = [runs EXCEPT ![r].stage = "store", ![r].credential = c]
                   \/ RunGoto(r, "dead")
      BY <2>4 DEF Enroll, RunGoto
    <3> DEFINE t == [runs[r] EXCEPT !.stage = "store", !.credential = c]
    <3>2. t.token = runs[r].token
      BY <1>1, <2>1 DEF InstallRun
    <3>3. runs' = [runs EXCEPT ![r] = t] \/ RunGoto(r, "dead")
      BY <3>1
    <3> HIDE DEF t
    <3> QED BY <1>3, <1>4, <2>1, <3>2, <3>3
  <2> QED BY <1>6, <2>2, <2>3, <2>4 DEF Script, InstallXray, KeepXray, Store, StartAgent, AskOnline, AskAgain, Die
<1> QED BY <1>2, <1>5, <1>6 DEF NodeNext, CreateServer, Regenerate, ToggleMaintenance, TokenExpires, SendHeartbeat,
           Heartbeat, HeartbeatFails, Restart

(* issueJoinToken leaves the new token as the only one.                     *)
LEMMA IssueLeavesOne ==
  ASSUME NodeInv, IssueToken
  PROVE  \E t \in Token \ DOMAIN tokens : DOMAIN tokens' = DOMAIN tokens \cup {t} /\ Outstanding' = {t}
BY DEF IssueToken, Outstanding

(* The exchange spends the token of the run, the only one there was.        *)
LEMMA EnrollSpends ==
  ASSUME NodeInv, OneToken, Commanded, NEW r \in Run, Enroll(r)
  PROVE  DOMAIN tokens' = DOMAIN tokens /\ Outstanding # {} /\ Outstanding' = {}
<1>1. /\ runs[r].token \in DOMAIN tokens /\ tokens[runs[r].token] = "outstanding"
      /\ tokens' = [tokens EXCEPT ![runs[r].token] = "over"]
      /\ tokens \in [DOMAIN tokens -> {"outstanding", "expired", "over"}]
  BY DEF Enroll, RunAt, Commanded, NodeInv, NodeTypeOK
<1>2. runs[r].token \in Outstanding /\ \A t \in Outstanding : t = runs[r].token
  BY <1>1 DEF OneToken, Outstanding
<1> QED BY <1>1, <1>2 DEF Outstanding

(* A token that expires could not be exchanged for its age only.            *)
LEMMA ExpiryKeepsOutstanding ==
  ASSUME NodeInv, NEW t \in Token, TokenExpires(t)
  PROVE  DOMAIN tokens' = DOMAIN tokens /\ Outstanding' = Outstanding
<1>1. /\ t \in DOMAIN tokens /\ tokens[t] = "outstanding" /\ tokens' = [tokens EXCEPT ![t] = "expired"]
      /\ tokens \in [DOMAIN tokens -> {"outstanding", "expired", "over"}]
  BY DEF TokenExpires, NodeInv, NodeTypeOK
<1> QED BY <1>1 DEF Outstanding

(* What changes no token.                                                   *)
TokensStay ==
  \/ CreateServer \/ ToggleMaintenance
  \/ \E r \in Run : Launch(r) \/ InstallXray(r) \/ KeepXray(r) \/ Store(r) \/ StartAgent(r)
                    \/ AskOnline(r) \/ AskAgain(r) \/ Die(r)
  \/ \E h \in Host : SendHeartbeat(h) \/ Heartbeat(h) \/ HeartbeatFails(h) \/ Restart(h)

LEMMA NextTokens ==
  ASSUME NodeInv, OneToken, Commanded, [NodeNext]_nodeVars
  PROVE  OneToken' /\ Commanded'
<1>1. CASE UNCHANGED nodeVars
  BY <1>1 DEF nodeVars, master, OneToken, Commanded, Outstanding
<1>2. CASE NodeNext
  <2>1. CASE TokensStay
    <3>1. UNCHANGED tokens
      BY <2>1 DEF TokensStay, CreateServer, ToggleMaintenance, Launch, InstallXray, KeepXray, Store, StartAgent,
                  AskOnline, AskAgain, Die, SendHeartbeat, Heartbeat, HeartbeatFails, Restart, master
    <3> QED BY <1>2, <3>1, RunsKeepTokens DEF OneToken, Commanded, Outstanding
  <2>2. CASE Regenerate
    <3>1. OneToken' /\ DOMAIN tokens \subseteq DOMAIN tokens'
      BY <2>2, IssueLeavesOne DEF Regenerate, OneToken
    <3> QED BY <1>2, <3>1, RunsKeepTokens DEF Commanded
  <2>3. CASE \E t \in Token : TokenExpires(t)
    <3>1. OneToken' /\ DOMAIN tokens \subseteq DOMAIN tokens'
      BY <2>3, ExpiryKeepsOutstanding DEF OneToken
    <3> QED BY <1>2, <3>1, RunsKeepTokens DEF Commanded
  <2>4. CASE \E r \in Run : Enroll(r)
    <3>1. OneToken' /\ DOMAIN tokens \subseteq DOMAIN tokens'
      BY <2>4, EnrollSpends DEF OneToken
    <3> QED BY <1>2, <3>1, RunsKeepTokens DEF Commanded
  <2> QED BY <1>2, <2>1, <2>2, <2>3, <2>4 DEF NodeNext, TokensStay, Script
<1> QED BY <1>1, <1>2

(* The heartbeat of the accepted credential is a heartbeat of the lifecycle. *)
LEMMA HeartbeatObserves ==
  ASSUME NodeInv, NEW h \in Host, Heartbeat(h)
  PROVE  Lifecycle!Observe
<1>1. /\ agents # {} /\ UNCHANGED <<tokens, agents, minted>>
      /\ server' \in {NextStatus("ONLINE"), NextStatus("ERROR")}
      /\ heard' = IF Len(heard) < 2 THEN Append(heard, h) ELSE heard
  BY DEF Heartbeat
<1>2. \/ heard = <<>> /\ server = "REGISTERED"
      \/ \E g \in Host : heard = <<g>> /\ server = "CONNECTING"
      \/ \E g \in Host : heard = <<g, g>> /\ server \in {"ONLINE", "ERROR"}
  BY <1>1 DEF NodeInv, Hearing
<1>3. /\ server' \in IF Len(heard) = 0 THEN {"CONNECTING"} ELSE {"ONLINE", "ERROR"}
      /\ Len(heard') = IF Len(heard) = 0 THEN 1 ELSE 2
  <2>1. CASE heard = <<>> /\ server = "REGISTERED"
    <3>1. Len(heard) = 0 /\ Len(heard') = 1
      BY <1>1, <2>1
    <3> QED BY <1>1, <2>1, <3>1 DEF NextStatus
  <2>2. ASSUME NEW g \in Host, heard = <<g>>, server = "CONNECTING"
        PROVE  /\ server' \in {"ONLINE", "ERROR"} /\ Len(heard) = 1 /\ Len(heard') = 2
    <3>1. Len(heard) = 1
      BY <2>2
    <3>2. heard' = <<g, h>>
      BY <1>1, <2>2, <3>1, AppendSecond
    <3> QED BY <1>1, <2>2, <3>1, <3>2 DEF NextStatus
  <2>3. ASSUME NEW g \in Host, heard = <<g, g>>, server \in {"ONLINE", "ERROR"}
        PROVE  /\ server' \in {"ONLINE", "ERROR"} /\ Len(heard) = 2 /\ Len(heard') = 2
    <3>1. Len(heard) = 2
      BY <2>3
    <3> QED BY <1>1, <2>3, <3>1 DEF NextStatus
  <2> QED BY <1>2, <2>1, <2>2, <2>3
<1> QED BY <1>1, <1>3 DEF Lifecycle!Observe, Outstanding

LEMMA InitNodeLifecycle ==
  ASSUME NodeInit PROVE Lifecycle!Init /\ OneToken /\ Commanded
BY DEF NodeInit, Lifecycle!Init, Outstanding, OneToken, Commanded

LEMMA StepNodeLifecycle ==
  ASSUME NodeInv, OneToken, Commanded, [NodeNext]_nodeVars
  PROVE  [Lifecycle!Next]_(Lifecycle!vars)
<1>1. ASSUME UNCHANGED master PROVE UNCHANGED Lifecycle!vars
  BY <1>1 DEF master, Lifecycle!vars, Outstanding
<1>2. CASE UNCHANGED nodeVars
  BY <1>1, <1>2 DEF nodeVars
<1>3. CASE CreateServer
  BY <1>3 DEF CreateServer, Lifecycle!Next, Lifecycle!Create, Outstanding
<1>4. CASE Regenerate
  <2>1. server \in Lifecycle!Joinable /\ UNCHANGED <<server, agents, minted, heard>>
    BY <1>4 DEF Regenerate, Joinable, Lifecycle!Joinable
  <2>2. Lifecycle!Issue
    BY <1>4, <2>1, IssueLeavesOne DEF Regenerate, Lifecycle!Issue
  <2> QED BY <2>2 DEF Lifecycle!Next
<1>5. ASSUME NEW t \in Token, TokenExpires(t) PROVE UNCHANGED Lifecycle!vars
  BY <1>5, ExpiryKeepsOutstanding DEF TokenExpires, Lifecycle!vars
<1>6. ASSUME NEW r \in Run, Enroll(r) PROVE Lifecycle!Enroll
  <2>1. /\ \E c \in Credential \ minted : agents' = {c} /\ minted' = minted \cup {c}
        /\ server' = "REGISTERED" /\ heard' = <<>>
    BY <1>6 DEF Enroll, Accepted
  <2>2. DOMAIN tokens' = DOMAIN tokens /\ Outstanding # {} /\ Outstanding' = {}
    BY <1>6, EnrollSpends
  <2> QED BY <2>1, <2>2 DEF Lifecycle!Enroll
<1>7. ASSUME NEW h \in Host, Heartbeat(h) PROVE Lifecycle!Observe
  BY <1>7, HeartbeatObserves
<1>8. CASE \/ ToggleMaintenance
           \/ \E r \in Run : Launch(r) \/ InstallXray(r) \/ KeepXray(r) \/ Store(r) \/ StartAgent(r)
                             \/ AskOnline(r) \/ AskAgain(r) \/ Die(r)
           \/ \E h \in Host : SendHeartbeat(h) \/ HeartbeatFails(h) \/ Restart(h)
  <2>1. UNCHANGED master
    BY <1>8 DEF ToggleMaintenance, Launch, InstallXray, KeepXray, Store, StartAgent,
                  AskOnline, AskAgain, Die, SendHeartbeat, HeartbeatFails, Restart
  <2> QED BY <1>1, <2>1
<1> QED BY <1>2, <1>3, <1>4, <1>5, <1>6, <1>7, <1>8 DEF NodeNext, Script, Lifecycle!Next

\* The lifecycle that ServerEnrollment implements lock by lock is the one that
\* the master goes through while hosts run the command, die, install again and
\* lose answers: NodeInstall may take each request for one step.
THEOREM InstallImplementsLifecycle == NodeSpec => InstallFollowsLifecycle
<1> DEFINE I == NodeInv /\ OneToken /\ Commanded
<1>1. NodeInit => I /\ Lifecycle!Init
  BY InitNode, InitNodeLifecycle
<1>2. I /\ [NodeNext]_nodeVars => I'
  BY NextNode, NextTokens
<1>3. I /\ [NodeNext]_nodeVars => [Lifecycle!Next]_(Lifecycle!vars)
  BY StepNodeLifecycle
<1> QED BY <1>1, <1>2, <1>3, PTL DEF NodeSpec, InstallFollowsLifecycle, Lifecycle!Spec

==============================================================================
