----------------------------- MODULE SessionsProofs -----------------------------
(***************************************************************************)
(* No session outlives its password or its account, and no account has     *)
(* more sessions, and no name or address more wrong guesses, than the       *)
(* limit and the logins under way allow, for any accounts, names,          *)
(* addresses, passwords, sessions and requests.                            *)
(***************************************************************************)
EXTENDS Sessions, TLAPS, FiniteSetTheorems

-----------------------------------------------------------------------------
(* The inductive invariant: accounts, sessions and requests refer to        *)
(* accounts that exist.                                                     *)
AccountsShape == DOMAIN accounts \subseteq Admin /\ accounts \in [DOMAIN accounts -> Account]

SessionsShape ==
  /\ sessions \in [DOMAIN sessions -> SessionRow]
  /\ \A s \in DOMAIN sessions : sessions[s].admin \in DOMAIN accounts

\* A request that has found its account.
Acting == {"verified", "created", "excess", "answer", "handler", "commit"}

ReqShape(t) ==
  /\ t.stage = "find" => t.password \in Password
  /\ t.stage = "verified" => t.password \in Password
  /\ t.stage \in Acting => t.admin \in DOMAIN accounts

Requests == \A r \in DOMAIN reqs : ReqShape(reqs[r])

IInv == AccountsShape /\ SessionsShape /\ Requests /\ OldPasswordIsOut /\ DisabledHoldsNone

\* The accounts stay as they are.
Same == UNCHANGED accounts

-----------------------------------------------------------------------------
LEMMA InitIInv == Init => IInv
<1> SUFFICES ASSUME Init PROVE IInv
  OBVIOUS
<1>1. DOMAIN sessions = {} /\ DOMAIN reqs = {}
  BY DEF Init
<1>2. AccountsShape
  BY DEF Init, AccountsShape
<1>3. sessions \in [DOMAIN sessions -> SessionRow]
  BY <1>1 DEF Init
<1> QED BY <1>1, <1>2, <1>3 DEF IInv, SessionsShape, Requests, OldPasswordIsOut, DisabledHoldsNone

(* A step forward of one request, while no account goes.                    *)
LEMMA GoRequests ==
  ASSUME Requests, NEW r, NEW t, Go(r, t), DOMAIN accounts' = DOMAIN accounts, ReqShape(t)
  PROVE  Requests'
<1>1. \A q \in DOMAIN reqs' : reqs'[q] = t \/ (q \in DOMAIN reqs /\ reqs'[q] = reqs[q])
  BY DEF Go
<1> QED BY <1>1 DEF Requests, ReqShape

(* The requests that are left while no account goes.                        *)
LEMMA RestRequests ==
  ASSUME Requests, DOMAIN accounts \subseteq DOMAIN accounts',
         \A q \in DOMAIN reqs' : q \in DOMAIN reqs /\ reqs'[q] = reqs[q]
  PROVE  Requests'
BY DEF Requests, ReqShape

LEMMA EndRequests ==
  ASSUME Requests, NEW r, End(r), DOMAIN accounts' = DOMAIN accounts
  PROVE  Requests'
<1>1. \A q \in DOMAIN reqs' : q \in DOMAIN reqs /\ reqs'[q] = reqs[q]
  BY DEF End
<1> QED BY <1>1, RestRequests

(* While accounts and sessions stay, the requests are all there is to show. *)
LEMMA StoredKept ==
  ASSUME IInv, Requests', UNCHANGED <<accounts, sessions>>
  PROVE  IInv'
BY DEF IInv, AccountsShape, SessionsShape, OldPasswordIsOut, DisabledHoldsNone

(* Sessions that stay with what the invariant looks at; others may go.      *)
LEMMA FewerSessions ==
  ASSUME IInv, Requests', Same,
         DOMAIN sessions' \subseteq DOMAIN sessions,
         sessions' \in [DOMAIN sessions' -> SessionRow],
         \A s \in DOMAIN sessions' :
           /\ sessions'[s].admin = sessions[s].admin
           /\ sessions'[s].password = sessions[s].password
           /\ sessions'[s].late = sessions[s].late /\ sessions'[s].kept = sessions[s].kept
           /\ sessions'[s].delivered => sessions[s].delivered \/ accounts[sessions[s].admin].active
  PROVE  IInv'
<1>1. SessionsShape'
  BY DEF IInv, SessionsShape, Same
<1>2. OldPasswordIsOut'
  BY DEF IInv, OldPasswordIsOut, Same
<1>3. DisabledHoldsNone'
  BY DEF IInv, DisabledHoldsNone, Same
<1> QED BY <1>1, <1>2, <1>3 DEF IInv, AccountsShape, Same

LEMMA WithoutIInv ==
  ASSUME IInv, Requests', Same, NEW gone, Without(gone)
  PROVE  IInv'
<1>1. /\ DOMAIN sessions' = DOMAIN sessions \ gone
      /\ \A s \in DOMAIN sessions' : sessions'[s] = sessions[s]
      /\ sessions' = [s \in DOMAIN sessions' |-> sessions'[s]]
  BY DEF Without
<1>2. sessions' \in [DOMAIN sessions' -> SessionRow]
  BY <1>1 DEF IInv, SessionsShape
<1> QED BY <1>1, <1>2, FewerSessions

-----------------------------------------------------------------------------
(* Logins: what happens before a session is inserted touches nothing.       *)
LEMMA LoginIInv ==
  ASSUME IInv, NEW r \in Request, NEW n \in Name, NEW i \in Ip, NEW p \in Password, Login(r, n, i, p)
  PROVE  IInv'
<1> DEFINE t == [stage |-> IF RecentFailures(n, i) >= Threshold THEN "limited" ELSE "find",
                 name |-> n, ip |-> i, password |-> p]
<1>1. t.stage \in {"limited", "find"} /\ t.password = p
  OBVIOUS
<1>2. Go(r, t) /\ UNCHANGED <<accounts, sessions>>
  BY DEF Login, Stored
<1> HIDE DEF t
<1>3. ReqShape(t)
  BY <1>1 DEF ReqShape, Acting
<1> QED BY <1>2, <1>3, GoRequests, StoredKept DEF IInv

LEMMA FindAdminIInv ==
  ASSUME IInv, NEW r \in Request, FindAdmin(r)
  PROVE  IInv'
<1>1. reqs[r].password \in Password /\ UNCHANGED <<accounts, sessions>>
  BY DEF FindAdmin, In, IInv, Requests, ReqShape, Stored
<1>2. CASE Go(r, [reqs[r] EXCEPT !.stage = "invalid"])
  <2> DEFINE t == [reqs[r] EXCEPT !.stage = "invalid"]
  <2>1. t.stage = "invalid" \/ t.stage = "find"
    BY DEF FindAdmin, In
  <2>2. t.password = reqs[r].password
    OBVIOUS
  <2> HIDE DEF t
  <2>3. ReqShape(t)
    BY <1>1, <2>1, <2>2 DEF ReqShape, Acting
  <2>4. Go(r, t)
    BY <1>2 DEF t
  <2> QED BY <1>1, <2>3, <2>4, GoRequests, StoredKept DEF IInv
<1>3. ASSUME NEW a \in DOMAIN accounts,
             Go(r, [stage |-> "verified", admin |-> a, password |-> reqs[r].password, earlier |-> DOMAIN sessions])
      PROVE  IInv'
  <2> DEFINE t == [stage |-> "verified", admin |-> a, password |-> reqs[r].password, earlier |-> DOMAIN sessions]
  <2>1. ReqShape(t)
    BY <1>1 DEF ReqShape
  <2> HIDE DEF t
  <2>2. Go(r, t)
    BY <1>3 DEF t
  <2> QED BY <1>1, <2>1, <2>2, GoRequests, StoredKept DEF IInv
<1> QED BY <1>2, <1>3 DEF FindAdmin

LEMMA RecordLoginFailureIInv ==
  ASSUME IInv, NEW r \in Request, RecordLoginFailure(r)
  PROVE  IInv'
BY EndRequests, StoredKept DEF RecordLoginFailure, IInv, Stored

(* A session of an old password is inserted as one that comes late.         *)
LEMMA CreateLoginSessionIInv ==
  ASSUME IInv, NEW r \in Request, CreateLoginSession(r)
  PROVE  IInv'
<1> DEFINE t == reqs[r]
           row == NewSession(t)
<1>1. t.admin \in DOMAIN accounts /\ t.password \in Password
  BY DEF CreateLoginSession, In, IInv, Requests, ReqShape, Acting
<1>2. PICK s \in Unused :
        /\ sessions' = [x \in DOMAIN sessions \cup {s} |-> IF x = s THEN row ELSE sessions[x]]
        /\ Go(r, [stage |-> "created", admin |-> t.admin, session |-> s])
  BY DEF CreateLoginSession
<1>3. accounts' = accounts
  BY DEF CreateLoginSession
<1>4. /\ row \in SessionRow /\ row.admin = t.admin /\ row.password = t.password
      /\ ~row.delivered /\ (row.late <=> accounts[t.admin].password # t.password)
  <2>1. row.admin = t.admin /\ row.password = t.password
        /\ ~row.delivered /\ (row.late <=> accounts[t.admin].password # t.password)
    BY DEF NewSession
  <2>2. t.admin \in Admin
    BY <1>1 DEF IInv, AccountsShape
  <2> QED BY <1>1, <2>1, <2>2 DEF NewSession, SessionRow
<1>5. Requests'
  <2> DEFINE u == [stage |-> "created", admin |-> t.admin, session |-> s]
  <2>1. ReqShape(u)
    BY <1>1 DEF ReqShape
  <2>2. Go(r, u)
    BY <1>2
  <2> HIDE DEF u
  <2> QED BY <1>3, <2>1, <2>2, GoRequests DEF IInv
<1> HIDE DEF row
<1>6. SessionsShape'
  BY <1>1, <1>2, <1>3, <1>4 DEF IInv, SessionsShape
<1>7. OldPasswordIsOut'
  BY <1>2, <1>3, <1>4 DEF IInv, OldPasswordIsOut
<1>8. DisabledHoldsNone'
  BY <1>2, <1>3, <1>4 DEF IInv, DisabledHoldsNone
<1> QED BY <1>3, <1>5, <1>6, <1>7, <1>8 DEF IInv, AccountsShape

LEMMA SelectActiveIInv ==
  ASSUME IInv, NEW r \in Request, SelectActive(r)
  PROVE  IInv'
<1> DEFINE t == [stage |-> "excess", session |-> reqs[r].session, admin |-> reqs[r].admin,
                 excess |-> Excess(reqs[r].admin, reqs[r].session)]
<1>1. ReqShape(t)
  BY DEF SelectActive, In, IInv, Requests, ReqShape, Acting
<1>2. Go(r, t) /\ UNCHANGED <<accounts, sessions>>
  BY DEF SelectActive, Stored
<1> HIDE DEF t
<1> QED BY <1>1, <1>2, GoRequests, StoredKept DEF IInv

LEMMA RevokeExcessIInv ==
  ASSUME IInv, NEW r \in Request, RevokeExcess(r)
  PROVE  IInv'
<1> DEFINE t == reqs[r]
           left == DOMAIN sessions \ t.excess
           u == [stage |-> "answer", session |-> t.session, admin |-> t.admin]
<1>1. ReqShape(u)
  BY DEF RevokeExcess, In, IInv, Requests, ReqShape, Acting
<1>2. /\ Go(r, u) /\ Same
      /\ sessions' = [s \in left |-> IF s = t.session THEN [sessions[s] EXCEPT !.settled = TRUE] ELSE sessions[s]]
  BY DEF RevokeExcess, Same
<1> HIDE DEF u
<1>3. Requests'
  BY <1>1, <1>2, GoRequests DEF IInv, Same
<1>4. \A s \in DOMAIN sessions : sessions[s] \in SessionRow
  BY DEF IInv, SessionsShape
<1>5. \A s \in left : /\ sessions'[s] \in SessionRow
                      /\ sessions'[s].admin = sessions[s].admin
                      /\ sessions'[s].password = sessions[s].password
                      /\ sessions'[s].late = sessions[s].late /\ sessions'[s].kept = sessions[s].kept
                      /\ sessions'[s].delivered = sessions[s].delivered
  BY <1>2, <1>4 DEF SessionRow
<1>6. DOMAIN sessions' = left /\ sessions' = [s \in left |-> sessions'[s]]
  BY <1>2
<1>7. sessions' \in [DOMAIN sessions' -> SessionRow]
  BY <1>5, <1>6
<1> QED BY <1>2, <1>3, <1>5, <1>6, <1>7, FewerSessions

(* A row of which one column that the invariant does not look at changes.   *)
LEMMA ColumnIInv ==
  ASSUME IInv, Requests', Same, NEW s \in DOMAIN sessions, NEW row \in SessionRow,
         sessions' = [sessions EXCEPT ![s] = row],
         row.admin = sessions[s].admin, row.password = sessions[s].password,
         row.late = sessions[s].late, row.kept = sessions[s].kept,
         row.delivered => sessions[s].delivered \/ accounts[sessions[s].admin].active
  PROVE  IInv'
<1>1. sessions \in [DOMAIN sessions -> SessionRow]
  BY DEF IInv, SessionsShape
<1>2. DOMAIN sessions' = DOMAIN sessions /\ sessions' \in [DOMAIN sessions' -> SessionRow]
  BY <1>1
<1>3. \A x \in DOMAIN sessions : sessions'[x] = IF x = s THEN row ELSE sessions[x]
  BY <1>1
<1> QED BY <1>2, <1>3, FewerSessions

\* The login hands out its token only while the account is active.
LEMMA AnswerLoginIInv ==
  ASSUME IInv, NEW r \in Request, AnswerLogin(r)
  PROVE  IInv'
<1> DEFINE s == reqs[r].session
<1>1. Requests' /\ Same
  BY EndRequests DEF AnswerLogin, IInv, Same
<1>2. CASE Usable(s) /\ sessions' = [sessions EXCEPT ![s].delivered = TRUE]
  <2> DEFINE row == [sessions[s] EXCEPT !.delivered = TRUE]
  <2>1. s \in DOMAIN sessions /\ accounts[sessions[s].admin].active
    BY <1>2 DEF Usable
  <2>2. sessions[s] \in SessionRow
    BY <2>1 DEF IInv, SessionsShape
  <2>3. /\ row \in SessionRow /\ row.admin = sessions[s].admin /\ row.password = sessions[s].password
        /\ row.late = sessions[s].late /\ row.kept = sessions[s].kept
    BY <2>2 DEF SessionRow
  <2>4. sessions' = [sessions EXCEPT ![s] = row]
    BY <1>2
  <2> HIDE DEF row, s
  <2> QED BY <1>1, <2>1, <2>3, <2>4, ColumnIInv
<1>3. CASE UNCHANGED sessions
  BY <1>1, <1>3, StoredKept DEF Same
<1> QED BY <1>2, <1>3 DEF AnswerLogin

-----------------------------------------------------------------------------
(* Requests with a session                                                  *)
LEMMA AuthenticateIInv ==
  ASSUME IInv, NEW r \in Request, NEW s \in Session, Authenticate(r, s)
  PROVE  IInv'
<1> DEFINE t == [stage |-> "handler", session |-> s, admin |-> sessions[s].admin,
                 name |-> accounts[sessions[s].admin].name]
<1>1. ReqShape(t)
  BY DEF Authenticate, Usable, IInv, SessionsShape, ReqShape
<1>2. Go(r, t) /\ UNCHANGED <<accounts, sessions>>
  BY DEF Authenticate, Stored
<1> HIDE DEF t
<1> QED BY <1>1, <1>2, GoRequests, StoredKept DEF IInv

LEMMA RevokeIInv ==
  ASSUME IInv, NEW r \in Request, Revoke(r) \/ RevokeOthers(r)
  PROVE  IInv'
<1>1. Requests' /\ Same
  BY EndRequests DEF Revoke, RevokeOthers, IInv, Same
<1>2. \E gone : Without(gone)
  BY DEF Revoke, RevokeOthers
<1> QED BY <1>1, <1>2, WithoutIInv

LEMMA VerifyCurrentIInv ==
  ASSUME IInv, NEW r \in Request, VerifyCurrent(r)
  PROVE  IInv'
<1> DEFINE t == [stage |-> "commit", session |-> reqs[r].session, admin |-> reqs[r].admin]
<1>1. ReqShape(t)
  BY DEF VerifyCurrent, In, IInv, Requests, ReqShape, Acting
<1>2. Go(r, t) /\ UNCHANGED <<accounts, sessions>>
  BY DEF VerifyCurrent, Stored
<1> HIDE DEF t
<1> QED BY <1>1, <1>2, GoRequests, StoredKept DEF IInv

(* A row of an account changes; its role or its name, or its password while *)
(* no session is left that does not say so.                                 *)
LEMMA AccountChange ==
  ASSUME IInv, NEW a \in DOMAIN accounts, NEW row \in Account, accounts' = [accounts EXCEPT ![a] = row]
  PROVE  /\ DOMAIN accounts' = DOMAIN accounts /\ AccountsShape'
         /\ accounts'[a] = row
         /\ \A b \in DOMAIN accounts \ {a} : accounts'[b] = accounts[b]
BY DEF IInv, AccountsShape

(* A new password leaves of the sessions of its account only those it keeps *)
(* on purpose.                                                              *)
LEMMA SetPasswordIInv ==
  ASSUME IInv, NEW a \in DOMAIN accounts, NEW p \in Password, NEW keep, SetPassword(a, p, keep),
         \A q \in DOMAIN reqs' : q \in DOMAIN reqs /\ reqs'[q] = reqs[q]
  PROVE  IInv'
<1> DEFINE row == [accounts[a] EXCEPT !.password = p]
           left == DOMAIN sessions \ (SessionsOf(a) \ keep)
<1>1. accounts[a] \in Account /\ \A s \in DOMAIN sessions : sessions[s] \in SessionRow
  BY DEF IInv, AccountsShape, SessionsShape
<1>2. row \in Account /\ row.active = accounts[a].active
  BY <1>1 DEF Account
<1>3. accounts' = [accounts EXCEPT ![a] = row]
  BY DEF SetPassword
<1> HIDE DEF row
<1>4. /\ DOMAIN accounts' = DOMAIN accounts /\ AccountsShape'
      /\ accounts'[a] = row
      /\ \A b \in DOMAIN accounts \ {a} : accounts'[b] = accounts[b]
  BY <1>2, <1>3, AccountChange
<1>5. /\ DOMAIN sessions' = left /\ sessions' = [s \in left |-> sessions'[s]]
      /\ \A s \in left : sessions'[s] = IF s \in keep THEN [sessions[s] EXCEPT !.kept = TRUE] ELSE sessions[s]
  BY DEF SetPassword
<1>6. \A s \in left : /\ sessions'[s] \in SessionRow
                      /\ sessions'[s].admin = sessions[s].admin
                      /\ sessions'[s].password = sessions[s].password
                      /\ sessions'[s].late = sessions[s].late
                      /\ sessions'[s].delivered = sessions[s].delivered
                      /\ IF s \in keep THEN sessions'[s].kept ELSE sessions'[s] = sessions[s]
  <2> SUFFICES ASSUME NEW s \in left
               PROVE  /\ sessions'[s] \in SessionRow
                      /\ sessions'[s].admin = sessions[s].admin
                      /\ sessions'[s].password = sessions[s].password
                      /\ sessions'[s].late = sessions[s].late
                      /\ sessions'[s].delivered = sessions[s].delivered
                      /\ IF s \in keep THEN sessions'[s].kept ELSE sessions'[s] = sessions[s]
    OBVIOUS
  <2>1. CASE s \in keep
    BY <1>1, <1>5, <2>1 DEF SessionRow
  <2>2. CASE s \notin keep
    BY <1>1, <1>5, <2>2
  <2> QED BY <2>1, <2>2
<1>7. \A s \in left : sessions[s].admin = a => s \in keep
  BY DEF SessionsOf
<1>8. Requests'
  BY <1>4, RestRequests DEF IInv
<1>9. SessionsShape'
  <2>1. sessions' \in [DOMAIN sessions' -> SessionRow]
    BY <1>5, <1>6
  <2> QED BY <1>4, <1>5, <1>6, <2>1 DEF IInv, SessionsShape
<1>10. OldPasswordIsOut'
  <2> SUFFICES ASSUME NEW s \in DOMAIN sessions', sessions'[s].password # accounts'[sessions'[s].admin].password
               PROVE  sessions'[s].late \/ sessions'[s].kept
    BY DEF OldPasswordIsOut
  <2>1. s \in left /\ s \in DOMAIN sessions
    BY <1>5
  <2>2. CASE sessions[s].admin = a
    BY <1>6, <1>7, <2>1, <2>2
  <2>3. CASE sessions[s].admin # a
    <3>1. accounts'[sessions[s].admin] = accounts[sessions[s].admin]
      BY <1>4, <2>1, <2>3 DEF IInv, SessionsShape
    <3> QED BY <1>6, <2>1, <3>1 DEF IInv, OldPasswordIsOut
  <2> QED BY <2>2, <2>3
<1>11. DisabledHoldsNone'
  <2> SUFFICES ASSUME NEW s \in DOMAIN sessions', sessions'[s].delivered
               PROVE  accounts'[sessions'[s].admin].active
    BY DEF DisabledHoldsNone
  <2>1. s \in left /\ s \in DOMAIN sessions
    BY <1>5
  <2>2. sessions[s].admin \in DOMAIN accounts /\ accounts[sessions[s].admin].active
    BY <1>6, <2>1 DEF IInv, SessionsShape, DisabledHoldsNone
  <2>3. accounts'[sessions[s].admin].active
    BY <1>2, <1>4, <2>2
  <2> QED BY <1>6, <2>1, <2>3
<1> QED BY <1>4, <1>8, <1>9, <1>10, <1>11 DEF IInv

(* Another column of the account changes, the sessions that go with it      *)
(* being gone.                                                              *)
LEMMA ColumnsIInv ==
  ASSUME IInv, NEW a \in DOMAIN accounts, NEW row \in Account, accounts' = [accounts EXCEPT ![a] = row],
         row.password = accounts[a].password,
         NEW gone, sessions' = [s \in DOMAIN sessions \ gone |-> sessions[s]],
         accounts[a].active => row.active \/ SessionsOf(a) \subseteq gone,
         \A q \in DOMAIN reqs' : q \in DOMAIN reqs /\ reqs'[q] = reqs[q]
  PROVE  IInv'
<1>1. /\ DOMAIN accounts' = DOMAIN accounts /\ AccountsShape'
      /\ accounts'[a] = row
      /\ \A b \in DOMAIN accounts \ {a} : accounts'[b] = accounts[b]
  BY AccountChange
<1>2. /\ DOMAIN sessions' = DOMAIN sessions \ gone
      /\ \A s \in DOMAIN sessions' : sessions'[s] = sessions[s]
      /\ sessions' = [s \in DOMAIN sessions' |-> sessions'[s]]
  OBVIOUS
<1>3. Requests'
  BY <1>1, RestRequests DEF IInv
<1>4. SessionsShape'
  <2>1. sessions' \in [DOMAIN sessions' -> SessionRow]
    BY <1>2 DEF IInv, SessionsShape
  <2> QED BY <1>1, <1>2, <2>1 DEF IInv, SessionsShape
<1>5. OldPasswordIsOut'
  <2>1. \A b \in DOMAIN accounts : accounts'[b].password = accounts[b].password
    BY <1>1
  <2> QED BY <1>2, <2>1 DEF IInv, SessionsShape, OldPasswordIsOut
<1>6. DisabledHoldsNone'
  <2> SUFFICES ASSUME NEW s \in DOMAIN sessions', sessions'[s].delivered
               PROVE  accounts'[sessions'[s].admin].active
    BY DEF DisabledHoldsNone
  <2>1. s \in DOMAIN sessions /\ s \notin gone /\ sessions'[s] = sessions[s]
        /\ sessions[s].admin \in DOMAIN accounts /\ accounts[sessions[s].admin].active
    BY <1>2 DEF IInv, SessionsShape, DisabledHoldsNone
  <2>2. CASE sessions[s].admin = a
    BY <1>1, <2>1, <2>2 DEF SessionsOf
  <2>3. CASE sessions[s].admin # a
    BY <1>1, <2>1, <2>3
  <2> QED BY <2>2, <2>3
<1> QED BY <1>1, <1>3, <1>4, <1>5, <1>6 DEF IInv

\* To leave the sessions alone is to take none of them away.
LEMMA WithoutNone ==
  ASSUME IInv, UNCHANGED sessions
  PROVE  sessions' = [s \in DOMAIN sessions \ {} |-> sessions[s]]
BY DEF IInv, SessionsShape

\* The other requests of a step of one that ends, or of none.
LEMMA RestOfEnd ==
  ASSUME NEW r, End(r)
  PROVE  \A q \in DOMAIN reqs' : q \in DOMAIN reqs /\ reqs'[q] = reqs[q]
BY DEF End

LEMMA SetUsernameIInv ==
  ASSUME IInv, NEW a \in DOMAIN accounts, SetUsername(a),
         NEW gone, sessions' = [s \in DOMAIN sessions \ gone |-> sessions[s]],
         \A q \in DOMAIN reqs' : q \in DOMAIN reqs /\ reqs'[q] = reqs[q]
  PROVE  IInv'
<1>1. PICK n \in Name : accounts' = [accounts EXCEPT ![a].name = n]
  BY DEF SetUsername
<1> DEFINE row == [accounts[a] EXCEPT !.name = n]
<1>2. accounts[a] \in Account
  BY DEF IInv, AccountsShape
<1>3. row \in Account /\ row.password = accounts[a].password /\ row.active = accounts[a].active
  BY <1>2 DEF Account
<1>4. accounts' = [accounts EXCEPT ![a] = row]
  BY <1>1
<1> HIDE DEF row
<1> QED BY <1>3, <1>4, ColumnsIInv

LEMMA CommitIInv ==
  ASSUME IInv, NEW r \in Request, ChangePassword(r) \/ ChangeUsername(r)
  PROVE  IInv'
<1>1. reqs[r].admin \in DOMAIN accounts
  BY DEF ChangePassword, ChangeUsername, In, IInv, Requests, ReqShape, Acting
<1>2. \A q \in DOMAIN reqs' : q \in DOMAIN reqs /\ reqs'[q] = reqs[q]
  BY RestOfEnd DEF ChangePassword, ChangeUsername
<1>3. CASE ChangePassword(r)
  <2>1. PICK p \in Password : SetPassword(reqs[r].admin, p, {reqs[r].session} \cap DOMAIN sessions)
    BY <1>3 DEF ChangePassword
  <2> QED BY <1>1, <1>2, <2>1, SetPasswordIInv
<1>4. CASE ChangeUsername(r)
  <2>1. SetUsername(reqs[r].admin) /\ UNCHANGED sessions
    BY <1>4 DEF ChangeUsername, Stored
  <2> DEFINE a == reqs[r].admin
             gone == {}
  <2>2. sessions' = [s \in DOMAIN sessions \ gone |-> sessions[s]]
    BY <2>1, WithoutNone
  <2>3. a \in DOMAIN accounts /\ SetUsername(a)
    BY <1>1, <2>1
  <2> HIDE DEF a, gone
  <2> QED BY <1>2, <2>2, <2>3, SetUsernameIInv
<1> QED BY <1>3, <1>4

LEMMA CutOffIInv ==
  ASSUME IInv, NEW r \in Request, CutOff(r)
  PROVE  IInv'
BY EndRequests, StoredKept DEF CutOff, IInv, Stored

-----------------------------------------------------------------------------
(* Outside the requests                                                     *)
LEMMA CreateAdminIInv ==
  ASSUME IInv, NEW a \in Admin, NEW role \in Role, NEW n \in Name, NEW p \in Password,
         CreateAdmin(a, role, n, p)
  PROVE  IInv'
<1> DEFINE row == [role |-> role, active |-> TRUE, name |-> n, password |-> p]
<1>1. /\ a \notin DOMAIN accounts /\ UNCHANGED <<sessions, reqs>>
      /\ accounts' = [b \in DOMAIN accounts \cup {a} |-> IF b = a THEN row ELSE accounts[b]]
  BY DEF CreateAdmin, Stored
<1>2. row \in Account
  BY DEF Account
<1> HIDE DEF row
<1>3. AccountsShape'
  BY <1>1, <1>2 DEF IInv, AccountsShape
<1>4. DOMAIN accounts \subseteq DOMAIN accounts' /\ \A b \in DOMAIN accounts : accounts'[b] = accounts[b]
  BY <1>1
<1>5. Requests'
  BY <1>1, <1>4, RestRequests DEF IInv
<1> QED BY <1>1, <1>3, <1>4, <1>5 DEF IInv, SessionsShape, OldPasswordIsOut, DisabledHoldsNone

\* An account that is disabled loses its sessions with it.
LEMMA UpdateAdminIInv ==
  ASSUME IInv, NEW a \in Admin, NEW role \in Role, NEW status \in {"ACTIVE", "DISABLED", "same"},
         UpdateAdmin(a, role, status)
  PROVE  IInv'
<1> DEFINE active == IF status = "same" THEN accounts[a].active ELSE status = "ACTIVE"
           row == [accounts[a] EXCEPT !.role = role, !.active = active]
           gone == IF status = "DISABLED" THEN SessionsOf(a) ELSE {}
<1>1. a \in DOMAIN accounts /\ reqs' = reqs
  BY DEF UpdateAdmin
<1>2. accounts \in [DOMAIN accounts -> Account] /\ accounts[a] \in Account
  BY <1>1 DEF IInv, AccountsShape
<1>3. active \in BOOLEAN
  BY <1>2 DEF Account
<1>4. /\ row \in Account /\ row.password = accounts[a].password /\ row.active = active
  BY <1>2, <1>3 DEF Account
<1>5. accounts' = [accounts EXCEPT ![a] = row]
  BY <1>1, <1>2 DEF UpdateAdmin, Account
<1>6. sessions' = [s \in DOMAIN sessions \ gone |-> sessions[s]]
  BY WithoutNone DEF UpdateAdmin, Without, Stored
<1>7. accounts[a].active => active \/ SessionsOf(a) \subseteq gone
  OBVIOUS
<1> HIDE DEF row, active, gone
<1> QED BY <1>1, <1>4, <1>5, <1>6, <1>7, ColumnsIInv

LEMMA UpdateMasterIInv ==
  ASSUME IInv, NEW a \in Admin, UpdateMaster(a) \/ ResetOwner(a)
  PROVE  IInv'
<1>1. a \in DOMAIN accounts /\ reqs' = reqs
  BY DEF UpdateMaster, ResetOwner
<1>2. ASSUME NEW p \in Password, SetPassword(a, p, {}) PROVE IInv'
  BY <1>1, <1>2, SetPasswordIInv
<1>3. CASE Without(SessionsOf(a)) /\ UNCHANGED accounts
  <2>1. Requests'
    BY <1>1, <1>3, RestRequests DEF IInv
  <2> QED BY <1>3, <2>1, WithoutIInv DEF Same
<1>4. CASE SetUsername(a) /\ Without(SessionsOf(a))
  BY <1>1, <1>4, SetUsernameIInv DEF Without
<1> QED BY <1>2, <1>3, <1>4 DEF UpdateMaster, ResetOwner

LEMMA ClockIInv ==
  ASSUME IInv, NEW s \in Session, Idle(s) \/ Expire(s)
  PROVE  IInv'
<1>1. reqs' = reqs /\ Same
  BY DEF Idle, Expire, Same
<1>2. Requests'
  BY <1>1, RestRequests DEF IInv, Same
<1>3. CASE Idle(s)
  <2> DEFINE row == [sessions[s] EXCEPT !.idle = TRUE]
  <2>1. s \in DOMAIN sessions /\ sessions[s] \in SessionRow
    BY <1>3 DEF Idle, IInv, SessionsShape
  <2>2. /\ row \in SessionRow /\ row.admin = sessions[s].admin /\ row.password = sessions[s].password
        /\ row.late = sessions[s].late /\ row.kept = sessions[s].kept
        /\ row.delivered = sessions[s].delivered
    BY <2>1 DEF SessionRow
  <2>3. sessions' = [sessions EXCEPT ![s] = row]
    BY <1>3 DEF Idle
  <2>4. row.delivered => sessions[s].delivered \/ accounts[sessions[s].admin].active
    BY <2>2
  <2> HIDE DEF row
  <2> QED BY <1>1, <1>2, <2>1, <2>2, <2>3, <2>4, ColumnIInv
<1>4. CASE Expire(s)
  BY <1>1, <1>2, <1>4, WithoutIInv DEF Expire
<1> QED BY <1>3, <1>4

LEMMA NextIInv == IInv /\ [Next]_vars => IInv'
<1> SUFFICES ASSUME IInv, [Next]_vars PROVE IInv'
  OBVIOUS
<1>1. CASE SignIn
  BY <1>1, LoginIInv, FindAdminIInv, RecordLoginFailureIInv, CreateLoginSessionIInv, SelectActiveIInv,
     RevokeExcessIInv, AnswerLoginIInv, CutOffIInv DEF SignIn
<1>2. CASE Handle
  BY <1>2, AuthenticateIInv, RevokeIInv, VerifyCurrentIInv, CommitIInv DEF Handle
<1>3. CASE \E a \in Admin, role \in Role, n \in Name, p \in Password : CreateAdmin(a, role, n, p)
  BY <1>3, CreateAdminIInv
<1>4. CASE \E a \in Admin, role \in Role, status \in {"ACTIVE", "DISABLED", "same"} : UpdateAdmin(a, role, status)
  BY <1>4, UpdateAdminIInv
<1>5. CASE \E a \in Admin : UpdateMaster(a) \/ ResetOwner(a)
  BY <1>5, UpdateMasterIInv
<1>6. CASE \E s \in Session : Idle(s) \/ Expire(s)
  BY <1>6, ClockIInv
<1>7. CASE (\E n \in Name, i \in Ip : Forget(n, i)) \/ UNCHANGED vars
  <2>1. UNCHANGED <<accounts, sessions, reqs>>
    BY <1>7 DEF Forget, Stored, vars
  <2>2. Requests'
    BY <2>1, RestRequests DEF IInv
  <2> QED BY <2>1, <2>2, StoredKept
<1> QED BY <1>1, <1>2, <1>3, <1>4, <1>5, <1>6, <1>7 DEF Next, Outside

LEMMA InvariantHolds == Spec => []IInv
BY InitIInv, NextIInv, PTL DEF Spec

-----------------------------------------------------------------------------
(* A session of an earlier password is alive only if a change kept it, or   *)
(* if its login was still hashing when the password changed                 *)
(* (changePassword, updateMaster and the script that resets the OWNER).     *)
THEOREM OldPasswordIsAlwaysOut == Spec => []OldPasswordIsOut
<1>1. IInv => OldPasswordIsOut
  BY DEF IInv
<1> QED BY <1>1, InvariantHolds, PTL

(* No token that was handed out is alive while its account is disabled      *)
(* (updateAdmin), whatever login was on its way.                            *)
THEOREM DisabledAlwaysHoldsNone == Spec => []DisabledHoldsNone
<1>1. IInv => DisabledHoldsNone
  BY DEF IInv
<1> QED BY <1>1, InvariantHolds, PTL

-----------------------------------------------------------------------------
(* The limit of the sessions.  A login that has selected what it will       *)
(* revoke is ahead of the database: the bound has to hold of what is left   *)
(* once any of these logins have revoked it, each settling its session.     *)
Pending == {r \in DOMAIN reqs : reqs[r].stage = "excess"}

Left(Q, a) == {s \in SessionsOf(a) : /\ sessions[s].settled \/ \E q \in Q : reqs[q].session = s
                                     /\ \A q \in Q : s \notin reqs[q].excess}

Within == \A a \in Admin, Q \in SUBSET Pending : Cardinality(Left(Q, a)) <= MaxSessions

\* The session of a login belongs to its account as long as it is there.
Owned == \A r \in DOMAIN reqs :
  reqs[r].stage = "created" /\ reqs[r].session \in DOMAIN sessions =>
    sessions[reqs[r].session].admin = reqs[r].admin

Placed == DOMAIN sessions \subseteq Session /\ IsFiniteSet(DOMAIN sessions) /\ Ordered

Typed == \A r \in DOMAIN reqs : r \in Request /\ (LoginState(reqs[r]) \/ OwnState(reqs[r]))

LimitInv == Placed /\ Owned /\ Within

-----------------------------------------------------------------------------
(* Of sessions in an order, fewer than n have fewer than n newer ones: the  *)
(* numbers of newer ones differ from each other.                            *)
LEMMA NewestAreFew ==
  ASSUME Placed, NEW mine \in SUBSET (DOMAIN sessions), NEW n \in Nat,
         NEW K, \A s : s \in K <=> s \in mine /\ Cardinality({x \in mine : <<s, x>> \in order}) < n
  PROVE  IsFiniteSet(K) /\ Cardinality(K) <= n
<1> DEFINE newer(s) == {x \in mine : <<s, x>> \in order}
           rank == [s \in K |-> Cardinality(newer(s))]
<1>1. IsFiniteSet(mine)
  BY FS_Subset DEF Placed
<1>2. K \in SUBSET mine
  OBVIOUS
<1>3. IsFiniteSet(K)
  BY <1>1, <1>2, FS_Subset
<1>4. \A s : IsFiniteSet(newer(s)) /\ Cardinality(newer(s)) \in Nat
  <2> TAKE s
  <2>1. newer(s) \in SUBSET mine
    OBVIOUS
  <2>2. IsFiniteSet(newer(s))
    BY <1>1, <2>1, FS_Subset
  <2> QED BY <2>2, FS_CardinalityType
<1>5. \A s, y \in mine : <<s, y>> \in order => Cardinality(newer(y)) < Cardinality(newer(s))
  <2> SUFFICES ASSUME NEW s \in mine, NEW y \in mine, <<s, y>> \in order
               PROVE  Cardinality(newer(y)) < Cardinality(newer(s))
    OBVIOUS
  <2>1. \A x \in newer(y) : x \in newer(s)
    BY DEF Placed, Ordered
  <2>2. y \in newer(s) /\ y \notin newer(y)
    BY DEF Placed, Ordered
  <2> DEFINE A == newer(y)
             B == newer(s)
  <2>3. A \in SUBSET B /\ A # B
    BY <2>1, <2>2
  <2>4. IsFiniteSet(B) /\ Cardinality(A) \in Nat /\ Cardinality(B) \in Nat
    BY <1>4
  <2> HIDE DEF A, B
  <2>5. Cardinality(A) <= Cardinality(B) /\ Cardinality(B) # Cardinality(A)
    BY <2>3, <2>4, FS_Subset
  <2>6. Cardinality(A) < Cardinality(B)
    BY <2>4, <2>5
  <2> QED BY <2>6 DEF A, B
<1>6. rank \in [K -> 0..(n - 1)]
  <2> SUFFICES ASSUME NEW s \in K PROVE rank[s] \in 0..(n - 1)
    OBVIOUS
  <2>1. rank[s] = Cardinality(newer(s)) /\ rank[s] < n
    OBVIOUS
  <2>2. rank[s] \in Nat
    BY <1>4, <2>1
  <2> HIDE DEF rank
  <2> QED BY <2>1, <2>2
<1>7. \A s, y \in K : rank[s] = rank[y] => s = y
  <2> SUFFICES ASSUME NEW s \in K, NEW y \in K, s # y PROVE rank[s] # rank[y]
    OBVIOUS
  <2>1. s \in mine /\ y \in mine
    OBVIOUS
  <2>2. <<s, y>> \in order \/ <<y, s>> \in order
    BY <2>1 DEF Placed, Ordered
  <2>3. rank[s] = Cardinality(newer(s)) /\ rank[y] = Cardinality(newer(y))
    OBVIOUS
  <2>4. Cardinality(newer(s)) \in Nat /\ Cardinality(newer(y)) \in Nat
    BY <1>4
  <2>5. Cardinality(newer(y)) < Cardinality(newer(s)) \/ Cardinality(newer(s)) < Cardinality(newer(y))
    BY <1>5, <2>1, <2>2
  <2> HIDE DEF rank, newer
  <2> QED BY <2>3, <2>4, <2>5
<1> HIDE DEF rank, newer
<1>8. IsFiniteSet(0..(n - 1)) /\ Cardinality(0..(n - 1)) = n
  BY FS_Interval
<1>9. Cardinality(K) \in Nat
  BY <1>3, FS_CardinalityType
<1>10. ~(n < Cardinality(K))
  BY <1>3, <1>6, <1>7, <1>8, FS_PigeonHole
<1> QED BY <1>3, <1>9, <1>10

(* What the selection of a login leaves of its account: the newest and its  *)
(* own.                                                                     *)
LEMMA KeptAreFew ==
  ASSUME Placed, NEW a, NEW keep
  PROVE  /\ IsFiniteSet(SessionsOf(a) \ Excess(a, keep))
         /\ Cardinality(SessionsOf(a) \ Excess(a, keep)) <= MaxSessions
<1> DEFINE mine == SessionsOf(a) \ {keep}
           K == mine \ Excess(a, keep)
<1>0. MaxSessions \in Nat \ {0} /\ MaxSessions - 1 \in Nat
  BY SessionsAssumption
<1>1. mine \in SUBSET (DOMAIN sessions)
  BY DEF SessionsOf
<1>2. \A s : s \in K <=> s \in mine /\ Cardinality({x \in mine : <<s, x>> \in order}) < MaxSessions - 1
  <2> SUFFICES ASSUME NEW s \in mine
               PROVE  Cardinality({x \in mine : <<s, x>> \in order}) < MaxSessions - 1
                        <=> ~(Cardinality({x \in mine : <<s, x>> \in order}) >= MaxSessions - 1)
    BY DEF Excess
  <2>1. {x \in mine : <<s, x>> \in order} \in SUBSET (DOMAIN sessions)
    BY <1>1
  <2>2. Cardinality({x \in mine : <<s, x>> \in order}) \in Nat
    BY <2>1, FS_Subset, FS_CardinalityType DEF Placed
  <2> QED BY <1>0, <2>2
<1>3. IsFiniteSet(K) /\ Cardinality(K) <= MaxSessions - 1
  <2> HIDE DEF mine, K
  <2> QED BY <1>0, <1>1, <1>2, NewestAreFew
<1>4. SessionsOf(a) \ Excess(a, keep) \in SUBSET (K \cup {keep})
  OBVIOUS
<1> HIDE DEF K
<1>5. IsFiniteSet(K \cup {keep}) /\ Cardinality(K \cup {keep}) <= MaxSessions
  <2>1. Cardinality(K) \in Nat
    BY <1>3, FS_CardinalityType
  <2> QED BY <1>0, <1>3, <2>1, FS_AddElement
<1>6. Cardinality(K \cup {keep}) \in Nat
  BY <1>5, FS_CardinalityType
<1> DEFINE R == SessionsOf(a) \ Excess(a, keep)
<1> HIDE DEF R
<1>7. IsFiniteSet(R) /\ Cardinality(R) <= Cardinality(K \cup {keep})
  BY <1>4, <1>5, FS_Subset DEF R
<1>8. Cardinality(R) \in Nat
  BY <1>7, FS_CardinalityType
<1>9. IsFiniteSet(R) /\ Cardinality(R) <= MaxSessions
  BY <1>0, <1>5, <1>6, <1>7, <1>8
<1> QED BY <1>9 DEF R

-----------------------------------------------------------------------------
(* The bound moves with the sessions and the selections: what is left of an *)
(* account by requests Q of the next state is part of what requests of this *)
(* one leave of it.                                                         *)
LEMMA LeftShrinks ==
  ASSUME Placed, Within, NEW a \in Admin, NEW Q \in SUBSET Pending, NEW L,
         \A s \in L : s \in Left(Q, a)
  PROVE  Cardinality(L) <= MaxSessions
<1>1. Left(Q, a) \in SUBSET (DOMAIN sessions)
  BY DEF Left, SessionsOf
<1>2. IsFiniteSet(Left(Q, a))
  BY <1>1, FS_Subset DEF Placed
<1>3. L \in SUBSET Left(Q, a)
  OBVIOUS
<1>4. IsFiniteSet(L) /\ Cardinality(L) <= Cardinality(Left(Q, a))
  BY <1>2, <1>3, FS_Subset
<1>5. Cardinality(L) \in Nat /\ Cardinality(Left(Q, a)) \in Nat
  BY <1>2, <1>4, FS_CardinalityType
<1>6. Cardinality(Left(Q, a)) <= MaxSessions
  BY DEF Within
<1> QED BY <1>4, <1>5, <1>6, SessionsAssumption

(* Steps that add no session, settle none and select nothing: sessions may  *)
(* go and requests may move to other stages.                                *)
Fewer ==
  /\ DOMAIN sessions' \subseteq DOMAIN sessions
  /\ order' = order \cap ((DOMAIN sessions') \X (DOMAIN sessions'))
  /\ \A s \in DOMAIN sessions' : sessions'[s].admin = sessions[s].admin
                                 /\ (sessions'[s].settled => sessions[s].settled)

Elsewhere == \A q \in DOMAIN reqs' : \/ q \in DOMAIN reqs /\ reqs'[q] = reqs[q]
                                     \/ reqs'[q].stage # "created" /\ reqs'[q].stage # "excess"

Calm == Fewer /\ Elsewhere

\* What is left of the sessions is in its order.
LEMMA FewerPlaced ==
  ASSUME Placed, DOMAIN sessions' \subseteq DOMAIN sessions,
         order' = order \cap ((DOMAIN sessions') \X (DOMAIN sessions'))
  PROVE  Placed'
<1>1. DOMAIN sessions' \in SUBSET (DOMAIN sessions)
  OBVIOUS
<1>2. IsFiniteSet(DOMAIN sessions')
  BY <1>1, FS_Subset DEF Placed
<1>3. \A x, y \in DOMAIN sessions' : <<x, y>> \in order' <=> <<x, y>> \in order
  OBVIOUS
<1>4. Ordered'
  BY <1>3 DEF Placed, Ordered
<1> QED BY <1>2, <1>4 DEF Placed

LEMMA CalmLimit ==
  ASSUME LimitInv, Calm
  PROVE  LimitInv'
<1>1. Placed'
  BY FewerPlaced DEF LimitInv, Calm, Fewer, Elsewhere
<1>2. Owned'
  BY DEF LimitInv, Calm, Fewer, Elsewhere, Owned
<1>3. Within'
  <2> SUFFICES ASSUME NEW a \in Admin, NEW Q \in SUBSET Pending'
               PROVE  Cardinality(Left(Q, a)') <= MaxSessions
    BY DEF Within
  <2>1. \A q \in Q : q \in Pending /\ reqs'[q] = reqs[q]
    BY DEF Pending, Calm, Fewer, Elsewhere
  <2>2. \A s \in Left(Q, a)' : s \in Left(Q, a)
    <3> SUFFICES ASSUME NEW s \in Left(Q, a)' PROVE s \in Left(Q, a)
      OBVIOUS
    <3>1. s \in DOMAIN sessions' /\ sessions'[s].admin = a
          /\ (sessions'[s].settled \/ \E q \in Q : reqs'[q].session = s)
          /\ \A q \in Q : s \notin reqs'[q].excess
      BY DEF Left, SessionsOf
    <3>2. s \in DOMAIN sessions /\ sessions[s].admin = a
      BY <3>1 DEF Calm, Fewer, Elsewhere
    <3>3. sessions[s].settled \/ \E q \in Q : reqs[q].session = s
      BY <2>1, <3>1 DEF Calm, Fewer, Elsewhere
    <3>4. \A q \in Q : s \notin reqs[q].excess
      BY <2>1, <3>1
    <3> QED BY <3>2, <3>3, <3>4 DEF Left, SessionsOf
  <2>3. Q \in SUBSET Pending
    BY <2>1
  <2> DEFINE L == Left(Q, a)'
  <2>4. \A s \in L : s \in Left(Q, a)
    BY <2>2
  <2> HIDE DEF L
  <2>5. Cardinality(L) <= MaxSessions
    BY <2>3, <2>4, LeftShrinks DEF LimitInv
  <2> QED BY <2>5 DEF L
<1> QED BY <1>1, <1>2, <1>3 DEF LimitInv

-----------------------------------------------------------------------------
(* A new session is not settled, and no request knows it.                   *)
LEMMA CreateLimit ==
  ASSUME Typed, LimitInv, NEW r \in Request, CreateLoginSession(r)
  PROVE  LimitInv'
<1> DEFINE t == reqs[r]
           D == DOMAIN sessions
<1>1. PICK s \in Unused, older \in SUBSET D :
        /\ \A x \in older, y \in D : <<y, x>> \in order => y \in older
        /\ order' = order \cup (older \X {s}) \cup ({s} \X (D \ older))
        /\ sessions' = [x \in D \cup {s} |-> IF x = s THEN NewSession(t) ELSE sessions[x]]
        /\ Go(r, [stage |-> "created", admin |-> t.admin, session |-> s])
  BY DEF CreateLoginSession
<1>2. s \in Session /\ s \notin D
  BY DEF Unused
<1>3. DOMAIN sessions' = D \cup {s} /\ sessions'[s] = NewSession(t)
      /\ \A x \in D : sessions'[x] = sessions[x]
  BY <1>1, <1>2
<1>4. NewSession(t).admin = t.admin /\ ~NewSession(t).settled
  BY DEF NewSession
<1>5. \A q \in DOMAIN reqs' :
        \/ q = r /\ reqs'[q].stage = "created" /\ reqs'[q].admin = t.admin /\ reqs'[q].session = s
        \/ q # r /\ q \in DOMAIN reqs /\ reqs'[q] = reqs[q]
  BY <1>1 DEF Go
<1>6. Placed'
  <2>1. IsFiniteSet(DOMAIN sessions')
    BY <1>3, FS_AddElement DEF LimitInv, Placed
  <2>2. DOMAIN sessions' \subseteq Session
    BY <1>2, <1>3 DEF LimitInv, Placed
  <2>3. \A x, y \in D : <<x, y>> \in order' <=> <<x, y>> \in order
    BY <1>1, <1>2
  <2>4. \A x \in D : (<<x, s>> \in order' <=> x \in older) /\ (<<s, x>> \in order' <=> x \notin older)
    BY <1>1, <1>2 DEF LimitInv, Placed, Ordered
  <2>5. <<s, s>> \notin order'
    BY <1>1, <1>2 DEF LimitInv, Placed, Ordered
  <2>6. order' \subseteq (DOMAIN sessions') \X (DOMAIN sessions')
    BY <1>1, <1>3 DEF LimitInv, Placed, Ordered
  <2>7. \A x, y \in D \cup {s} : <<x, y>> \in order' <=> x # y /\ <<y, x>> \notin order'
    <3>1. \A x, y \in D : <<x, y>> \in order' <=> x # y /\ <<y, x>> \notin order'
      BY <2>3 DEF LimitInv, Placed, Ordered
    <3> QED BY <1>2, <2>4, <2>5, <3>1
  <2>8. \A x, y, z \in D \cup {s} : <<x, y>> \in order' /\ <<y, z>> \in order' => <<x, z>> \in order'
    <3>1. \A x, y, z \in D : <<x, y>> \in order' /\ <<y, z>> \in order' => <<x, z>> \in order'
      BY <2>3 DEF LimitInv, Placed, Ordered
    <3>2. \A x, y \in D : <<x, y>> \in order' /\ y \in older => x \in older
      BY <1>1, <2>3
    <3> SUFFICES ASSUME NEW x \in D \cup {s}, NEW y \in D \cup {s}, NEW z \in D \cup {s},
                        <<x, y>> \in order', <<y, z>> \in order'
                 PROVE  <<x, z>> \in order'
      OBVIOUS
    <3>3. CASE x \in D /\ y \in D /\ z \in D
      BY <3>1, <3>3
    <3>4. CASE x = s
      <4>1. y \in D /\ y \notin older
        BY <2>4, <2>5, <3>4
      <4>2. z \in D /\ z \notin older
        BY <2>4, <3>2, <4>1
      <4> QED BY <2>4, <3>4, <4>2
    <3>5. CASE y = s /\ x # s
      <4>1. x \in D /\ x \in older
        BY <2>4, <3>5
      <4>2. z \in D /\ z \notin older
        BY <2>4, <2>5, <3>5
      <4>3. x # z /\ <<z, x>> \notin order'
        BY <3>2, <4>1, <4>2
      <4> QED BY <2>7, <4>1, <4>2, <4>3
    <3>6. CASE z = s /\ x \in D /\ y \in D
      BY <2>4, <3>2, <3>6
    <3> QED BY <3>3, <3>4, <3>5, <3>6
  <2>9. Ordered'
    BY <1>3, <2>6, <2>7, <2>8 DEF Ordered
  <2> QED BY <2>1, <2>2, <2>9 DEF Placed
<1>7. Owned'
  <2> SUFFICES ASSUME NEW q \in DOMAIN reqs', reqs'[q].stage = "created", reqs'[q].session \in DOMAIN sessions'
               PROVE  sessions'[reqs'[q].session].admin = reqs'[q].admin
    BY DEF Owned
  <2>1. CASE q = r
    BY <1>3, <1>4, <1>5, <2>1
  <2>2. CASE q # r
    <3>1. q \in DOMAIN reqs /\ reqs'[q] = reqs[q]
      BY <1>5, <2>2
    <3>2. CASE reqs[q].session \in D
      BY <1>3, <3>1, <3>2 DEF LimitInv, Owned
    <3>3. CASE reqs[q].session = s
      <4>1. ~Refers(q, s)
        BY <3>1 DEF Unused
      <4>2. "session" \in DOMAIN reqs[q]
        BY <3>1 DEF Typed, LoginState, OwnState
      <4> QED BY <3>1, <3>3, <4>1, <4>2 DEF Refers
    <3> QED BY <1>3, <3>1, <3>2, <3>3
  <2> QED BY <2>1, <2>2
<1>8. Within'
  <2> SUFFICES ASSUME NEW a \in Admin, NEW Q \in SUBSET Pending'
               PROVE  Cardinality(Left(Q, a)') <= MaxSessions
    BY DEF Within
  <2>1. \A q \in Q : q \in Pending /\ reqs'[q] = reqs[q]
    BY <1>5 DEF Pending
  <2>2. \A q \in Q : reqs[q].session # s
    <3> SUFFICES ASSUME NEW q \in Q PROVE reqs[q].session # s
      OBVIOUS
    <3>1. q \in DOMAIN reqs /\ reqs[q].stage = "excess"
      BY <2>1 DEF Pending
    <3>2. ~Refers(q, s)
      BY <3>1 DEF Unused
    <3>3. "session" \in DOMAIN reqs[q]
      BY <3>1 DEF Typed, LoginState, OwnState
    <3> QED BY <3>2, <3>3 DEF Refers
  <2> DEFINE L == Left(Q, a)'
  <2>3. \A x \in L : x \in Left(Q, a)
    <3> SUFFICES ASSUME NEW x \in L PROVE x \in Left(Q, a)
      OBVIOUS
    <3>1. x \in DOMAIN sessions' /\ sessions'[x].admin = a
          /\ (sessions'[x].settled \/ \E q \in Q : reqs'[q].session = x)
          /\ \A q \in Q : x \notin reqs'[q].excess
      BY DEF Left, SessionsOf
    <3>2. x # s
      BY <1>3, <1>4, <2>1, <2>2, <3>1
    <3>3. x \in D /\ sessions'[x] = sessions[x]
      BY <1>3, <3>1, <3>2
    <3>4. sessions[x].settled \/ \E q \in Q : reqs[q].session = x
      BY <2>1, <3>1, <3>3
    <3>5. \A q \in Q : x \notin reqs[q].excess
      BY <2>1, <3>1
    <3> QED BY <3>1, <3>3, <3>4, <3>5 DEF Left, SessionsOf
  <2>4. Q \in SUBSET Pending
    BY <2>1
  <2> HIDE DEF L
  <2>5. Cardinality(L) <= MaxSessions
    BY <2>3, <2>4, LeftShrinks DEF LimitInv
  <2> QED BY <2>5 DEF L
<1> QED BY <1>6, <1>7, <1>8 DEF LimitInv

(* The selection of a login: with its own session settled and the excess    *)
(* gone, its account is within the limit whatever else is left out.         *)
LEMMA SelectLimit ==
  ASSUME LimitInv, NEW r \in Request, SelectActive(r)
  PROVE  LimitInv'
<1> DEFINE t == reqs[r]
<1>1. r \in DOMAIN reqs /\ t.stage = "created"
  BY DEF SelectActive, In
<1>2. /\ sessions' = sessions /\ order' = order
      /\ \A q \in DOMAIN reqs' :
           \/ q = r /\ reqs'[q].stage = "excess" /\ reqs'[q].session = t.session
              /\ reqs'[q].excess = Excess(t.admin, t.session)
           \/ q # r /\ q \in DOMAIN reqs /\ reqs'[q] = reqs[q]
  BY DEF SelectActive, Go, Stored
<1>3. Placed'
  BY <1>2 DEF LimitInv, Placed, Ordered
<1>4. Owned'
  BY <1>2 DEF LimitInv, Owned
<1>5. Within'
  <2> SUFFICES ASSUME NEW a \in Admin, NEW Q \in SUBSET Pending'
               PROVE  Cardinality(Left(Q, a)') <= MaxSessions
    BY DEF Within
  <2> DEFINE L == Left(Q, a)'
             P == Q \ {r}
  <2>1. \A q \in P : q \in Pending /\ reqs'[q] = reqs[q]
    BY <1>2 DEF Pending
  <2>2. P \in SUBSET Pending
    BY <2>1
  <2>3. \A s \in L : /\ s \in DOMAIN sessions /\ sessions[s].admin = a
                     /\ sessions[s].settled \/ \E q \in Q : reqs'[q].session = s
                     /\ \A q \in Q : s \notin reqs'[q].excess
    BY <1>2 DEF Left, SessionsOf
  <2>0. \A q \in Q : q \in DOMAIN reqs'
    BY DEF Pending
  <2>4. CASE r \in Q /\ t.admin = a
    <3> DEFINE R == SessionsOf(a) \ Excess(a, t.session)
    <3>1. \A s \in L : s \notin Excess(a, t.session)
      BY <1>2, <2>0, <2>3, <2>4
    <3>2. L \in SUBSET R
      BY <2>3, <3>1 DEF SessionsOf
    <3>3. IsFiniteSet(R) /\ Cardinality(R) <= MaxSessions
      BY KeptAreFew DEF LimitInv
    <3> HIDE DEF L, R
    <3>4. IsFiniteSet(L) /\ Cardinality(L) <= Cardinality(R)
      BY <3>2, <3>3, FS_Subset
    <3>5. Cardinality(L) \in Nat /\ Cardinality(R) \in Nat
      BY <3>3, <3>4, FS_CardinalityType
    <3>6. Cardinality(L) <= MaxSessions
      BY <3>3, <3>4, <3>5, SessionsAssumption
    <3> QED BY <3>6 DEF L
  <2>5. CASE r \notin Q \/ t.admin # a
    <3>1. \A s \in L : r \in Q => t.session # s
      BY <1>1, <2>3, <2>5 DEF LimitInv, Owned
    <3>2. \A s \in L : s \in Left(P, a)
      <4> SUFFICES ASSUME NEW s \in L PROVE s \in Left(P, a)
        OBVIOUS
      <4>1. s \in DOMAIN sessions /\ sessions[s].admin = a
        BY <2>3
      <4>2. sessions[s].settled \/ \E q \in P : reqs[q].session = s
        <5>1. ASSUME NEW q \in Q, reqs'[q].session = s PROVE q \in P /\ reqs[q].session = s
          BY <1>2, <2>0, <2>1, <3>1, <5>1
        <5> QED BY <2>3, <5>1
      <4>3. \A q \in P : s \notin reqs[q].excess
        BY <2>1, <2>3
      <4> QED BY <4>1, <4>2, <4>3 DEF Left, SessionsOf
    <3> HIDE DEF L, P
    <3>3. Cardinality(L) <= MaxSessions
      BY <2>2, <3>2, LeftShrinks DEF LimitInv
    <3> QED BY <3>3 DEF L
  <2> QED BY <2>4, <2>5
<1> QED BY <1>3, <1>4, <1>5 DEF LimitInv

(* The revocation makes true what was counted with: what is left with       *)
(* requests Q was left before with Q and this one.                          *)
LEMMA RevokeLimit ==
  ASSUME LimitInv, NEW r \in Request, RevokeExcess(r)
  PROVE  LimitInv'
<1> DEFINE t == reqs[r]
           left == DOMAIN sessions \ t.excess
<1>1. r \in DOMAIN reqs /\ t.stage = "excess"
  BY DEF RevokeExcess, In
<1>2. /\ sessions' = [s \in left |-> IF s = t.session THEN [sessions[s] EXCEPT !.settled = TRUE] ELSE sessions[s]]
      /\ order' = order \cap (left \X left)
      /\ \A q \in DOMAIN reqs' : \/ q = r /\ reqs'[q].stage = "answer"
                                 \/ q # r /\ q \in DOMAIN reqs /\ reqs'[q] = reqs[q]
  BY DEF RevokeExcess, Go
<1>3. DOMAIN sessions' = left
      /\ \A s \in left : /\ sessions'[s].admin = sessions[s].admin
                         /\ s # t.session => sessions'[s] = sessions[s]
  BY <1>2
<1>4. Placed'
  BY <1>2, <1>3, FewerPlaced DEF LimitInv
<1>5. Owned'
  BY <1>2, <1>3 DEF LimitInv, Owned
<1>6. Within'
  <2> SUFFICES ASSUME NEW a \in Admin, NEW Q \in SUBSET Pending'
               PROVE  Cardinality(Left(Q, a)') <= MaxSessions
    BY DEF Within
  <2> DEFINE L == Left(Q, a)'
             P == Q \cup {r}
  <2>1. \A q \in Q : q \in Pending /\ reqs'[q] = reqs[q]
    BY <1>2 DEF Pending
  <2>2. P \in SUBSET Pending
    BY <1>1, <2>1 DEF Pending
  <2>3. \A s \in L : s \in Left(P, a)
    <3> SUFFICES ASSUME NEW s \in L PROVE s \in Left(P, a)
      OBVIOUS
    <3>1. /\ s \in left /\ sessions'[s].admin = a
          /\ sessions'[s].settled \/ \E q \in Q : reqs'[q].session = s
          /\ \A q \in Q : s \notin reqs'[q].excess
      BY <1>3 DEF Left, SessionsOf
    <3>2. s \in DOMAIN sessions /\ sessions[s].admin = a /\ s \notin t.excess
      BY <1>3, <3>1
    <3>3. sessions[s].settled \/ \E q \in P : reqs[q].session = s
      BY <1>3, <2>1, <3>1
    <3>4. \A q \in P : s \notin reqs[q].excess
      BY <2>1, <3>1, <3>2
    <3> QED BY <3>2, <3>3, <3>4 DEF Left, SessionsOf
  <2> HIDE DEF L, P
  <2>4. Cardinality(L) <= MaxSessions
    BY <2>2, <2>3, LeftShrinks DEF LimitInv
  <2> QED BY <2>4 DEF L
<1> QED BY <1>4, <1>5, <1>6 DEF LimitInv

-----------------------------------------------------------------------------
(* All other steps are calm.                                                *)
LEMMA GoElsewhere ==
  ASSUME NEW r, NEW t, Go(r, t), t.stage # "created", t.stage # "excess"
  PROVE  Elsewhere
BY DEF Go, Elsewhere

LEMMA EndElsewhere ==
  ASSUME (\E r : End(r)) \/ reqs' = reqs
  PROVE  Elsewhere
BY DEF End, Elsewhere

LEMMA StoredFewer ==
  ASSUME Placed, UNCHANGED <<sessions, order>>
  PROVE  Fewer
<1>1. order \subseteq (DOMAIN sessions) \X (DOMAIN sessions)
  BY DEF Placed, Ordered
<1> QED BY <1>1 DEF Fewer

LEMMA WithoutFewer ==
  ASSUME NEW gone, Without(gone)
  PROVE  Fewer
<1>1. DOMAIN sessions' = DOMAIN sessions \ gone /\ \A s \in DOMAIN sessions' : sessions'[s] = sessions[s]
  BY DEF Without
<1>2. order' = order \cap ((DOMAIN sessions') \X (DOMAIN sessions'))
  BY <1>1 DEF Without
<1> QED BY <1>1, <1>2 DEF Fewer

LEMMA SetPasswordFewer ==
  ASSUME IInv, NEW a, NEW p, NEW keep, SetPassword(a, p, keep)
  PROVE  Fewer
<1> DEFINE left == DOMAIN sessions \ (SessionsOf(a) \ keep)
<1>1. /\ sessions' = [s \in left |-> IF s \in keep THEN [sessions[s] EXCEPT !.kept = TRUE] ELSE sessions[s]]
      /\ order' = order \cap (left \X left)
  BY DEF SetPassword
<1>2. \A s \in left : sessions[s] \in SessionRow
  BY DEF IInv, SessionsShape
<1>3. \A s \in left : sessions'[s].admin = sessions[s].admin /\ sessions'[s].settled = sessions[s].settled
  BY <1>1, <1>2 DEF SessionRow
<1>4. DOMAIN sessions' = left
  BY <1>1
<1> QED BY <1>1, <1>3, <1>4 DEF Fewer

LEMMA ColumnFewer ==
  ASSUME IInv, Placed, NEW s \in DOMAIN sessions, NEW row,
         row.admin = sessions[s].admin, row.settled = sessions[s].settled,
         sessions' = [sessions EXCEPT ![s] = row], order' = order
  PROVE  Fewer
<1>1. DOMAIN sessions' = DOMAIN sessions
      /\ \A x \in DOMAIN sessions : sessions'[x] = IF x = s THEN row ELSE sessions[x]
  BY DEF IInv, SessionsShape
<1>2. order \subseteq (DOMAIN sessions) \X (DOMAIN sessions)
  BY DEF Placed, Ordered
<1> QED BY <1>1, <1>2 DEF Fewer

LEMMA SignInCalm ==
  ASSUME IInv, Placed, NEW r \in Request,
         \/ \E n \in Name, i \in Ip, p \in Password : Login(r, n, i, p)
         \/ FindAdmin(r) \/ RecordLoginFailure(r) \/ AnswerLogin(r) \/ CutOff(r)
  PROVE  Calm
<1>1. ASSUME NEW n \in Name, NEW i \in Ip, NEW p \in Password, Login(r, n, i, p) PROVE Calm
  <2> DEFINE t == [stage |-> IF RecentFailures(n, i) >= Threshold THEN "limited" ELSE "find",
                   name |-> n, ip |-> i, password |-> p]
  <2>1. Go(r, t) /\ t.stage # "created" /\ t.stage # "excess"
    BY <1>1 DEF Login
  <2>2. UNCHANGED <<sessions, order>>
    BY <1>1 DEF Login, Stored
  <2> HIDE DEF t
  <2> QED BY <2>1, <2>2, GoElsewhere, StoredFewer DEF Calm
<1>2. CASE FindAdmin(r)
  <2> DEFINE t == [reqs[r] EXCEPT !.stage = "invalid"]
             u(a) == [stage |-> "verified", admin |-> a, password |-> reqs[r].password,
                      earlier |-> DOMAIN sessions]
  <2>1. Go(r, t) \/ \E a : Go(r, u(a))
    BY <1>2 DEF FindAdmin
  <2>2. t.stage = "invalid" \/ t.stage = "find"
    BY <1>2 DEF FindAdmin, In
  <2>3. \A a : u(a).stage = "verified"
    OBVIOUS
  <2>4. UNCHANGED <<sessions, order>>
    BY <1>2 DEF FindAdmin, Stored
  <2> HIDE DEF t, u
  <2>5. Elsewhere
    BY <2>1, <2>2, <2>3, GoElsewhere
  <2> QED BY <2>4, <2>5, StoredFewer DEF Calm
<1>3. CASE RecordLoginFailure(r) \/ CutOff(r)
  <2>1. UNCHANGED <<sessions, order>> /\ \E q : End(q)
    BY <1>3 DEF RecordLoginFailure, CutOff, Stored
  <2> QED BY <2>1, EndElsewhere, StoredFewer DEF Calm
<1>4. CASE AnswerLogin(r)
  <2> DEFINE s == reqs[r].session
  <2>1. order' = order /\ \E q : End(q)
    BY <1>4 DEF AnswerLogin
  <2>2. CASE Usable(s) /\ sessions' = [sessions EXCEPT ![s].delivered = TRUE]
    <3> DEFINE row == [sessions[s] EXCEPT !.delivered = TRUE]
    <3>1. s \in DOMAIN sessions /\ sessions[s] \in SessionRow
      BY <2>2 DEF Usable, IInv, SessionsShape
    <3>2. row.admin = sessions[s].admin /\ row.settled = sessions[s].settled
      BY <3>1 DEF SessionRow
    <3>3. sessions' = [sessions EXCEPT ![s] = row]
      BY <2>2
    <3> HIDE DEF row, s
    <3> QED BY <2>1, <3>1, <3>2, <3>3, ColumnFewer, EndElsewhere DEF Calm
  <2>3. CASE UNCHANGED sessions
    BY <2>1, <2>3, StoredFewer, EndElsewhere DEF Calm
  <2> QED BY <1>4, <2>2, <2>3 DEF AnswerLogin
<1> QED BY <1>1, <1>2, <1>3, <1>4

LEMMA HandleCalm ==
  ASSUME IInv, Placed, Handle
  PROVE  Calm
<1> PICK r \in Request :
      \/ \E s \in Session : Authenticate(r, s)
      \/ Revoke(r) \/ RevokeOthers(r) \/ VerifyCurrent(r) \/ ChangePassword(r) \/ ChangeUsername(r)
  BY DEF Handle
<1>1. ASSUME NEW s \in Session, Authenticate(r, s) PROVE Calm
  <2> DEFINE t == [stage |-> "handler", session |-> s, admin |-> sessions[s].admin,
                   name |-> accounts[sessions[s].admin].name]
  <2>1. Go(r, t) /\ t.stage # "created" /\ t.stage # "excess" /\ UNCHANGED <<sessions, order>>
    BY <1>1 DEF Authenticate, Stored
  <2> HIDE DEF t
  <2> QED BY <2>1, GoElsewhere, StoredFewer DEF Calm
<1>2. CASE Revoke(r) \/ RevokeOthers(r)
  <2>1. (\E gone : Without(gone)) /\ \E q : End(q)
    BY <1>2 DEF Revoke, RevokeOthers
  <2> QED BY <2>1, WithoutFewer, EndElsewhere DEF Calm
<1>3. CASE VerifyCurrent(r)
  <2> DEFINE t == [stage |-> "commit", session |-> reqs[r].session, admin |-> reqs[r].admin]
  <2>1. Go(r, t) /\ t.stage # "created" /\ t.stage # "excess" /\ UNCHANGED <<sessions, order>>
    BY <1>3 DEF VerifyCurrent, Stored
  <2> HIDE DEF t
  <2> QED BY <2>1, GoElsewhere, StoredFewer DEF Calm
<1>4. CASE ChangePassword(r)
  <2>1. (\E a, p, keep : SetPassword(a, p, keep)) /\ \E q : End(q)
    BY <1>4 DEF ChangePassword
  <2> QED BY <2>1, SetPasswordFewer, EndElsewhere DEF Calm
<1>5. CASE ChangeUsername(r)
  <2>1. UNCHANGED <<sessions, order>> /\ \E q : End(q)
    BY <1>5 DEF ChangeUsername, Stored
  <2> QED BY <2>1, StoredFewer, EndElsewhere DEF Calm
<1> QED BY <1>1, <1>2, <1>3, <1>4, <1>5

LEMMA OutsideCalm ==
  ASSUME IInv, Placed, Outside \/ UNCHANGED vars
  PROVE  Calm
<1>1. Elsewhere
  <2>1. reqs' = reqs
    BY DEF Outside, CreateAdmin, UpdateAdmin, UpdateMaster, ResetOwner, Idle, Expire, Forget, vars
  <2> QED BY <2>1, EndElsewhere
<1>2. CASE UNCHANGED <<sessions, order>>
  BY <1>2, StoredFewer, <1>1 DEF Calm
<1>3. CASE \E gone : Without(gone)
  BY <1>3, WithoutFewer, <1>1 DEF Calm
<1>4. CASE \E a, p, keep : SetPassword(a, p, keep)
  BY <1>4, SetPasswordFewer, <1>1 DEF Calm
<1>5. ASSUME NEW s \in Session, Idle(s) PROVE Calm
  <2> DEFINE row == [sessions[s] EXCEPT !.idle = TRUE]
  <2>1. s \in DOMAIN sessions /\ sessions[s] \in SessionRow /\ order' = order
    BY <1>5 DEF Idle, IInv, SessionsShape
  <2>2. row.admin = sessions[s].admin /\ row.settled = sessions[s].settled
    BY <2>1 DEF SessionRow
  <2>3. sessions' = [sessions EXCEPT ![s] = row]
    BY <1>5 DEF Idle
  <2> HIDE DEF row
  <2> QED BY <1>1, <2>1, <2>2, <2>3, ColumnFewer DEF Calm
<1>6. CASE UNCHANGED vars
  BY <1>2, <1>6 DEF vars
<1>7. CASE \E a \in Admin, role \in Role, n \in Name, p \in Password : CreateAdmin(a, role, n, p)
  BY <1>2, <1>7 DEF CreateAdmin, Stored
<1>8. CASE \E a \in Admin, role \in Role, status \in {"ACTIVE", "DISABLED", "same"} : UpdateAdmin(a, role, status)
  BY <1>2, <1>3, <1>8 DEF UpdateAdmin, Stored
<1>9. CASE \E a \in Admin : UpdateMaster(a) \/ ResetOwner(a)
  BY <1>3, <1>4, <1>9 DEF UpdateMaster, ResetOwner
<1>10. CASE \E s \in Session : Expire(s)
  BY <1>3, <1>10 DEF Expire
<1>11. CASE \E n \in Name, i \in Ip : Forget(n, i)
  BY <1>2, <1>11 DEF Forget, Stored
<1> QED BY <1>5, <1>6, <1>7, <1>8, <1>9, <1>10, <1>11 DEF Outside

LEMMA NextLimit ==
  ASSUME IInv, Typed, LimitInv, [Next]_vars
  PROVE  LimitInv'
<1>0. Placed
  BY DEF LimitInv
<1>1. CASE SignIn
  <2> PICK r \in Request :
        \/ \E n \in Name, i \in Ip, p \in Password : Login(r, n, i, p)
        \/ FindAdmin(r) \/ RecordLoginFailure(r) \/ CreateLoginSession(r)
        \/ SelectActive(r) \/ RevokeExcess(r) \/ AnswerLogin(r) \/ CutOff(r)
    BY <1>1 DEF SignIn
  <2> QED BY <1>0, CreateLimit, SelectLimit, RevokeLimit, SignInCalm, CalmLimit
<1>2. CASE Handle
  BY <1>0, <1>2, HandleCalm, CalmLimit
<1>3. CASE Outside \/ UNCHANGED vars
  BY <1>0, <1>3, OutsideCalm, CalmLimit
<1> QED BY <1>1, <1>2, <1>3 DEF Next

-----------------------------------------------------------------------------
(* The shape of the rest: names, counts of failures and requests.           *)
Names == \A a \in DOMAIN accounts : ~Taken(accounts[a].name, a)

Counted == guessed \in [Name \X Ip -> 0..MaxFailures] /\ limited \in [Name \X Ip -> 0..Threshold]

FullInv == IInv /\ Names /\ Counted /\ Typed /\ LimitInv

LEMMA InitFull == Init => FullInv
<1> SUFFICES ASSUME Init PROVE FullInv
  OBVIOUS
<1>1. sessions = <<>> /\ DOMAIN sessions = {} /\ DOMAIN reqs = {} /\ order = {}
  BY DEF Init
<1>2. Names
  BY DEF Init, Names, Taken
<1>3. Counted
  BY SessionsAssumption DEF Init, Counted
<1>4. Typed /\ Owned
  BY <1>1 DEF Typed, Owned
<1>5. Placed
  BY <1>1, FS_EmptySet DEF Placed, Ordered
<1>6. Within
  <2> SUFFICES ASSUME NEW a \in Admin, NEW Q \in SUBSET Pending
               PROVE  Cardinality(Left(Q, a)) <= MaxSessions
    BY DEF Within
  <2>1. Left(Q, a) = {}
    BY <1>1 DEF Left, SessionsOf
  <2> QED BY <2>1, FS_EmptySet, SessionsAssumption
<1> QED BY <1>2, <1>3, <1>4, <1>5, <1>6, InitIInv DEF FullInv, LimitInv

(* Names: who takes one makes sure that it is free.                         *)
LEMMA NamesKept ==
  ASSUME Names, DOMAIN accounts' = DOMAIN accounts, \A a \in DOMAIN accounts : accounts'[a].name = accounts[a].name
  PROVE  Names'
BY DEF Names, Taken

LEMMA SetUsernameNames ==
  ASSUME IInv, Names, NEW a \in DOMAIN accounts, SetUsername(a)
  PROVE  Names'
<1>1. PICK n \in Name : ~Taken(n, a) /\ accounts' = [accounts EXCEPT ![a].name = n]
  BY DEF SetUsername
<1> DEFINE row == [accounts[a] EXCEPT !.name = n]
<1>2. accounts[a] \in Account
  BY DEF IInv, AccountsShape
<1>3. row \in Account /\ row.name = n
  BY <1>2 DEF Account
<1>4. accounts' = [accounts EXCEPT ![a] = row]
  BY <1>1
<1> HIDE DEF row
<1>5. /\ DOMAIN accounts' = DOMAIN accounts /\ accounts'[a].name = n
      /\ \A b \in DOMAIN accounts \ {a} : accounts'[b].name = accounts[b].name
  BY <1>3, <1>4, AccountChange
<1> QED BY <1>1, <1>5 DEF Names, Taken

LEMMA SetPasswordNames ==
  ASSUME IInv, Names, NEW a \in DOMAIN accounts, NEW p \in Password, NEW keep, SetPassword(a, p, keep)
  PROVE  Names'
<1> DEFINE row == [accounts[a] EXCEPT !.password = p]
<1>1. accounts[a] \in Account
  BY DEF IInv, AccountsShape
<1>2. row \in Account /\ row.name = accounts[a].name
  BY <1>1 DEF Account
<1>3. accounts' = [accounts EXCEPT ![a] = row]
  BY DEF SetPassword
<1> HIDE DEF row
<1>4. /\ DOMAIN accounts' = DOMAIN accounts
      /\ \A b \in DOMAIN accounts : accounts'[b].name = accounts[b].name
  BY <1>2, <1>3, AccountChange
<1> QED BY <1>4, NamesKept

LEMMA NextNames ==
  ASSUME IInv, Names, [Next]_vars
  PROVE  Names'
<1>1. CASE UNCHANGED accounts
  BY <1>1 DEF Names, Taken
<1>2. CASE SignIn
  BY <1>1, <1>2 DEF SignIn, Login, FindAdmin, RecordLoginFailure, CreateLoginSession, SelectActive,
     RevokeExcess, AnswerLogin, CutOff
<1>3. CASE Handle
  <2> PICK r \in Request :
        \/ \E s \in Session : Authenticate(r, s)
        \/ Revoke(r) \/ RevokeOthers(r) \/ VerifyCurrent(r) \/ ChangePassword(r) \/ ChangeUsername(r)
    BY <1>3 DEF Handle
  <2>1. CASE ChangePassword(r) \/ ChangeUsername(r)
    <3>1. reqs[r].admin \in DOMAIN accounts
      BY <2>1 DEF ChangePassword, ChangeUsername, In, IInv, Requests, ReqShape, Acting
    <3> QED BY <2>1, <3>1, SetPasswordNames, SetUsernameNames DEF ChangePassword, ChangeUsername
  <2> QED BY <1>1, <2>1 DEF Authenticate, Revoke, RevokeOthers, VerifyCurrent
<1>4. ASSUME NEW a \in Admin, NEW role \in Role, NEW n \in Name, NEW p \in Password, CreateAdmin(a, role, n, p)
      PROVE  Names'
  <2> DEFINE row == [role |-> role, active |-> TRUE, name |-> n, password |-> p]
  <2>1. /\ a \notin DOMAIN accounts /\ ~Taken(n, a)
        /\ accounts' = [b \in DOMAIN accounts \cup {a} |-> IF b = a THEN row ELSE accounts[b]]
    BY <1>4 DEF CreateAdmin
  <2>2. row.name = n
    OBVIOUS
  <2> HIDE DEF row
  <2> QED BY <2>1, <2>2 DEF Names, Taken
<1>5. ASSUME NEW a \in Admin, NEW role \in Role, NEW status \in {"ACTIVE", "DISABLED", "same"},
             UpdateAdmin(a, role, status)
      PROVE  Names'
  <2> DEFINE active == IF status = "same" THEN accounts[a].active ELSE status = "ACTIVE"
             row == [accounts[a] EXCEPT !.role = role, !.active = active]
  <2>1. a \in DOMAIN accounts
    BY <1>5 DEF UpdateAdmin
  <2>2. accounts[a] \in Account
    BY <2>1 DEF IInv, AccountsShape
  <2>3. active \in BOOLEAN
    BY <2>2 DEF Account
  <2>4. row \in Account /\ row.name = accounts[a].name
    BY <2>2, <2>3 DEF Account
  <2>5. accounts' = [accounts EXCEPT ![a] = row]
    BY <1>5, <2>2 DEF UpdateAdmin, Account
  <2> HIDE DEF row, active
  <2>6. /\ DOMAIN accounts' = DOMAIN accounts
        /\ \A b \in DOMAIN accounts : accounts'[b].name = accounts[b].name
    BY <2>1, <2>4, <2>5, AccountChange
  <2> QED BY <2>6, NamesKept
<1>6. ASSUME NEW a \in Admin, UpdateMaster(a) \/ ResetOwner(a) PROVE Names'
  <2>1. a \in DOMAIN accounts
    BY <1>6 DEF UpdateMaster, ResetOwner
  <2> QED BY <1>1, <1>6, <2>1, SetPasswordNames, SetUsernameNames DEF UpdateMaster, ResetOwner
<1>7. CASE Outside
  BY <1>1, <1>4, <1>5, <1>6, <1>7 DEF Outside, Idle, Expire, Forget
<1> QED BY <1>1, <1>2, <1>3, <1>7 DEF Next, vars

(* Failures are counted up to their bound and forgotten down to none.       *)
LEMMA BumpRange ==
  ASSUME NEW bound \in Nat, NEW count \in [Name \X Ip -> 0..bound], NEW n, NEW i
  PROVE  Bump(count, n, i, bound) \in [Name \X Ip -> 0..bound]
<1> DEFINE c == <<n, i>>
           C == Name \X Ip
           v == IF count[c] < bound THEN count[c] + 1 ELSE count[c]
<1>1. Bump(count, n, i, bound) = [count EXCEPT ![c] = v]
  BY DEF Bump
<1>2. count \in [C -> 0..bound]
  OBVIOUS
<1> HIDE DEF c, C
<1>3. c \in C => v \in 0..bound
  <2>1. c \in C => count[c] \in 0..bound
    BY <1>2
  <2> QED BY <2>1
<1> HIDE DEF v
<1>4. [count EXCEPT ![c] = v] \in [C -> 0..bound]
  BY <1>2, <1>3
<1> QED BY <1>1, <1>4 DEF C

LEMMA NextCounted ==
  ASSUME Counted, [Next]_vars
  PROVE  Counted'
<1>1. CASE UNCHANGED Attempts
  BY <1>1 DEF Counted, Attempts
<1>2. ASSUME NEW r \in Request, RecordLoginFailure(r) PROVE Counted'
  <2>1. guessed \in [Name \X Ip -> 0..MaxFailures] /\ limited \in [Name \X Ip -> 0..Threshold]
        /\ MaxFailures \in Nat /\ Threshold \in Nat
    BY SessionsAssumption DEF Counted
  <2>2. \A n, i : /\ Bump(guessed, n, i, MaxFailures) \in [Name \X Ip -> 0..MaxFailures]
                  /\ Bump(limited, n, i, Threshold) \in [Name \X Ip -> 0..Threshold]
    BY <2>1, BumpRange
  <2> QED BY <1>2, <2>1, <2>2 DEF RecordLoginFailure, Counted
<1>3. ASSUME NEW n \in Name, NEW i \in Ip, Forget(n, i) PROVE Counted'
  <2> DEFINE c == <<n, i>>
  <2>1. \/ guessed[c] > 0 /\ guessed' = [guessed EXCEPT ![c] = @ - 1] /\ limited' = limited
        \/ limited[c] > 0 /\ limited' = [limited EXCEPT ![c] = @ - 1] /\ guessed' = guessed
    BY <1>3 DEF Forget
  <2>2. c \in Name \X Ip
    OBVIOUS
  <2> HIDE DEF c
  <2> QED BY <2>1, <2>2, SessionsAssumption DEF Counted
<1>4. CASE SignIn
  BY <1>1, <1>2, <1>4 DEF SignIn, Login, FindAdmin, CreateLoginSession, SelectActive, RevokeExcess, AnswerLogin, CutOff
<1>5. CASE Handle
  BY <1>1, <1>5 DEF Handle, Authenticate, Revoke, RevokeOthers, VerifyCurrent, ChangePassword, ChangeUsername
<1>6. CASE Outside
  BY <1>1, <1>3, <1>6 DEF Outside, CreateAdmin, UpdateAdmin, UpdateMaster, ResetOwner, Idle, Expire
<1> QED BY <1>1, <1>4, <1>5, <1>6 DEF Next, vars, Attempts

(* Requests: each stage has the fields it was given.                        *)
LEMMA GoTyped ==
  ASSUME Typed, DOMAIN accounts' = DOMAIN accounts, NEW r \in Request, NEW t, Go(r, t),
         LoginState(t) \/ OwnState(t)
  PROVE  Typed'
<1>1. \A q \in DOMAIN reqs' : \/ q = r /\ reqs'[q] = t
                              \/ q \in DOMAIN reqs /\ reqs'[q] = reqs[q]
  BY DEF Go
<1>2. \A u : (LoginState(u) \/ OwnState(u)) => LoginState(u)' \/ OwnState(u)'
  BY DEF LoginState, OwnState
<1> QED BY <1>1, <1>2 DEF Typed, LoginState, OwnState

LEMMA RestTyped ==
  ASSUME Typed, DOMAIN accounts \subseteq DOMAIN accounts',
         \A q \in DOMAIN reqs' : q \in DOMAIN reqs /\ reqs'[q] = reqs[q]
  PROVE  Typed'
BY DEF Typed, LoginState, OwnState

-----------------------------------------------------------------------------
LEMMA SignInTyped ==
  ASSUME IInv, Typed, Placed, SignIn
  PROVE  Typed'
<1> PICK r \in Request :
      \/ \E n \in Name, i \in Ip, p \in Password : Login(r, n, i, p)
      \/ FindAdmin(r) \/ RecordLoginFailure(r) \/ CreateLoginSession(r)
      \/ SelectActive(r) \/ RevokeExcess(r) \/ AnswerLogin(r) \/ CutOff(r)
  BY DEF SignIn
<1>0. accounts' = accounts
  BY DEF Login, FindAdmin, RecordLoginFailure, CreateLoginSession, SelectActive, RevokeExcess, AnswerLogin, CutOff
<1>1. ASSUME NEW n \in Name, NEW i \in Ip, NEW p \in Password, Login(r, n, i, p) PROVE Typed'
  <2> DEFINE t == [stage |-> IF RecentFailures(n, i) >= Threshold THEN "limited" ELSE "find",
                   name |-> n, ip |-> i, password |-> p]
  <2>1. LoginState(t)
    BY DEF LoginState
  <2>2. Go(r, t)
    BY <1>1 DEF Login
  <2> HIDE DEF t
  <2> QED BY <1>0, <2>1, <2>2, GoTyped
<1>2. CASE FindAdmin(r)
  <2> DEFINE t == [reqs[r] EXCEPT !.stage = "invalid"]
             u(a) == [stage |-> "verified", admin |-> a, password |-> reqs[r].password,
                      earlier |-> DOMAIN sessions]
  <2>1. reqs[r] \in [stage : {"find"}, name : Name, ip : Ip, password : Password]
    BY <1>2 DEF FindAdmin, In, Typed, LoginState, OwnState
  <2>2. LoginState(t)
    BY <2>1 DEF LoginState
  <2>3. \A a \in DOMAIN accounts : LoginState(u(a))
    BY <2>1 DEF LoginState, Placed
  <2>4. Go(r, t) \/ \E a \in DOMAIN accounts : Go(r, u(a))
    BY <1>2 DEF FindAdmin
  <2> HIDE DEF t, u
  <2> QED BY <1>0, <2>2, <2>3, <2>4, GoTyped
<1>3. CASE CreateLoginSession(r)
  <2>1. reqs[r].admin \in DOMAIN accounts
    BY <1>3 DEF CreateLoginSession, In, Typed, LoginState, OwnState
  <2>2. PICK s \in Unused : Go(r, [stage |-> "created", admin |-> reqs[r].admin, session |-> s])
    BY <1>3 DEF CreateLoginSession
  <2> DEFINE t == [stage |-> "created", admin |-> reqs[r].admin, session |-> s]
  <2>3. LoginState(t)
    BY <2>1 DEF LoginState, Unused
  <2>4. Go(r, t)
    BY <2>2
  <2> HIDE DEF t
  <2> QED BY <1>0, <2>3, <2>4, GoTyped
<1>4. CASE SelectActive(r)
  <2>1. reqs[r].admin \in DOMAIN accounts /\ reqs[r].session \in Session
    BY <1>4 DEF SelectActive, In, Typed, LoginState, OwnState
  <2> DEFINE t == [stage |-> "excess", session |-> reqs[r].session, admin |-> reqs[r].admin,
                   excess |-> Excess(reqs[r].admin, reqs[r].session)]
  <2>2. Excess(reqs[r].admin, reqs[r].session) \in SUBSET Session
    BY DEF Excess, SessionsOf, Placed
  <2>3. LoginState(t)
    BY <2>1, <2>2 DEF LoginState
  <2>4. Go(r, t)
    BY <1>4 DEF SelectActive
  <2> HIDE DEF t
  <2> QED BY <1>0, <2>3, <2>4, GoTyped
<1>5. CASE RevokeExcess(r)
  <2>1. reqs[r].admin \in DOMAIN accounts /\ reqs[r].session \in Session
    BY <1>5 DEF RevokeExcess, In, Typed, LoginState, OwnState
  <2> DEFINE t == [stage |-> "answer", session |-> reqs[r].session, admin |-> reqs[r].admin]
  <2>2. LoginState(t)
    BY <2>1 DEF LoginState
  <2>3. Go(r, t)
    BY <1>5 DEF RevokeExcess
  <2> HIDE DEF t
  <2> QED BY <1>0, <2>2, <2>3, GoTyped
<1>6. CASE RecordLoginFailure(r) \/ AnswerLogin(r) \/ CutOff(r)
  <2>1. \A q \in DOMAIN reqs' : q \in DOMAIN reqs /\ reqs'[q] = reqs[q]
    BY <1>6, RestOfEnd DEF RecordLoginFailure, AnswerLogin, CutOff
  <2> QED BY <1>0, <2>1, RestTyped
<1> QED BY <1>1, <1>2, <1>3, <1>4, <1>5, <1>6

LEMMA HandleTyped ==
  ASSUME IInv, IInv', Typed, Handle
  PROVE  Typed'
<1> PICK r \in Request :
      \/ \E s \in Session : Authenticate(r, s)
      \/ Revoke(r) \/ RevokeOthers(r) \/ VerifyCurrent(r) \/ ChangePassword(r) \/ ChangeUsername(r)
  BY DEF Handle
<1>1. ASSUME NEW s \in Session, Authenticate(r, s) PROVE Typed'
  <2> DEFINE t == [stage |-> "handler", session |-> s, admin |-> sessions[s].admin,
                   name |-> accounts[sessions[s].admin].name]
  <2>1. sessions[s].admin \in DOMAIN accounts
    BY <1>1 DEF Authenticate, Usable, IInv, SessionsShape
  <2>2. accounts[sessions[s].admin].name \in Name
    BY <2>1 DEF IInv, AccountsShape, Account
  <2>3. OwnState(t)
    BY <2>1, <2>2 DEF OwnState
  <2>4. Go(r, t) /\ accounts' = accounts
    BY <1>1 DEF Authenticate
  <2> HIDE DEF t
  <2> QED BY <2>3, <2>4, GoTyped
<1>2. CASE VerifyCurrent(r)
  <2> DEFINE t == [stage |-> "commit", session |-> reqs[r].session, admin |-> reqs[r].admin]
  <2>1. reqs[r].admin \in DOMAIN accounts /\ reqs[r].session \in Session
    BY <1>2 DEF VerifyCurrent, In, Typed, LoginState, OwnState
  <2>2. OwnState(t)
    BY <2>1 DEF OwnState
  <2>3. Go(r, t) /\ accounts' = accounts
    BY <1>2 DEF VerifyCurrent
  <2> HIDE DEF t
  <2> QED BY <2>2, <2>3, GoTyped
<1>3. CASE Revoke(r) \/ RevokeOthers(r) \/ ChangePassword(r) \/ ChangeUsername(r)
  <2>1. \A q \in DOMAIN reqs' : q \in DOMAIN reqs /\ reqs'[q] = reqs[q]
    BY <1>3, RestOfEnd DEF Revoke, RevokeOthers, ChangePassword, ChangeUsername
  <2>2. DOMAIN accounts \subseteq DOMAIN accounts'
    BY <1>3 DEF Revoke, RevokeOthers, ChangePassword, ChangeUsername, SetPassword, SetUsername
  <2> QED BY <2>1, <2>2, RestTyped
<1> QED BY <1>1, <1>2, <1>3

LEMMA OutsideTyped ==
  ASSUME Typed, Outside \/ UNCHANGED vars
  PROVE  Typed'
<1>1. reqs' = reqs
  BY DEF Outside, CreateAdmin, UpdateAdmin, UpdateMaster, ResetOwner, Idle, Expire, Forget, vars
<1>2. DOMAIN accounts \subseteq DOMAIN accounts'
  BY DEF Outside, CreateAdmin, UpdateAdmin, UpdateMaster, ResetOwner, Idle, Expire, Forget, vars,
     SetPassword, SetUsername
<1> QED BY <1>1, <1>2, RestTyped

LEMMA NextFull == FullInv /\ [Next]_vars => FullInv'
<1> SUFFICES ASSUME FullInv, [Next]_vars PROVE FullInv'
  OBVIOUS
<1>1. IInv'
  BY NextIInv DEF FullInv
<1>2. Names' /\ Counted' /\ LimitInv'
  BY NextNames, NextCounted, NextLimit DEF FullInv
<1>3. Typed'
  BY <1>1, SignInTyped, HandleTyped, OutsideTyped DEF FullInv, LimitInv, Next
<1> QED BY <1>1, <1>2, <1>3 DEF FullInv

LEMMA FullInvariantHolds == Spec => []FullInv
BY InitFull, NextFull, PTL DEF Spec

(* Every session belongs to an account that exists and has its place in the *)
(* order of creation; names are not shared; requests have their fields.     *)
THEOREM TypeCorrect == Spec => []TypeOK
<1>1. FullInv => TypeOK
  <2> SUFFICES ASSUME FullInv PROVE TypeOK
    OBVIOUS
  <2>1. accounts \in UNION {[A -> Account] : A \in SUBSET Admin}
    BY DEF FullInv, IInv, AccountsShape
  <2>2. \A s \in DOMAIN sessions : sessions[s] \in SessionRow /\ sessions[s].admin \in DOMAIN accounts
    BY DEF FullInv, IInv, SessionsShape
  <2> QED BY <2>1, <2>2 DEF FullInv, Names, LimitInv, Placed, Counted, Typed, TypeOK
<1> QED BY <1>1, FullInvariantHolds, PTL

(* enforceConcurrentSessionLimit, in its two statements: however many       *)
(* logins overlap, what an account has beyond the limit are sessions of     *)
(* logins that have not enforced it yet or were cut off before they could.  *)
THEOREM SessionLimitHolds == Spec => []SessionLimit
<1>1. FullInv => SessionLimit
  <2> SUFFICES ASSUME FullInv, NEW a \in DOMAIN accounts
               PROVE  Cardinality(SessionsOf(a)) <=
                        MaxSessions + Cardinality({s \in SessionsOf(a) : ~sessions[s].settled})
    BY DEF SessionLimit
  <2> DEFINE S == SessionsOf(a)
             N == {s \in S : ~sessions[s].settled}
             L == Left({}, a)
  <2>1. S \in SUBSET (DOMAIN sessions) /\ N \in SUBSET S /\ L \in SUBSET S
    BY DEF SessionsOf, Left
  <2>2. S = L \cup N
    BY DEF Left
  <2>3. a \in Admin /\ {} \in SUBSET Pending
    BY DEF FullInv, IInv, AccountsShape
  <2>4. Cardinality(L) <= MaxSessions
    BY <2>3 DEF FullInv, LimitInv, Within
  <2>5. IsFiniteSet(S)
    BY <2>1, FS_Subset DEF FullInv, LimitInv, Placed
  <2> HIDE DEF S, N, L
  <2>6. IsFiniteSet(L) /\ IsFiniteSet(N)
    BY <2>1, <2>5, FS_Subset
  <2>7. IsFiniteSet(L \cap N)
    BY <2>6, FS_Subset
  <2>8. Cardinality(S) = Cardinality(L) + Cardinality(N) - Cardinality(L \cap N)
    BY <2>2, <2>6, FS_Union
  <2>9. Cardinality(L) \in Nat /\ Cardinality(N) \in Nat /\ Cardinality(L \cap N) \in Nat
    BY <2>6, <2>7, FS_CardinalityType
  <2>10. Cardinality(S) <= MaxSessions + Cardinality(N)
    BY <2>4, <2>8, <2>9, SessionsAssumption
  <2> QED BY <2>10 DEF S, N
<1> QED BY <1>1, FullInvariantHolds, PTL

-----------------------------------------------------------------------------
(* The lockout: guesses that were counted, and those under way              *)

Places == Name \X Ip

\* The logins under way that the lockout let through.
Guessing(cells) == {r \in DOMAIN reqs : reqs[r].stage \in {"find", "invalid"}
                                       /\ <<reqs[r].name, reqs[r].ip>> \in cells}

Room == Threshold - 1 + Cardinality(Request)

\* Each guess that is counted was let through, and makes room for no other.
GuessInv ==
  /\ IsFiniteSet(Recent(guessed, Places)) /\ IsFiniteSet(Recent(limited, Places))
  /\ \A cells \in Cells :
       Cardinality(Recent(guessed, cells)) + Cardinality(Guessing(cells)) <= Room

LEMMA CellsInPlaces == \A cells \in Cells : cells \in SUBSET Places
BY DEF Cells, Places

LEMMA RecentOfFewer ==
  ASSUME NEW count, NEW big, NEW small \in SUBSET big, IsFiniteSet(Recent(count, big))
  PROVE  /\ IsFiniteSet(Recent(count, small)) /\ Cardinality(Recent(count, small)) \in Nat
         /\ Cardinality(Recent(count, small)) <= Cardinality(Recent(count, big))
<1>1. Recent(count, small) \in SUBSET Recent(count, big)
  BY DEF Recent
<1> QED BY <1>1, FS_Subset, FS_CardinalityType

(* One attempt more, if any.                                                *)
LEMMA BumpRecent ==
  ASSUME NEW bound \in Nat, NEW count \in [Places -> 0..bound], NEW n, NEW i,
         NEW cells \in SUBSET Places
  PROVE  /\ Recent(Bump(count, n, i, bound), cells)
              \subseteq Recent(count, cells) \cup {<<<<n, i>>, count[<<n, i>>] + 1>>}
         /\ <<n, i>> \notin cells => Recent(Bump(count, n, i, bound), cells) \subseteq Recent(count, cells)
<1> DEFINE c == <<n, i>>
           new == Bump(count, n, i, bound)
<1>1. /\ \A d \in Places : d # c => new[d] = count[d]
      /\ c \in Places => new[c] = IF count[c] < bound THEN count[c] + 1 ELSE count[c]
  BY DEF Bump
<1> HIDE DEF c, new
<1>2. ASSUME NEW a \in Recent(new, cells)
      PROVE  a \in Recent(count, cells) \/ (c \in cells /\ a = <<c, count[c] + 1>>)
  <2>1. PICK d \in cells, k \in 1..MaxFailures : a = <<d, k>> /\ k <= new[d] /\ d \in Places
    BY DEF Recent
  <2>2. CASE d # c
    BY <1>1, <2>1, <2>2 DEF Recent
  <2>3. CASE d = c
    <3>1. c \in Places /\ count[c] \in Nat /\ k \in Nat
      BY <2>1, <2>3
    <3>2. k <= count[c] \/ k = count[c] + 1
      BY <1>1, <2>1, <2>3, <3>1
    <3> QED BY <2>1, <2>3, <3>2 DEF Recent
  <2> QED BY <2>2, <2>3
<1> QED BY <1>2 DEF c, new

(* An attempt leaves the window.                                            *)
LEMMA ForgetRecent ==
  ASSUME NEW bound \in Nat, NEW count \in [Places -> 0..bound], NEW c \in Places, NEW cells \in SUBSET Places
  PROVE  Recent([count EXCEPT ![c] = @ - 1], cells) \subseteq Recent(count, cells)
<1> DEFINE new == [count EXCEPT ![c] = @ - 1]
<1>1. \A d \in Places : count[d] \in Nat /\ (new[d] = count[d] \/ new[d] = count[d] - 1)
  OBVIOUS
<1> HIDE DEF new
<1>2. \A d \in Places, k \in 1..MaxFailures : k <= new[d] => k <= count[d]
  BY <1>1
<1> QED BY <1>2 DEF Recent, new

LEMMA FewerAdd ==
  ASSUME NEW A, NEW B, IsFiniteSet(A), IsFiniteSet(B), NEW A2 \in SUBSET A, NEW B2 \in SUBSET B
  PROVE  Cardinality(A2) + Cardinality(B2) <= Cardinality(A) + Cardinality(B)
<1>1. /\ IsFiniteSet(A2) /\ Cardinality(A2) <= Cardinality(A)
      /\ IsFiniteSet(B2) /\ Cardinality(B2) <= Cardinality(B)
  BY FS_Subset
<1>2. /\ Cardinality(A) \in Nat /\ Cardinality(A2) \in Nat
      /\ Cardinality(B) \in Nat /\ Cardinality(B2) \in Nat
  BY <1>1, FS_CardinalityType
<1> QED BY <1>1, <1>2

LEMMA OneForOne ==
  ASSUME NEW A, NEW B, IsFiniteSet(A), IsFiniteSet(B), NEW x, NEW r \in B,
         NEW A2 \in SUBSET (A \cup {x}), NEW B2 \in SUBSET (B \ {r})
  PROVE  Cardinality(A2) + Cardinality(B2) <= Cardinality(A) + Cardinality(B)
<1>1. IsFiniteSet(A \cup {x}) /\ Cardinality(A \cup {x}) <= Cardinality(A) + 1
  <2>1. IsFiniteSet(A \cup {x}) /\ Cardinality(A) \in Nat
    BY FS_AddElement, FS_CardinalityType
  <2>2. Cardinality(A \cup {x}) = IF x \in A THEN Cardinality(A) ELSE Cardinality(A) + 1
    BY FS_AddElement
  <2> QED BY <2>1, <2>2
<1>2. IsFiniteSet(B \ {r}) /\ Cardinality(B \ {r}) = Cardinality(B) - 1
  BY FS_RemoveElement
<1>3. Cardinality(A2) + Cardinality(B2) <= Cardinality(A \cup {x}) + Cardinality(B \ {r})
  BY <1>1, <1>2, FewerAdd
<1>4. /\ Cardinality(A) \in Nat /\ Cardinality(B) \in Nat
      /\ Cardinality(A \cup {x}) \in Nat /\ Cardinality(B \ {r}) \in Nat
      /\ IsFiniteSet(A2) /\ IsFiniteSet(B2)
  BY <1>1, <1>2, FS_CardinalityType, FS_Subset
<1>5. Cardinality(A2) \in Nat /\ Cardinality(B2) \in Nat
  BY <1>4, FS_CardinalityType
<1> QED BY <1>1, <1>2, <1>3, <1>4, <1>5

(* What the invariant gives about some cells.                               *)
LEMMA GuessFacts ==
  ASSUME Typed, GuessInv, NEW cells \in Cells
  PROVE  /\ cells \in SUBSET Places
         /\ IsFiniteSet(Recent(guessed, cells)) /\ Cardinality(Recent(guessed, cells)) \in Nat
         /\ IsFiniteSet(Guessing(cells)) /\ Cardinality(Guessing(cells)) \in Nat
         /\ Guessing(cells) \in SUBSET Request
         /\ Cardinality(Recent(guessed, cells)) + Cardinality(Guessing(cells)) <= Room
<1>1. cells \in SUBSET Places
  BY CellsInPlaces
<1>2. Guessing(cells) \in SUBSET Request
  BY DEF Guessing, Typed
<1>3. IsFiniteSet(Guessing(cells)) /\ Cardinality(Guessing(cells)) \in Nat
  BY <1>2, SessionsAssumption, FS_Subset, FS_CardinalityType
<1> QED BY <1>1, <1>2, <1>3, RecentOfFewer DEF GuessInv

(* Steps that count no guess and let no login through.                      *)
LEMMA FewerGuesses ==
  ASSUME Typed, GuessInv,
         IsFiniteSet(Recent(limited', Places)),
         \A cells \in SUBSET Places : Recent(guessed', cells) \subseteq Recent(guessed, cells),
         \A cells \in Cells : Guessing(cells)' \subseteq Guessing(cells)
  PROVE  GuessInv'
<1>1. IsFiniteSet(Recent(guessed', Places))
  BY FS_Subset DEF GuessInv
<1>2. ASSUME NEW cells \in Cells
      PROVE  Cardinality(Recent(guessed', cells)) + Cardinality(Guessing(cells)') <= Room
  <2>1. /\ Recent(guessed', cells) \in SUBSET Recent(guessed, cells)
        /\ Guessing(cells)' \in SUBSET Guessing(cells)
    BY CellsInPlaces
  <2>2. /\ Cardinality(Recent(guessed', cells)) + Cardinality(Guessing(cells)')
             <= Cardinality(Recent(guessed, cells)) + Cardinality(Guessing(cells))
        /\ Cardinality(Recent(guessed, cells)) + Cardinality(Guessing(cells)) <= Room
    BY <2>1, GuessFacts, FewerAdd
  <2>3. IsFiniteSet(Recent(guessed', cells)) /\ IsFiniteSet(Guessing(cells)')
    BY <2>1, GuessFacts, FS_Subset
  <2>4. Room \in Int
    BY SessionsAssumption, FS_CardinalityType DEF Room
  <2> QED BY <2>2, <2>3, <2>4, GuessFacts, FS_CardinalityType
<1>3. \A cells \in Cells :
        Cardinality(Recent(guessed, cells))' + Cardinality(Guessing(cells))' <= Room
  BY <1>2
<1> QED BY <1>1, <1>3 DEF GuessInv, Room, Cells

(* The requests that guess after a step of one of them.                     *)
LEMMA GoNoGuess ==
  ASSUME NEW r, NEW t, Go(r, t), NEW cells,
         t.stage \notin {"find", "invalid"} \/ <<t.name, t.ip>> \notin cells \/ r \in Guessing(cells)
  PROVE  Guessing(cells)' \subseteq Guessing(cells)
BY DEF Go, Guessing

LEMMA EndGuessing ==
  ASSUME NEW r, End(r), NEW cells
  PROVE  Guessing(cells)' \subseteq Guessing(cells) \ {r}
BY DEF End, Guessing

(* A login is let through: the failures of its name and of its address are  *)
(* below the threshold at that moment.                                      *)
LEMMA LoginGuesses ==
  ASSUME FullInv, GuessInv, NEW r \in Request, NEW n \in Name, NEW i \in Ip, NEW p \in Password,
         Login(r, n, i, p)
  PROVE  GuessInv'
<1> DEFINE t == [stage |-> IF RecentFailures(n, i) >= Threshold THEN "limited" ELSE "find",
                 name |-> n, ip |-> i, password |-> p]
           near == {c \in Name \X Ip : c[1] = n \/ c[2] = i}
<1>1. Go(r, t) /\ guessed' = guessed /\ limited' = limited /\ Typed
  BY DEF Login, Attempts, FullInv
<1>2. t.name = n /\ t.ip = i /\ t.stage \in {"limited", "find"}
  OBVIOUS
<1>3. t.stage = "find" =>
        Cardinality(Recent(guessed, near)) + Cardinality(Recent(limited, near)) < Threshold
  <2>1. IsFiniteSet(Recent(guessed, near)) /\ IsFiniteSet(Recent(limited, near))
    <3>1. near \in SUBSET Places
      BY DEF Places
    <3> QED BY <3>1, RecentOfFewer DEF GuessInv
  <2>2. Cardinality(Recent(guessed, near)) + Cardinality(Recent(limited, near)) \in Nat
    BY <2>1, FS_CardinalityType
  <2>3. t.stage = "find" =>
          ~(Cardinality(Recent(guessed, near)) + Cardinality(Recent(limited, near)) >= Threshold)
    BY DEF RecentFailures
  <2> HIDE DEF near, t
  <2> QED BY <2>2, <2>3, SessionsAssumption
<1> HIDE DEF t
<1>4. ASSUME NEW cells \in Cells
      PROVE  Cardinality(Recent(guessed', cells)) + Cardinality(Guessing(cells)') <= Room
  <2>1. /\ cells \in SUBSET Places /\ Cardinality(Recent(guessed, cells)) \in Nat
        /\ IsFiniteSet(Recent(guessed, cells)) /\ IsFiniteSet(Guessing(cells))
        /\ Cardinality(Guessing(cells)) \in Nat
        /\ Cardinality(Recent(guessed, cells)) + Cardinality(Guessing(cells)) <= Room
    BY <1>1, GuessFacts
  <2>2. Room \in Int /\ Room = Threshold - 1 + Cardinality(Request)
        /\ Threshold \in Nat /\ Cardinality(Request) \in Nat
    BY SessionsAssumption, FS_CardinalityType DEF Room
  <2>3. CASE t.stage = "limited" \/ <<n, i>> \notin cells
    <3>1. Guessing(cells)' \in SUBSET Guessing(cells)
      BY <1>1, <1>2, <2>3, GoNoGuess
    <3>2. Cardinality(Guessing(cells)') <= Cardinality(Guessing(cells))
          /\ IsFiniteSet(Guessing(cells)')
      BY <2>1, <3>1, FS_Subset
    <3>3. Cardinality(Guessing(cells)') \in Nat
      BY <3>2, FS_CardinalityType
    <3> QED BY <1>1, <2>1, <2>2, <3>2, <3>3
  <2>4. CASE t.stage = "find" /\ <<n, i>> \in cells
    <3>1. cells \in SUBSET near
      BY <2>4 DEF Cells
    <3>2. near \in SUBSET Places
      BY DEF Places
    <3>3. /\ IsFiniteSet(Recent(guessed, near)) /\ Cardinality(Recent(guessed, near)) \in Nat
          /\ Cardinality(Recent(limited, near)) \in Nat
      BY <3>2, RecentOfFewer DEF GuessInv
    <3> HIDE DEF near
    <3>4. Cardinality(Recent(guessed, cells)) <= Cardinality(Recent(guessed, near))
      BY <3>1, <3>3, RecentOfFewer
    <3>5. Guessing(cells)' \in SUBSET Request
      BY <1>1 DEF Guessing, Go, Typed
    <3>6. Cardinality(Guessing(cells)') <= Cardinality(Request) /\ IsFiniteSet(Guessing(cells)')
      BY <3>5, SessionsAssumption, FS_Subset
    <3>7. Cardinality(Guessing(cells)') \in Nat
      BY <3>6, FS_CardinalityType
    <3>8. Cardinality(Recent(guessed, cells)) < Threshold
      BY <1>3, <2>1, <2>2, <2>4, <3>3, <3>4
    <3> QED BY <1>1, <2>1, <2>2, <3>6, <3>7, <3>8
  <2> QED BY <1>2, <2>3, <2>4
<1>5. \A cells \in Cells :
        Cardinality(Recent(guessed, cells))' + Cardinality(Guessing(cells))' <= Room
  BY <1>4
<1> QED BY <1>1, <1>5 DEF GuessInv, Room, Cells

(* A wrong guess is counted, and its login ends.                            *)
LEMMA RecordGuesses ==
  ASSUME FullInv, GuessInv, NEW r \in Request, RecordLoginFailure(r)
  PROVE  GuessInv'
<1> DEFINE n == reqs[r].name  i == reqs[r].ip
<1>1. /\ guessed \in [Places -> 0..MaxFailures] /\ limited \in [Places -> 0..Threshold] /\ Typed
      /\ MaxFailures \in Nat /\ Threshold \in Nat
  BY SessionsAssumption DEF FullInv, Counted, Places
<1>2. Places \in SUBSET Places /\ IsFiniteSet(Recent(guessed, Places)) /\ IsFiniteSet(Recent(limited, Places))
  BY DEF GuessInv
<1>3. CASE In(r, "limited")
  <2>1. End(r) /\ guessed' = guessed /\ limited' = Bump(limited, n, i, Threshold)
    BY <1>3 DEF RecordLoginFailure, In
  <2>2. IsFiniteSet(Recent(limited', Places))
    <3> DEFINE x == <<<<n, i>>, limited[<<n, i>>] + 1>>
    <3>1. Recent(limited', Places)
            \in SUBSET (Recent(limited, Places) \cup {x})
      BY <1>1, <1>2, <2>1, BumpRecent
    <3> HIDE DEF x
    <3>2. IsFiniteSet(Recent(limited, Places) \cup {x})
      BY <1>2, FS_AddElement
    <3> QED BY <3>1, <3>2, FS_Subset
  <2>3. \A cells \in Cells : Guessing(cells)' \subseteq Guessing(cells)
    BY <2>1, EndGuessing
  <2> QED BY <1>1, <2>1, <2>2, <2>3, FewerGuesses
<1>4. CASE In(r, "invalid")
  <2>1. End(r) /\ limited' = limited /\ guessed' = Bump(guessed, n, i, MaxFailures)
    BY <1>4 DEF RecordLoginFailure, In
  <2> DEFINE x == <<<<n, i>>, guessed[<<n, i>>] + 1>>
  <2>2. IsFiniteSet(Recent(guessed', Places))
    <3>1. Recent(guessed', Places) \in SUBSET (Recent(guessed, Places) \cup {x})
      BY <1>1, <1>2, <2>1, BumpRecent
    <3> HIDE DEF x
    <3> QED BY <1>2, <3>1, FS_AddElement, FS_Subset
  <2>3. ASSUME NEW cells \in Cells
        PROVE  Cardinality(Recent(guessed', cells)) + Cardinality(Guessing(cells)') <= Room
    <3>1. /\ cells \in SUBSET Places /\ Cardinality(Recent(guessed, cells)) \in Nat
          /\ IsFiniteSet(Recent(guessed, cells)) /\ IsFiniteSet(Guessing(cells))
          /\ Cardinality(Guessing(cells)) \in Nat
          /\ Cardinality(Recent(guessed, cells)) + Cardinality(Guessing(cells)) <= Room
      BY <1>1, GuessFacts
    <3>2. Guessing(cells)' \in SUBSET (Guessing(cells) \ {r})
      BY <2>1, EndGuessing
    <3>3. Cardinality(Recent(guessed', cells)) + Cardinality(Guessing(cells)')
            <= Cardinality(Recent(guessed, cells)) + Cardinality(Guessing(cells))
      <4>1. CASE <<n, i>> \in cells
        <5>1. r \in Guessing(cells)
          BY <1>4, <4>1 DEF In, Guessing
        <5>2. Recent(guessed', cells) \in SUBSET (Recent(guessed, cells) \cup {x})
          BY <1>1, <2>1, <3>1, BumpRecent
        <5> HIDE DEF x
        <5> QED BY <3>1, <3>2, <5>1, <5>2, OneForOne
      <4>2. CASE <<n, i>> \notin cells
        <5>1. Recent(guessed', cells) \in SUBSET Recent(guessed, cells)
          BY <1>1, <2>1, <3>1, <4>2, BumpRecent
        <5>2. Guessing(cells)' \in SUBSET Guessing(cells)
          BY <3>2
        <5> QED BY <3>1, <5>1, <5>2, FewerAdd
      <4> QED BY <4>1, <4>2
    <3>4. Room \in Int
      BY SessionsAssumption, FS_CardinalityType DEF Room
    <3>5. IsFiniteSet(Recent(guessed', cells)) /\ IsFiniteSet(Guessing(cells)')
      <4>1. Recent(guessed', cells) \in SUBSET Recent(guessed', Places)
        BY <3>1 DEF Recent
      <4>2. Guessing(cells)' \in SUBSET Guessing(cells)
        BY <3>2
      <4> QED BY <2>2, <3>1, <4>1, <4>2, FS_Subset
    <3>6. Cardinality(Recent(guessed', cells)) \in Nat /\ Cardinality(Guessing(cells)') \in Nat
      BY <3>5, FS_CardinalityType
    <3> QED BY <3>1, <3>3, <3>4, <3>6
  <2>4. \A cells \in Cells :
          Cardinality(Recent(guessed, cells))' + Cardinality(Guessing(cells))' <= Room
    BY <2>3
  <2> QED BY <1>2, <2>1, <2>2, <2>4 DEF GuessInv, Room, Cells
<1> QED BY <1>3, <1>4 DEF RecordLoginFailure

LEMMA NextGuesses == FullInv /\ GuessInv /\ [Next]_vars => GuessInv'
<1> SUFFICES ASSUME FullInv, GuessInv, [Next]_vars PROVE GuessInv'
  OBVIOUS
<1>0. /\ Typed /\ IsFiniteSet(Recent(limited, Places))
      /\ guessed \in [Places -> 0..MaxFailures] /\ limited \in [Places -> 0..Threshold]
      /\ MaxFailures \in Nat /\ Threshold \in Nat
  BY SessionsAssumption DEF FullInv, GuessInv, Counted, Places
<1>1. ASSUME UNCHANGED Attempts, \A cells \in Cells : Guessing(cells)' \subseteq Guessing(cells)
      PROVE  GuessInv'
  BY <1>0, <1>1, FewerGuesses DEF Attempts
<1>2. ASSUME UNCHANGED Attempts, NEW r, End(r) PROVE GuessInv'
  <2>1. \A cells \in Cells : Guessing(cells)' \subseteq Guessing(cells)
    BY <1>2, EndGuessing
  <2> QED BY <1>1, <1>2, <2>1
<1>3. ASSUME UNCHANGED Attempts, NEW r, NEW t, Go(r, t), t.stage \notin {"find", "invalid"} PROVE GuessInv'
  <2>1. \A cells \in Cells : Guessing(cells)' \subseteq Guessing(cells)
    BY <1>3, GoNoGuess
  <2> QED BY <1>1, <1>3, <2>1
<1>4. ASSUME UNCHANGED Attempts, reqs' = reqs PROVE GuessInv'
  <2>1. \A cells \in Cells : Guessing(cells)' \subseteq Guessing(cells)
    BY <1>4 DEF Guessing
  <2> QED BY <1>1, <1>4, <2>1
<1>5. ASSUME NEW r \in Request, FindAdmin(r) PROVE GuessInv'
  <2> DEFINE t == [reqs[r] EXCEPT !.stage = "invalid"]
             u(a) == [stage |-> "verified", admin |-> a, password |-> reqs[r].password,
                      earlier |-> DOMAIN sessions]
  <2>1. Go(r, t) \/ \E a \in DOMAIN accounts : Go(r, u(a))
    BY <1>5 DEF FindAdmin
  <2>2. UNCHANGED Attempts /\ r \in DOMAIN reqs /\ reqs[r].stage = "find"
    BY <1>5 DEF FindAdmin, In
  <2>3. CASE \E a \in DOMAIN accounts : Go(r, u(a))
    <3>1. PICK a \in DOMAIN accounts : Go(r, u(a))
      BY <2>3
    <3>2. u(a).stage \notin {"find", "invalid"}
      OBVIOUS
    <3> HIDE DEF u
    <3> QED BY <1>3, <2>2, <3>1, <3>2
  <2>4. CASE Go(r, t)
    <3>1. reqs[r] \in [stage : {"find"}, name : Name, ip : Ip, password : Password]
      BY <1>0, <2>2 DEF Typed, LoginState, OwnState
    <3>2. t.name = reqs[r].name /\ t.ip = reqs[r].ip /\ t.stage = "invalid"
      BY <3>1
    <3> HIDE DEF t
    <3>3. \A cells : <<t.name, t.ip>> \notin cells \/ r \in Guessing(cells)
      BY <2>2, <3>2 DEF Guessing
    <3>4. \A cells \in Cells : Guessing(cells)' \subseteq Guessing(cells)
      BY <2>4, <3>3, GoNoGuess
    <3> QED BY <1>1, <2>2, <3>4
  <2> QED BY <2>1, <2>3, <2>4
<1>6. CASE SignIn
  <2> PICK r \in Request :
        \/ \E n \in Name, i \in Ip, p \in Password : Login(r, n, i, p)
        \/ FindAdmin(r) \/ RecordLoginFailure(r) \/ CreateLoginSession(r)
        \/ SelectActive(r) \/ RevokeExcess(r) \/ AnswerLogin(r) \/ CutOff(r)
    BY <1>6 DEF SignIn
  <2>1. ASSUME NEW n \in Name, NEW i \in Ip, NEW p \in Password, Login(r, n, i, p) PROVE GuessInv'
    BY <2>1, LoginGuesses
  <2>2. CASE CreateLoginSession(r)
    <3>1. UNCHANGED Attempts /\ \E s \in Unused :
            Go(r, [stage |-> "created", admin |-> reqs[r].admin, session |-> s])
      BY <2>2 DEF CreateLoginSession
    <3>2. PICK s \in Unused : Go(r, [stage |-> "created", admin |-> reqs[r].admin, session |-> s])
      BY <3>1
    <3> QED BY <1>3, <3>1, <3>2
  <2>3. CASE SelectActive(r)
    <3>1. /\ UNCHANGED Attempts
          /\ Go(r, [stage |-> "excess", session |-> reqs[r].session, admin |-> reqs[r].admin,
                    excess |-> Excess(reqs[r].admin, reqs[r].session)])
      BY <2>3 DEF SelectActive
    <3> QED BY <1>3, <3>1
  <2>4. CASE RevokeExcess(r)
    <3>1. /\ UNCHANGED Attempts
          /\ Go(r, [stage |-> "answer", session |-> reqs[r].session, admin |-> reqs[r].admin])
      BY <2>4 DEF RevokeExcess
    <3> QED BY <1>3, <3>1
  <2>5. CASE AnswerLogin(r) \/ CutOff(r)
    BY <1>2, <2>5 DEF AnswerLogin, CutOff
  <2> QED BY <1>5, <2>1, <2>2, <2>3, <2>4, <2>5, RecordGuesses
<1>7. CASE Handle
  <2> PICK r \in Request :
        \/ \E s \in Session : Authenticate(r, s)
        \/ Revoke(r) \/ RevokeOthers(r) \/ VerifyCurrent(r) \/ ChangePassword(r) \/ ChangeUsername(r)
    BY <1>7 DEF Handle
  <2>1. ASSUME NEW s \in Session, Authenticate(r, s) PROVE GuessInv'
    <3>1. /\ UNCHANGED Attempts
          /\ Go(r, [stage |-> "handler", session |-> s, admin |-> sessions[s].admin,
                    name |-> accounts[sessions[s].admin].name])
      BY <2>1 DEF Authenticate
    <3> QED BY <1>3, <3>1
  <2>2. CASE VerifyCurrent(r)
    <3>1. /\ UNCHANGED Attempts
          /\ Go(r, [stage |-> "commit", session |-> reqs[r].session, admin |-> reqs[r].admin])
      BY <2>2 DEF VerifyCurrent
    <3> QED BY <1>3, <3>1
  <2>3. CASE Revoke(r) \/ RevokeOthers(r) \/ ChangePassword(r) \/ ChangeUsername(r)
    BY <1>2, <2>3 DEF Revoke, RevokeOthers, ChangePassword, ChangeUsername
  <2> QED BY <2>1, <2>2, <2>3
<1>8. ASSUME NEW n \in Name, NEW i \in Ip, Forget(n, i) PROVE GuessInv'
  <2> DEFINE c == <<n, i>>
  <2>1. c \in Places
    BY DEF Places
  <2>2. \/ guessed' = [guessed EXCEPT ![c] = @ - 1] /\ limited' = limited
        \/ limited' = [limited EXCEPT ![c] = @ - 1] /\ guessed' = guessed
    BY <1>8 DEF Forget
  <2> HIDE DEF c
  <2>3. \A cells \in SUBSET Places : /\ Recent(guessed', cells) \subseteq Recent(guessed, cells)
                                     /\ Recent(limited', cells) \subseteq Recent(limited, cells)
    BY <1>0, <2>1, <2>2, ForgetRecent
  <2>4. IsFiniteSet(Recent(limited', Places))
    <3>1. Recent(limited', Places) \in SUBSET Recent(limited, Places)
      BY <2>3
    <3> QED BY <1>0, <3>1, FS_Subset
  <2>5. \A cells \in Cells : Guessing(cells)' \subseteq Guessing(cells)
    BY <1>8 DEF Forget, Guessing
  <2> QED BY <1>0, <2>3, <2>4, <2>5, FewerGuesses
<1>9. CASE Outside
  BY <1>4, <1>8, <1>9 DEF Outside, CreateAdmin, UpdateAdmin, UpdateMaster, ResetOwner, Idle, Expire
<1>10. CASE UNCHANGED vars
  BY <1>4, <1>10 DEF vars, Attempts
<1> QED BY <1>6, <1>7, <1>9, <1>10 DEF Next

LEMMA InitGuesses == Init => GuessInv
<1> SUFFICES ASSUME Init PROVE GuessInv
  OBVIOUS
<1>1. \A c \in Places : guessed[c] = 0 /\ limited[c] = 0
  BY DEF Init, Places
<1>2. \A cells \in SUBSET Places : Recent(guessed, cells) = {} /\ Recent(limited, cells) = {}
  BY <1>1, SessionsAssumption DEF Recent
<1>3. \A cells : Guessing(cells) = {}
  BY DEF Init, Guessing
<1>4. Cardinality({}) = 0 /\ IsFiniteSet({}) /\ Room >= 0
  BY FS_EmptySet, SessionsAssumption, FS_CardinalityType DEF Room
<1>5. \A cells \in Cells : Recent(guessed, cells) = {}
  BY <1>2, CellsInPlaces
<1>6. ASSUME NEW cells \in Cells
      PROVE  Cardinality(Recent(guessed, cells)) + Cardinality(Guessing(cells)) <= Room
  <2>1. Recent(guessed, cells) = {} /\ Guessing(cells) = {}
    BY <1>3, <1>5
  <2>2. Cardinality(Recent(guessed, cells)) = 0 /\ Cardinality(Guessing(cells)) = 0
    BY <1>4, <2>1
  <2> QED BY <1>4, <2>2
<1>7. IsFiniteSet(Recent(guessed, Places)) /\ IsFiniteSet(Recent(limited, Places))
  <2>1. Recent(guessed, Places) = {} /\ Recent(limited, Places) = {}
    BY <1>2
  <2> QED BY <1>4, <2>1
<1> QED BY <1>6, <1>7 DEF GuessInv

\* countRecentFailures is read before the password is verified and written after
\* it: however many logins overlap, a name or an address never has more wrong
\* guesses than the threshold and the requests at one time allow.
THEOREM GuessesAlwaysBounded == Spec => []GuessesBounded
<1>1. FullInv /\ GuessInv => GuessesBounded
  <2> SUFFICES ASSUME FullInv, GuessInv, NEW cells \in Cells
               PROVE  Cardinality(Recent(guessed, cells)) <= Threshold - 1 + Cardinality(Request)
    BY DEF GuessesBounded
  <2>1. /\ Cardinality(Recent(guessed, cells)) \in Nat /\ Cardinality(Guessing(cells)) \in Nat
        /\ Cardinality(Recent(guessed, cells)) + Cardinality(Guessing(cells)) <= Room
    BY GuessFacts DEF FullInv
  <2>2. Room = Threshold - 1 + Cardinality(Request) /\ Room \in Int
    BY SessionsAssumption, FS_CardinalityType DEF Room
  <2> QED BY <2>1, <2>2
<1>2. Init => GuessInv
  BY InitGuesses
<1>3. FullInv /\ GuessInv /\ [Next]_vars => GuessInv'
  BY NextGuesses
<1> QED BY <1>1, <1>2, <1>3, FullInvariantHolds, PTL DEF Spec
================================================================================
