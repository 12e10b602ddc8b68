-------------------------------- MODULE Sessions --------------------------------
(***************************************************************************)
(* Accounts, logins and sessions of the panel (AuthService over            *)
(* KyselySecurityRepository), with the other writers of admins and         *)
(* sessions: the pages of the OWNER, the sub-panels, the settings and the  *)
(* script that resets the OWNER.                                           *)
(*                                                                         *)
(* A step of a request is one statement or one transaction of PostgreSQL;  *)
(* between two of them the API serves the others, and password hashing     *)
(* takes long.  A session that is revoked or past expires_at leaves        *)
(* `sessions': the code never tells the two apart.  Reading a session and  *)
(* touching it is one step.  The policy of the settings is constant.       *)
(***************************************************************************)
EXTENDS Integers, FiniteSets

CONSTANTS
  Admin, Name, Password, Ip,
  Session,               \* bound: sessions at one time
  Request,               \* bound: requests at one time
  MaxSessions,           \* maximumConcurrentSessions
  Threshold,             \* min(loginRateLimit, failedLoginThreshold)
  MaxFailures            \* bound: failures are counted up to it

ASSUME SessionsAssumption ==
  /\ MaxSessions \in Nat \ {0} /\ Threshold \in Nat \ {0} /\ MaxFailures \in Nat /\ MaxFailures >= Threshold
  /\ IsFiniteSet(Request)

VARIABLES
  accounts,   \* admins
  sessions,   \* the sessions that are neither revoked nor expired
  order,      \* pairs of them, the first one created before the second
  guessed,    \* recent INVALID_CREDENTIALS of login_attempts
  limited,    \* recent RATE_LIMITED
  reqs        \* the requests in progress

vars == <<accounts, sessions, order, guessed, limited, reqs>>
Attempts == <<guessed, limited>>
Stored == <<sessions, order>>

-----------------------------------------------------------------------------
Role == {"OWNER", "ADMIN", "RESELLER"}
Account == [role : Role, active : BOOLEAN, name : Name, password : Password]

\* Beside the columns: the password its login verified, whether that login
\* has enforced the limit (settled) and answered (delivered), whether the
\* password had changed before it was inserted (late), and whether it is the
\* session that a password change kept.
SessionRow == [admin : Admin, idle : BOOLEAN, password : Password, settled : BOOLEAN,
               delivered : BOOLEAN, late : BOOLEAN, kept : BOOLEAN]

In(r, stage) == r \in DOMAIN reqs /\ reqs[r].stage = stage
End(r) == reqs' = [q \in DOMAIN reqs \ {r} |-> reqs[q]]
Go(r, t) == reqs' = [q \in DOMAIN reqs \cup {r} |-> IF q = r THEN t ELSE reqs[q]]

Without(gone) ==
  /\ sessions' = [s \in DOMAIN sessions \ gone |-> sessions[s]]
  /\ order' = order \cap ((DOMAIN sessions \ gone) \X (DOMAIN sessions \ gone))

SessionsOf(a) == {s \in DOMAIN sessions : sessions[s].admin = a}
Refers(r, s) == "session" \in DOMAIN reqs[r] /\ reqs[r].session = s
Unused == {s \in Session \ DOMAIN sessions :
             \A r \in DOMAIN reqs : ~Refers(r, s) /\ ("excess" \in DOMAIN reqs[r] => s \notin reqs[r].excess)}
Taken(n, a) == \E b \in DOMAIN accounts \ {a} : accounts[b].name = n

-----------------------------------------------------------------------------
(* Login *)

Bump(count, n, i, bound) == [count EXCEPT ![<<n, i>>] = IF @ < bound THEN @ + 1 ELSE @]

\* The attempts counted at some names and addresses, one element each.
Recent(count, cells) == {a \in cells \X (1..MaxFailures) : a[2] <= count[a[1]]}

\* The failures of the identifier or of the address.
RecentFailures(n, i) ==
  LET cells == {c \in Name \X Ip : c[1] = n \/ c[2] = i}
  IN Cardinality(Recent(guessed, cells)) + Cardinality(Recent(limited, cells))

\* Mutant: the threshold is passed once.
LoginOneMore(r, n, i, p) ==
  /\ r \notin DOMAIN reqs
  /\ Go(r, [stage |-> IF RecentFailures(n, i) > Threshold THEN "limited" ELSE "find",
            name |-> n, ip |-> i, password |-> p])
  /\ UNCHANGED <<accounts, Stored, Attempts>>

Login(r, n, i, p) ==
  /\ r \notin DOMAIN reqs
  /\ Go(r, [stage |-> IF RecentFailures(n, i) >= Threshold THEN "limited" ELSE "find",
            name |-> n, ip |-> i, password |-> p])
  /\ UNCHANGED <<accounts, Stored, Attempts>>

\* Mutant: an unknown account passes with the hash it was given instead.
FindAdminUnknown(r) ==
  /\ In(r, "find")
  /\ LET t == reqs[r]
         valid == {a \in Admin : a \in DOMAIN accounts => accounts[a].name = t.name /\ accounts[a].active
                                                            /\ accounts[a].password = t.password}
     IN IF valid = {} THEN Go(r, [t EXCEPT !.stage = "invalid"])
        ELSE \E a \in valid :
               Go(r, [stage |-> "verified", admin |-> a, password |-> t.password, earlier |-> DOMAIN sessions])
  /\ UNCHANGED <<accounts, Stored, Attempts>>

\* findAdminByIdentifier; the row is what verifyPassword and the checks look at.
FindAdmin(r) ==
  /\ In(r, "find")
  /\ LET t == reqs[r]
         valid == {a \in DOMAIN accounts : /\ accounts[a].name = t.name /\ accounts[a].active
                                           /\ accounts[a].password = t.password}
     IN IF valid = {} THEN Go(r, [t EXCEPT !.stage = "invalid"])
        ELSE \E a \in valid :
               Go(r, [stage |-> "verified", admin |-> a, password |-> t.password, earlier |-> DOMAIN sessions])
  /\ UNCHANGED <<accounts, Stored, Attempts>>

RecordLoginFailure(r) ==
  /\ \/ In(r, "limited") /\ limited' = Bump(limited, reqs[r].name, reqs[r].ip, Threshold) /\ UNCHANGED guessed
     \/ In(r, "invalid") /\ guessed' = Bump(guessed, reqs[r].name, reqs[r].ip, MaxFailures) /\ UNCHANGED limited
  /\ End(r) /\ UNCHANGED <<accounts, Stored>>

\* What is inserted after the password was verified.
NewSession(t) == [admin |-> t.admin, idle |-> FALSE, password |-> t.password, settled |-> FALSE,
                  delivered |-> FALSE, late |-> accounts[t.admin].password # t.password, kept |-> FALSE]

\* created_at is the begin of the transaction: of the sessions that were not
\* there when the password was looked at, any may come before or after.
CreateLoginSession(r) ==
  /\ In(r, "verified")
  /\ LET t == reqs[r] IN
     \E s \in Unused, older \in SUBSET (DOMAIN sessions) :
       /\ t.earlier \cap DOMAIN sessions \subseteq older
       /\ \A x \in older, y \in DOMAIN sessions : <<y, x>> \in order => y \in older
       /\ order' = order \cup (older \X {s}) \cup ({s} \X (DOMAIN sessions \ older))
       /\ sessions' = [x \in DOMAIN sessions \cup {s} |-> IF x = s THEN NewSession(t) ELSE sessions[x]]
       /\ Go(r, [stage |-> "created", admin |-> t.admin, session |-> s])
  /\ UNCHANGED <<accounts, Attempts>>

\* Mutant: the session of the login is counted twice.
ExcessLess(a, keep) ==
  LET mine == SessionsOf(a) \ {keep}
  IN {s \in mine : Cardinality({x \in mine : <<s, x>> \in order}) >= MaxSessions}

\* The newest MaxSessions - 1 beside its own are kept.
Excess(a, keep) ==
  LET mine == SessionsOf(a) \ {keep}
  IN {s \in mine : Cardinality({x \in mine : <<s, x>> \in order}) >= MaxSessions - 1}

\* enforceConcurrentSessionLimit, in two statements.
SelectActive(r) ==
  /\ In(r, "created")
  /\ LET t == reqs[r] IN
     Go(r, [stage |-> "excess", session |-> t.session, admin |-> t.admin, excess |-> Excess(t.admin, t.session)])
  /\ UNCHANGED <<accounts, Stored, Attempts>>

RevokeExcess(r) ==
  /\ In(r, "excess")
  /\ LET t == reqs[r]
         left == DOMAIN sessions \ t.excess
     IN /\ sessions' = [s \in left |-> IF s = t.session THEN [sessions[s] EXCEPT !.settled = TRUE] ELSE sessions[s]]
        /\ order' = order \cap (left \X left)
        /\ Go(r, [stage |-> "answer", session |-> t.session, admin |-> t.admin])
  /\ UNCHANGED <<accounts, Attempts>>

\* resolveSession and the checks of authenticate.
Usable(s) == s \in DOMAIN sessions /\ ~sessions[s].idle /\ accounts[sessions[s].admin].active

\* The login authenticates its own token before it returns it.
AnswerLogin(r) ==
  /\ In(r, "answer")
  /\ LET s == reqs[r].session IN
     IF Usable(s) THEN sessions' = [sessions EXCEPT ![s].delivered = TRUE] ELSE UNCHANGED sessions
  /\ End(r) /\ UNCHANGED <<accounts, order, Attempts>>

-----------------------------------------------------------------------------
(* Requests with a session *)

\* authenticate: the identity the handler works with.  Which handler it is
\* shows when it acts.
Authenticate(r, s) ==
  /\ r \notin DOMAIN reqs /\ Usable(s) /\ sessions[s].delivered
  /\ Go(r, [stage |-> "handler", session |-> s, admin |-> sessions[s].admin,
            name |-> accounts[sessions[s].admin].name])
  /\ UNCHANGED <<accounts, Stored, Attempts>>

\* logout and revokeOwnSession; logoutAll
Revoke(r) ==
  /\ In(r, "handler")
  /\ LET mine == SessionsOf(reqs[r].admin) IN Without(mine) \/ \E s \in mine : Without({s})
  /\ End(r) /\ UNCHANGED <<accounts, Attempts>>

Others(r) == SessionsOf(reqs[r].admin) \ {reqs[r].session}

\* revokeOtherSessions of the settings
RevokeOthers(r) ==
  /\ In(r, "handler")
  /\ Without(Others(r))
  /\ End(r) /\ UNCHANGED <<accounts, Attempts>>

\* findAdminByIdentifier with the name of the identity; a request whose
\* current password is wrong ends like one that is cut off.
VerifyCurrent(r) ==
  /\ In(r, "handler")
  /\ \E a \in DOMAIN accounts : accounts[a].name = reqs[r].name
  /\ Go(r, [stage |-> "commit", session |-> reqs[r].session, admin |-> reqs[r].admin])
  /\ UNCHANGED <<accounts, Stored, Attempts>>

\* What a new password does to the sessions of the account but one.
SetPassword(a, p, keep) ==
  LET left == DOMAIN sessions \ (SessionsOf(a) \ keep) IN
  /\ accounts' = [accounts EXCEPT ![a].password = p]
  /\ sessions' = [s \in left |-> IF s \in keep THEN [sessions[s] EXCEPT !.kept = TRUE] ELSE sessions[s]]
  /\ order' = order \cap (left \X left)

\* Mutant: the hash is changed and no session is revoked.
ChangePasswordOnly(r) ==
  /\ In(r, "commit")
  /\ \E p \in Password : accounts' = [accounts EXCEPT ![reqs[r].admin].password = p]
  /\ End(r) /\ UNCHANGED <<Stored, Attempts>>

ChangePassword(r) ==
  /\ In(r, "commit")
  /\ \E p \in Password : SetPassword(reqs[r].admin, p, {reqs[r].session} \cap DOMAIN sessions)
  /\ End(r) /\ UNCHANGED Attempts

\* Two accounts never have one name.
SetUsername(a) == \E n \in Name : ~Taken(n, a) /\ accounts' = [accounts EXCEPT ![a].name = n]

ChangeUsername(r) ==
  /\ In(r, "commit")
  /\ SetUsername(reqs[r].admin)
  /\ End(r) /\ UNCHANGED <<Stored, Attempts>>

\* An error or a restart of the API: the request ends where it is.
CutOff(r) ==
  /\ r \in DOMAIN reqs
  /\ End(r) /\ UNCHANGED <<accounts, Stored, Attempts>>

-----------------------------------------------------------------------------
(* The OWNER, the host and the clock *)

\* createAdmin, createMaster
CreateAdmin(a, role, n, p) ==
  /\ a \notin DOMAIN accounts /\ role # "OWNER" /\ ~Taken(n, a)
  /\ accounts' = [b \in DOMAIN accounts \cup {a} |-> IF b = a
       THEN [role |-> role, active |-> TRUE, name |-> n, password |-> p] ELSE accounts[b]]
  /\ UNCHANGED <<Stored, Attempts, reqs>>

\* Mutant: disabling an account leaves its sessions.
UpdateAdminOnly(a, role, status) ==
  /\ a \in DOMAIN accounts /\ accounts[a].role # "OWNER" /\ role # "OWNER"
  /\ accounts' = [accounts EXCEPT ![a].role = role,
                                  ![a].active = IF status = "same" THEN @ ELSE status = "ACTIVE"]
  /\ UNCHANGED <<Stored, Attempts, reqs>>

\* assertAdminMutationAllowed and the change of role or status
UpdateAdmin(a, role, status) ==
  /\ a \in DOMAIN accounts /\ accounts[a].role # "OWNER" /\ role # "OWNER"
  /\ accounts' = [accounts EXCEPT ![a].role = role,
                                  ![a].active = IF status = "same" THEN @ ELSE status = "ACTIVE"]
  /\ IF status = "DISABLED" THEN Without(SessionsOf(a)) ELSE UNCHANGED Stored
  /\ UNCHANGED <<Attempts, reqs>>

\* updateMaster: a new password of the reseller, or its panel switched off.
UpdateMaster(a) ==
  /\ a \in DOMAIN accounts
  /\ \/ accounts[a].role = "RESELLER" /\ \E p \in Password : SetPassword(a, p, {})
     \/ accounts[a].role # "OWNER" /\ Without(SessionsOf(a)) /\ UNCHANGED accounts
  /\ UNCHANGED <<Attempts, reqs>>

\* The script of nr-panel reset-password and reset-username.
ResetOwner(a) ==
  /\ a \in DOMAIN accounts /\ accounts[a].role = "OWNER"
  /\ \/ \E p \in Password : SetPassword(a, p, {})
     \/ SetUsername(a) /\ Without(SessionsOf(a))
  /\ UNCHANGED <<Attempts, reqs>>

Idle(s) ==
  /\ s \in DOMAIN sessions /\ ~sessions[s].idle
  /\ sessions' = [sessions EXCEPT ![s].idle = TRUE]
  /\ UNCHANGED <<accounts, order, Attempts, reqs>>

Expire(s) ==
  /\ s \in DOMAIN sessions /\ Without({s})
  /\ UNCHANGED <<accounts, Attempts, reqs>>

\* A failure leaves the window of lockoutMinutes.
Forget(n, i) ==
  /\ \/ guessed[<<n, i>>] > 0 /\ guessed' = [guessed EXCEPT ![<<n, i>>] = @ - 1] /\ UNCHANGED limited
     \/ limited[<<n, i>>] > 0 /\ limited' = [limited EXCEPT ![<<n, i>>] = @ - 1] /\ UNCHANGED guessed
  /\ UNCHANGED <<accounts, Stored, reqs>>

-----------------------------------------------------------------------------
\* The accounts the model looks at; the OWNER may be one of them.
Init ==
  /\ accounts \in UNION {[A -> {x \in Account : x.active}] : A \in SUBSET Admin}
  /\ \A a, b \in DOMAIN accounts : a # b => accounts[a].name # accounts[b].name
  /\ \A a, b \in DOMAIN accounts : a # b => "OWNER" \notin {accounts[a].role} \cap {accounts[b].role}
  /\ sessions = <<>> /\ order = {} /\ reqs = <<>>
  /\ guessed = [c \in Name \X Ip |-> 0] /\ limited = guessed

SignIn == \E r \in Request :
  \/ \E n \in Name, i \in Ip, p \in Password : Login(r, n, i, p)
  \/ FindAdmin(r) \/ RecordLoginFailure(r) \/ CreateLoginSession(r)
  \/ SelectActive(r) \/ RevokeExcess(r) \/ AnswerLogin(r) \/ CutOff(r)

Handle == \E r \in Request :
  \/ \E s \in Session : Authenticate(r, s)
  \/ Revoke(r) \/ RevokeOthers(r) \/ VerifyCurrent(r) \/ ChangePassword(r) \/ ChangeUsername(r)

Outside ==
  \/ \E a \in Admin, role \in Role, n \in Name, p \in Password : CreateAdmin(a, role, n, p)
  \/ \E a \in Admin, role \in Role, status \in {"ACTIVE", "DISABLED", "same"} : UpdateAdmin(a, role, status)
  \/ \E a \in Admin : UpdateMaster(a) \/ ResetOwner(a)
  \/ \E s \in Session : Idle(s) \/ Expire(s)
  \/ \E n \in Name, i \in Ip : Forget(n, i)

Next == SignIn \/ Handle \/ Outside
Spec == Init /\ [][Next]_vars

-----------------------------------------------------------------------------
(* Properties *)

LoginState(t) ==
  \/ t.stage \in {"find", "limited", "invalid"} /\ t \in [stage : {t.stage}, name : Name, ip : Ip, password : Password]
  \/ t.stage = "verified" /\ t \in [stage : {t.stage}, admin : DOMAIN accounts, password : Password, earlier : SUBSET Session]
  \/ t.stage \in {"created", "answer"} /\ t \in [stage : {t.stage}, admin : DOMAIN accounts, session : Session]
  \/ t.stage = "excess" /\ t \in [stage : {t.stage}, admin : DOMAIN accounts, session : Session, excess : SUBSET Session]

OwnState(t) ==
  \/ t.stage = "handler" /\ t \in [stage : {t.stage}, admin : DOMAIN accounts, session : Session, name : Name]
  \/ t.stage = "commit" /\ t \in [stage : {t.stage}, admin : DOMAIN accounts, session : Session]

\* created_at orders the sessions.
Ordered ==
  /\ order \subseteq (DOMAIN sessions) \X (DOMAIN sessions)
  /\ \A x, y \in DOMAIN sessions : <<x, y>> \in order <=> x # y /\ <<y, x>> \notin order
  /\ \A x, y, z \in DOMAIN sessions : <<x, y>> \in order /\ <<y, z>> \in order => <<x, z>> \in order

\* The shape of the state.  Every session belongs to an account that exists and
\* has its place in the order of creation; no two accounts have one name.
TypeOK ==
  /\ accounts \in UNION {[A -> Account] : A \in SUBSET Admin}
  /\ \A a \in DOMAIN accounts : ~Taken(accounts[a].name, a)
  /\ DOMAIN sessions \subseteq Session
  /\ \A s \in DOMAIN sessions : sessions[s] \in SessionRow /\ sessions[s].admin \in DOMAIN accounts
  /\ Ordered
  /\ guessed \in [Name \X Ip -> 0..MaxFailures] /\ limited \in [Name \X Ip -> 0..Threshold]
  /\ \A r \in DOMAIN reqs : r \in Request /\ (LoginState(reqs[r]) \/ OwnState(reqs[r]))

\* However logins of one account overlap, the sessions it has beyond the limit
\* are sessions of logins that have not enforced the limit yet or were cut off
\* before they could.
SessionLimit == \A a \in DOMAIN accounts :
  Cardinality(SessionsOf(a)) <= MaxSessions + Cardinality({s \in SessionsOf(a) : ~sessions[s].settled})

\* A session whose login verified a password that is not the password of the
\* account any more is the one that a change kept, or its login was still
\* hashing when the password changed.
OldPasswordIsOut == \A s \in DOMAIN sessions :
  sessions[s].password # accounts[sessions[s].admin].password => sessions[s].late \/ sessions[s].kept

\* No token that was handed to a browser is alive while its account is
\* disabled, so that enabling the account brings none of them back.
DisabledHoldsNone == \A s \in DOMAIN sessions :
  sessions[s].delivered => accounts[sessions[s].admin].active

\* What the lockout counts together: a name, or an address.
Cells == {{n} \X Ip : n \in Name} \cup {Name \X {i} : i \in Ip}

\* Logins that overlap exceed the lockout threshold by no more than their number.
GuessesBounded == \A cells \in Cells :
  Cardinality(Recent(guessed, cells)) <= Threshold - 1 + Cardinality(Request)
=============================================================================
