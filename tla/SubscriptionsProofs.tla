-------------------------- MODULE SubscriptionsProofs --------------------------
(***************************************************************************)
(* What the users of a sub-panel are delivered, for any users, requests,   *)
(* credentials and times: the link of every user is current, a             *)
(* subscription that is off is off on every page, what an edit has read is *)
(* still so when it commits, and a circle of requests that wait for each   *)
(* other joins the two orders in which the requests take their locks.      *)
(***************************************************************************)
EXTENDS Subscriptions, FiniteSetTheorems, TLAPS

-----------------------------------------------------------------------------
(* The inductive invariant *)

\* The plans of more than one lock.
EditPlan == <<"user", "sub">>
RotatePlan == <<"sub", "tenant">>
SwitchPlan == <<"sub", "user", "tenant">>

\* A request asks for the locks of its plan in turn, and holds what it passed.
Passed(t) ==
  \/ Plan(t.kind) = EditPlan /\ t.todo = <<"sub">> /\ t.held \subseteq {"user"}
  \/ Plan(t.kind) = RotatePlan /\ t.todo = <<"tenant">> /\ t.held \subseteq {"sub"}
  \/ Plan(t.kind) = SwitchPlan /\ t.todo = <<"user", "tenant">> /\ t.held \subseteq {"sub"}
  \/ Plan(t.kind) = SwitchPlan /\ t.todo = <<"tenant">> /\ t.held \subseteq {"sub", "user"}
InOrder(t) ==
  \/ t.todo = Plan(t.kind) /\ t.held = {}
  \/ ~t.fresh /\ Passed(t)
LocksInOrder == \A r \in DOMAIN tx : InOrder(tx[r])

\* The user of a request that creates one is nobody else's.
NewIds == \A r \in DOMAIN tx : tx[r].kind = "create" =>
  /\ tx[r].user \notin DOMAIN users
  /\ \A q \in DOMAIN tx : q # r => tx[q].user # tx[r].user

\* One edit at a time has read its target: it holds the lock of the tenant.
OneEdit == \A r, q \in DOMAIN tx : HasTenant(r) /\ HasTenant(q) => r = q

\* What an edit knows at a time of the expiration e of its target.
Knows(t, e, time) ==
  /\ t.kind \in {"rotateCredential", "delete"} => t.expires = e
  /\ t.kind = "extend" => t.expires # None /\ (e # None => t.expires > e)
  /\ t.kind = "deleteExpired" => e # None /\ e <= time
UpToDate == \A r \in DOMAIN tx :
  HasTenant(r) /\ tx[r].user \in DOMAIN users => Knows(tx[r], users[tx[r].user].expires, now)

\* What the invariant says of the requests, and of the tables.
Orderly == LocksInOrder /\ NewIds /\ OneEdit /\ UpToDate
Served == LinkMatches /\ OffIsShownOff

IInv == TypeOK /\ Orderly /\ Served

-----------------------------------------------------------------------------
(* Types *)

\* The three tables.
Tables ==
  /\ DOMAIN users \subseteq User /\ users \in [DOMAIN users -> Account]
  /\ DOMAIN links = DOMAIN users /\ links \in [DOMAIN users -> SUBSET Link]
  /\ DOMAIN subs \subseteq DOMAIN users /\ subs \in [DOMAIN subs -> Subscription]

Requests == DOMAIN tx \subseteq Request /\ tx \in [DOMAIN tx -> Request_]

LEMMA TypeParts ==
  TypeOK <=> now \in 0..MaxTime /\ panel \in Panel /\ Tables /\ Requests
BY DEF TypeOK, Tables, Requests

LEMMA PutType ==
  ASSUME NEW f, NEW S, f \in [DOMAIN f -> S], NEW u, NEW row \in S
  PROVE  /\ DOMAIN Put(f, u, row) = DOMAIN f \cup {u}
         /\ Put(f, u, row) \in [DOMAIN f \cup {u} -> S]
         /\ Put(f, u, row)[u] = row
         /\ \A v \in DOMAIN f : v # u => Put(f, u, row)[v] = f[v]
BY DEF Put

LEMMA DropType ==
  ASSUME NEW f, NEW S, f \in [DOMAIN f -> S], NEW u
  PROVE  /\ DOMAIN Drop(f, u) = DOMAIN f \ {u}
         /\ Drop(f, u) \in [DOMAIN f \ {u} -> S]
         /\ \A v \in DOMAIN f : v # u => Drop(f, u)[v] = f[v]
BY DEF Drop

LEMMA PlanCases ==
  ASSUME NEW kind
  PROVE  /\ Plan(kind) \in {<<"user">>, <<"sub">>, EditPlan, RotatePlan, SwitchPlan}
         /\ Plan(kind) \in Seq(Lock)
<1>1. Plan(kind) \in {<<"user">>, <<"sub">>, EditPlan, RotatePlan, SwitchPlan}
  BY DEF Plan, EditPlan, RotatePlan, SwitchPlan
<1>2. /\ <<"user">> \in Seq(Lock) /\ <<"sub">> \in Seq(Lock)
      /\ EditPlan \in Seq(Lock) /\ RotatePlan \in Seq(Lock) /\ SwitchPlan \in Seq(Lock)
  BY DEF Lock, Row, EditPlan, RotatePlan, SwitchPlan
<1> QED BY <1>1, <1>2

(* Whose plan it is.                                                         *)
LEMMA PlanOf ==
  ASSUME NEW kind
  PROVE  /\ Plan(kind) = EditPlan => kind \in Edit \cup {"deleteClient"}
         /\ Plan(kind) = RotatePlan => kind \in SubscriptionFirst
         /\ Plan(kind) = SwitchPlan => kind \in Switch
<1> DEFINE p == Plan(kind)
<1>1. <<"user">> # EditPlan /\ <<"user">> # RotatePlan /\ <<"user">> # SwitchPlan
  BY DEF EditPlan, RotatePlan, SwitchPlan
<1>2. <<"sub">> # EditPlan /\ <<"sub">> # RotatePlan /\ <<"sub">> # SwitchPlan
  BY DEF EditPlan, RotatePlan, SwitchPlan
<1>3. EditPlan # RotatePlan /\ EditPlan # SwitchPlan /\ RotatePlan # SwitchPlan
  BY DEF EditPlan, RotatePlan, SwitchPlan
<1>4. \/ p = <<"user">> \/ p = <<"sub">>
      \/ p = EditPlan /\ kind \in Edit \cup {"deleteClient"}
      \/ p = RotatePlan /\ kind = "rotateToken"
      \/ p = SwitchPlan /\ kind \in Switch
  BY DEF Plan, EditPlan, RotatePlan, SwitchPlan
<1> HIDE DEF p
<1>5. /\ p = EditPlan => kind \in Edit \cup {"deleteClient"}
      /\ p = RotatePlan => kind = "rotateToken"
      /\ p = SwitchPlan => kind \in Switch
  BY <1>1, <1>2, <1>3, <1>4
<1> QED BY <1>5 DEF p, SubscriptionFirst

(* What a request carries, field by field. *)
LEMMA RequestType ==
  ASSUME Requests, NEW r \in DOMAIN tx
  PROVE  /\ r \in Request /\ tx[r] \in Request_
         /\ tx[r].kind \in Kind /\ tx[r].user \in User /\ tx[r].fresh \in BOOLEAN
         /\ tx[r].todo \in Seq(Lock) /\ tx[r].held \subseteq Row
         /\ tx[r].capable \in BOOLEAN /\ tx[r].expires \in Expiry
BY DEF Requests, Request_

-----------------------------------------------------------------------------
(* The requests: one begins, goes on, or ends *)

\* A request that begins.
Begun(kind, u) ==
  [kind |-> kind, user |-> u, fresh |-> TRUE, todo |-> Plan(kind), held |-> {},
   capable |-> kind = "create" /\ panel.capable, expires |-> None]

LEMMA BegunType ==
  ASSUME panel \in Panel, NEW kind \in Kind, NEW u \in User
  PROVE  Begun(kind, u) \in Request_ /\ InOrder(Begun(kind, u))
<1>1. panel.capable \in BOOLEAN
  BY DEF Panel
<1>2. (kind = "create" /\ panel.capable) \in BOOLEAN
  BY <1>1
<1> QED BY <1>2, PlanCases DEF Begun, Request_, InOrder, Expiry

\* The request r is at t now, and the others are where they were.
Moves(r, t) ==
  /\ DOMAIN tx' = DOMAIN tx \cup {r}
  /\ tx'[r] = t
  /\ \A q \in DOMAIN tx : q # r => tx'[q] = tx[q]

LEMMA MovesType ==
  ASSUME Requests, LocksInOrder, NEW r \in Request, NEW t \in Request_, InOrder(t), Moves(r, t),
         tx' = [q \in DOMAIN tx' |-> tx'[q]]
  PROVE  Requests' /\ LocksInOrder'
<1>1. \A q \in DOMAIN tx' : tx'[q] \in Request_ /\ InOrder(tx'[q])
  BY DEF Moves, Requests, LocksInOrder
<1>2. DOMAIN tx' \subseteq Request
  BY DEF Moves, Requests
<1>3. tx' \in [DOMAIN tx' -> Request_]
  BY <1>1
<1> QED BY <1>1, <1>2, <1>3 DEF Requests, LocksInOrder

LEMMA EndType ==
  ASSUME Requests, LocksInOrder, NEW r, End(r)
  PROVE  /\ Requests' /\ LocksInOrder'
         /\ DOMAIN tx' = DOMAIN tx \ {r}
         /\ \A q \in DOMAIN tx' : tx'[q] = tx[q]
<1>1. DOMAIN tx' = DOMAIN tx \ {r} /\ \A q \in DOMAIN tx' : tx'[q] = tx[q]
  BY DEF End
<1>2. \A q \in DOMAIN tx' : tx'[q] \in Request_ /\ InOrder(tx'[q])
  BY <1>1 DEF Requests, LocksInOrder
<1>3. tx' \in [DOMAIN tx' -> Request_]
  BY <1>2 DEF End
<1> QED BY <1>1, <1>2, <1>3 DEF Requests, LocksInOrder

(* A request that goes on. *)
LEMMA GoMoves ==
  ASSUME NEW r \in DOMAIN tx, NEW t, Go(r, t)
  PROVE  Moves(r, t) /\ tx' = [q \in DOMAIN tx' |-> tx'[q]]
BY DEF Go, Moves

\* The tables and the panel stay as they are.
Still == UNCHANGED <<Around, Data>>

(* A request goes on: an edit that reads its target is the only one, and     *)
(* knows its expiration.                                                     *)
LEMMA GoKeeps ==
  ASSUME Requests, Orderly, Still, NEW r \in DOMAIN tx, NEW t \in Request_, InOrder(t),
         t.kind = tx[r].kind, t.user = tx[r].user, Go(r, t),
         t.kind \in Edit /\ ~t.fresh =>
           \/ ~tx[r].fresh /\ t.expires = tx[r].expires
           \/ /\ \A q \in DOMAIN tx : ~HasTenant(q)
              /\ t.user \in DOMAIN users => Knows(t, users[t.user].expires, now)
  PROVE  Requests' /\ Orderly'
<1>1. Moves(r, t) /\ tx' = [q \in DOMAIN tx' |-> tx'[q]]
  BY GoMoves
<1>2. r \in Request
  BY DEF Requests
<1>3. Requests' /\ LocksInOrder'
  BY <1>1, <1>2, MovesType DEF Orderly
<1>4. DOMAIN tx' = DOMAIN tx /\ tx'[r] = t /\ \A q \in DOMAIN tx : q # r => tx'[q] = tx[q]
  BY <1>1 DEF Moves
<1>5. users' = users /\ now' = now
  BY DEF Still, Around, Data
<1>6. NewIds'
  <2>1. \A q \in DOMAIN tx : tx'[q].kind = tx[q].kind /\ tx'[q].user = tx[q].user
    BY <1>4
  <2> QED BY <1>4, <1>5, <2>1 DEF NewIds, Orderly
<1>7. \A q \in DOMAIN tx : q # r => (HasTenant(q)' <=> HasTenant(q))
  BY <1>4 DEF HasTenant
<1>8. HasTenant(r)' => HasTenant(r) \/ \A q \in DOMAIN tx : ~HasTenant(q)
  BY <1>4 DEF HasTenant
<1>9. OneEdit'
  BY <1>4, <1>7, <1>8 DEF OneEdit, Orderly
<1>10. UpToDate'
  <2> SUFFICES ASSUME NEW q \in DOMAIN tx', HasTenant(q)', tx'[q].user \in DOMAIN users'
               PROVE  Knows(tx'[q], users'[tx'[q].user].expires, now')
    BY DEF UpToDate
  <2>1. CASE q # r
    <3>1. Knows(tx[q], users[tx[q].user].expires, now)
      BY <1>4, <1>5, <1>7, <2>1 DEF UpToDate, Orderly
    <3> QED BY <1>4, <1>5, <2>1, <3>1 DEF Knows
  <2>2. CASE q = r /\ HasTenant(r) /\ t.expires = tx[r].expires
    <3>1. Knows(tx[r], users[tx[r].user].expires, now)
      BY <1>4, <1>5, <2>2 DEF UpToDate, Orderly
    <3> QED BY <1>4, <1>5, <2>2, <3>1 DEF Knows
  <2>3. CASE q = r /\ \A p \in DOMAIN tx : ~HasTenant(p)
    <3>1. Knows(t, users[t.user].expires, now)
      BY <1>4, <1>5, <2>3 DEF HasTenant
    <3> QED BY <1>4, <1>5, <2>3, <3>1 DEF Knows
  <2> QED BY <1>4, <2>1, <2>2, <2>3 DEF HasTenant
<1> QED BY <1>3, <1>6, <1>9, <1>10 DEF Orderly

\* No user comes but `some', and no expiration changes.
SameEnds(some) ==
  /\ DOMAIN users' \subseteq DOMAIN users \cup some
  /\ \A u \in DOMAIN users' : u \in DOMAIN users => users'[u].expires = users[u].expires

(* A request ends, at its commit or before: an edit that changes expirations *)
(* was the only one.                                                         *)
LEMMA EndKeeps ==
  ASSUME Requests, Orderly, now' = now, NEW r \in DOMAIN tx, End(r),
         DOMAIN users' \subseteq DOMAIN users \cup {tx[r].user},
         HasTenant(r) \/ SameEnds({})
  PROVE  Requests' /\ Orderly'
<1>1. /\ Requests' /\ LocksInOrder'
      /\ DOMAIN tx' = DOMAIN tx \ {r} /\ \A q \in DOMAIN tx' : tx'[q] = tx[q]
  BY EndType DEF Orderly
<1>2. NewIds'
  BY <1>1 DEF NewIds, Orderly
<1>3. \A q \in DOMAIN tx' : HasTenant(q)' <=> HasTenant(q)
  BY <1>1 DEF HasTenant
<1>4. OneEdit'
  BY <1>1, <1>3 DEF OneEdit, Orderly
<1>5. UpToDate'
  <2> SUFFICES ASSUME NEW q \in DOMAIN tx', HasTenant(q)', tx'[q].user \in DOMAIN users'
               PROVE  Knows(tx'[q], users'[tx'[q].user].expires, now')
    BY DEF UpToDate
  <2>1. q # r /\ HasTenant(q) /\ q \in DOMAIN tx /\ tx'[q] = tx[q]
    BY <1>1, <1>3
  <2>2. SameEnds({})
    BY <2>1 DEF OneEdit, Orderly
  <2>3. tx[q].user \in DOMAIN users /\ users'[tx[q].user].expires = users[tx[q].user].expires
    BY <2>1, <2>2 DEF SameEnds
  <2>4. Knows(tx[q], users[tx[q].user].expires, now)
    BY <2>1, <2>3 DEF UpToDate, Orderly
  <2> QED BY <2>1, <2>3, <2>4 DEF Knows
<1> QED BY <1>1, <1>2, <1>4, <1>5 DEF Orderly

(* A step outside the portal.                                                *)
LEMMA OutsideKeeps ==
  ASSUME Requests, Orderly, UNCHANGED tx, now \in Nat, now' \in Nat, now' >= now,
         \A u \in DOMAIN users : users[u].expires \in Expiry, SameEnds({})
  PROVE  Requests' /\ Orderly'
<1>1. Requests' /\ LocksInOrder'
  BY DEF Requests, LocksInOrder, Orderly
<1>2. NewIds'
  BY DEF NewIds, SameEnds, Orderly
<1>3. OneEdit' /\ \A q \in DOMAIN tx : HasTenant(q)' <=> HasTenant(q)
  BY DEF OneEdit, HasTenant, Orderly
<1>4. UpToDate'
  <2> SUFFICES ASSUME NEW q \in DOMAIN tx, HasTenant(q), tx[q].user \in DOMAIN users'
               PROVE  Knows(tx[q], users'[tx[q].user].expires, now')
    BY <1>3 DEF UpToDate
  <2>1. tx[q].user \in DOMAIN users /\ users'[tx[q].user].expires = users[tx[q].user].expires
    BY DEF SameEnds
  <2>2. Knows(tx[q], users[tx[q].user].expires, now) /\ users[tx[q].user].expires \in Expiry
    BY <2>1 DEF UpToDate, Orderly
  <2>3. \A e \in Expiry : e # None /\ e <= now => e <= now'
    BY SubscriptionAssumption DEF Expiry
  <2> QED BY <2>1, <2>2, <2>3 DEF Knows
<1> QED BY <1>1, <1>2, <1>3, <1>4 DEF Orderly

-----------------------------------------------------------------------------
(* The steps of a request up to its commit *)

LEMMA Pieces ==
  ASSUME IInv
  PROVE  /\ now \in 0..MaxTime /\ now \in Nat /\ panel \in Panel
         /\ Tables /\ Requests /\ Orderly /\ LinkMatches /\ OffIsShownOff
         /\ \A u \in DOMAIN users : u \in User /\ users[u] \in Account /\ users[u].expires \in Expiry
BY TypeParts, SubscriptionAssumption DEF IInv, Tables, Account, Served

(* Nothing is known of what a new request is about.                          *)
LEMMA ArriveKeeps ==
  ASSUME IInv, NEW r \in Request, Arrive(r)
  PROVE  Still /\ Requests' /\ Orderly'
<1>1. PICK kind \in Kind, u \in User :
        /\ IF kind = "create" THEN u \notin DOMAIN users /\ \A q \in DOMAIN tx : tx[q].user # u
           ELSE u \in DOMAIN users
        /\ Begin(r, kind, u)
  BY DEF Arrive
<1>2. Still
  BY <1>1 DEF Begin, Still
<1>3. r \notin DOMAIN tx /\ tx' = [q \in DOMAIN tx \cup {r} |-> IF q = r THEN Begun(kind, u) ELSE tx[q]]
  BY <1>1 DEF Begin, Begun
<1>4. Begun(kind, u) \in Request_ /\ InOrder(Begun(kind, u))
  BY BegunType, Pieces
<1>5. /\ Begun(kind, u).fresh /\ Begun(kind, u).kind = kind /\ Begun(kind, u).user = u
  BY DEF Begun
<1> HIDE DEF Begun
<1>6. Moves(r, Begun(kind, u)) /\ tx' = [q \in DOMAIN tx' |-> tx'[q]]
  BY <1>3 DEF Moves
<1>7. Requests' /\ LocksInOrder'
  BY <1>4, <1>6, MovesType, Pieces DEF Orderly
<1>8. /\ DOMAIN tx' = DOMAIN tx \cup {r} /\ tx'[r] = Begun(kind, u)
      /\ \A q \in DOMAIN tx : q # r /\ tx'[q] = tx[q]
  BY <1>3
<1>9. users' = users /\ now' = now
  BY <1>2 DEF Still, Around, Data
<1>10. NewIds'
  BY <1>1, <1>5, <1>8, <1>9, Pieces DEF NewIds, Orderly
<1>11. ~HasTenant(r)' /\ \A q \in DOMAIN tx : HasTenant(q)' <=> HasTenant(q)
  BY <1>5, <1>8 DEF HasTenant
<1>12. OneEdit'
  BY <1>8, <1>11, Pieces DEF OneEdit, Orderly
<1>13. UpToDate'
  BY <1>8, <1>9, <1>11, Pieces DEF UpToDate, Orderly
<1> QED BY <1>2, <1>7, <1>10, <1>12, <1>13 DEF Orderly

(* What a request may ask for, and what it knows then.                       *)
LEMMA RequestedType ==
  ASSUME NEW kind \in Kind, NEW e \in Expiry
  PROVE  Requested(kind, e) \subseteq Expiry
BY DEF Requested

LEMMA RequestedKnows ==
  ASSUME IInv, NEW kind \in Kind, NEW e \in Expiry, NEW d \in Requested(kind, e),
         NEW t, t.kind = kind, t.expires = d
  PROVE  Knows(t, e, now)
<1>1. now \in Nat /\ \A x \in Expiry : x # None => x \in Nat
  BY Pieces DEF Expiry
<1>2. CASE kind = "extend"
  <2>1. d \in Expiry \ {None} /\ d > (IF e # None /\ e > now THEN e ELSE now)
    BY <1>2 DEF Requested
  <2>2. e # None => d > e
    BY <1>1, <2>1
  <2> QED BY <1>2, <2>1, <2>2 DEF Knows
<1>3. CASE kind = "deleteExpired"
  BY <1>3 DEF Requested, Knows, Expired
<1>4. CASE kind \in {"rotateCredential", "delete"}
  BY <1>4 DEF Requested, Knows
<1>5. CASE kind \notin {"extend", "deleteExpired", "rotateCredential", "delete"}
  BY <1>5 DEF Requested, Knows
<1> QED BY <1>2, <1>3, <1>4, <1>5

(* A request that ends without a commit.                                     *)
LEMMA EndsKeeps ==
  ASSUME IInv, NEW r \in DOMAIN tx, Still, End(r)
  PROVE  Requests' /\ Orderly'
<1>1. now' = now /\ users' = users
  BY DEF Still, Around, Data
<1>2. SameEnds({})
  BY <1>1 DEF SameEnds
<1> QED BY <1>1, <1>2, EndKeeps, Pieces

LEMMA ReadTargetKeeps ==
  ASSUME IInv, NEW r \in Request, ReadTarget(r)
  PROVE  Still /\ Requests' /\ Orderly'
<1> DEFINE t == tx[r]
           found == t.kind = "create" \/ t.user \in DOMAIN users
           choices == IF ~found \/ (t.kind \in Edit /\ ~PanelActive) THEN {}
                      ELSE Requested(t.kind, IF t.kind = "create" THEN None ELSE users[t.user].expires)
<1>1. /\ r \in DOMAIN tx /\ Still
      /\ t.kind \in Edit => TenantFree
      /\ IF choices = {} THEN End(r)
         ELSE \E e \in choices : Go(r, [t EXCEPT !.fresh = FALSE, !.expires = e])
  BY DEF ReadTarget, At, Still
<1>2. CASE choices = {}
  BY <1>1, <1>2, EndsKeeps
<1>3. ASSUME NEW d \in choices, Go(r, [t EXCEPT !.fresh = FALSE, !.expires = d])
      PROVE  Requests' /\ Orderly'
  <2> DEFINE next == [t EXCEPT !.fresh = FALSE, !.expires = d]
  <2>1. t \in Request_ /\ InOrder(t)
    BY <1>1, Pieces, RequestType DEF Orderly, LocksInOrder
  <2>2. found /\ d \in Requested(t.kind, IF t.kind = "create" THEN None ELSE users[t.user].expires)
    BY <1>3
  <2>3. d \in Expiry
    <3> DEFINE e == IF t.kind = "create" THEN None ELSE users[t.user].expires
    <3>1. e \in Expiry /\ t.kind \in Kind
      BY <2>1, <2>2, Pieces DEF Expiry, Request_
    <3>2. d \in Requested(t.kind, e)
      BY <2>2
    <3> HIDE DEF e
    <3> QED BY <3>1, <3>2, RequestedType
  <2>4. /\ next \in Request_ /\ next.kind = t.kind /\ next.user = t.user /\ next.todo = t.todo
        /\ next.held = t.held /\ ~next.fresh /\ next.expires = d
    BY <2>1, <2>3 DEF Request_
  <2>5. InOrder(next)
    BY <2>1, <2>4 DEF InOrder, Passed
  <2>6. t.user \in DOMAIN users => Knows(next, users[t.user].expires, now)
    <3>1. CASE t.kind = "create"
      BY <3>1, <2>4 DEF Knows
    <3>2. CASE t.kind # "create"
      BY <3>2, <2>1, <2>2, <2>4, RequestedKnows, Pieces DEF Request_
    <3> QED BY <3>1, <3>2
  <2>7. t.kind \in Edit => \A q \in DOMAIN tx : ~HasTenant(q)
    BY <1>1 DEF TenantFree, HasTenant
  <2>8. Go(r, next)
    BY <1>3
  <2> HIDE DEF next, choices, found
  <2> QED BY <1>1, <2>4, <2>5, <2>6, <2>7, <2>8, GoKeeps, Pieces
<1> QED BY <1>1, <1>2, <1>3

LEMMA LookupKeeps ==
  ASSUME IInv, NEW r \in Request, Lookup(r)
  PROVE  Still /\ Requests' /\ Orderly'
<1> DEFINE t == tx[r]  next == [t EXCEPT !.fresh = FALSE]
<1>1. r \in DOMAIN tx /\ Still /\ Go(r, next) /\ t.kind = "consume"
  BY DEF Lookup, At, Still
<1>2. t \in Request_ /\ InOrder(t)
  BY <1>1, Pieces, RequestType DEF Orderly, LocksInOrder
<1>3. /\ next \in Request_ /\ next.kind = t.kind /\ next.user = t.user /\ next.todo = t.todo
      /\ next.held = t.held /\ ~next.fresh
  BY <1>2 DEF Request_
<1>4. InOrder(next) /\ next.kind \notin Edit
  BY <1>1, <1>2, <1>3 DEF InOrder, Passed, Edit
<1> HIDE DEF next
<1> QED BY <1>1, <1>3, <1>4, GoKeeps, Pieces

LEMMA AcquireKeeps ==
  ASSUME IInv, NEW r \in Request, Acquire(r)
  PROVE  Still /\ Requests' /\ Orderly'
<1> DEFINE t == tx[r]
           next == [t EXCEPT !.todo = Tail(@),
                             !.held = IF Exists(Stage(r), t.user) THEN @ \cup {Stage(r)} ELSE @]
<1>1. r \in DOMAIN tx /\ Still /\ Go(r, next) /\ ~t.fresh /\ Len(t.todo) > 1
  BY DEF Acquire, Still
<1>2. t \in Request_ /\ InOrder(t) /\ t.todo \in Seq(Lock) /\ t.held \subseteq Row
  BY <1>1, Pieces, RequestType DEF Orderly, LocksInOrder
<1>3. Len(t.todo) # 1
  <2>1. Len(t.todo) \in Nat /\ Len(t.todo) > 1
    BY <1>1, <1>2
  <2>2. \A n \in Nat : n > 1 => n # 1
    OBVIOUS
  <2> HIDE DEF t, next
  <2> QED BY <2>1, <2>2, Zenon
<1>4. /\ t.todo # <<"user">> /\ t.todo # <<"sub">> /\ t.todo # <<"tenant">>
  <2>1. \A x : Len(<<x>>) = 1
    OBVIOUS
  <2> HIDE DEF t, next
  <2> QED BY <1>3, <2>1
<1>5. \/ t.todo = EditPlan /\ Plan(t.kind) = EditPlan /\ t.held = {}
      \/ t.todo = RotatePlan /\ Plan(t.kind) = RotatePlan /\ t.held = {}
      \/ t.todo = SwitchPlan /\ Plan(t.kind) = SwitchPlan /\ t.held = {}
      \/ t.todo = <<"user", "tenant">> /\ Plan(t.kind) = SwitchPlan /\ t.held \subseteq {"sub"}
  <2>1. InOrder(t)
    BY <1>2
  <2> HIDE DEF t, next
  <2> QED BY <1>4, <2>1, PlanCases DEF InOrder, Passed
<1>6. \/ /\ Stage(r) = "user" /\ Tail(t.todo) = <<"sub">> /\ Plan(t.kind) = EditPlan /\ t.held = {}
      \/ /\ Stage(r) = "sub" /\ Tail(t.todo) = <<"tenant">> /\ Plan(t.kind) = RotatePlan /\ t.held = {}
      \/ /\ Stage(r) = "sub" /\ Tail(t.todo) = <<"user", "tenant">> /\ Plan(t.kind) = SwitchPlan
         /\ t.held = {}
      \/ /\ Stage(r) = "user" /\ Tail(t.todo) = <<"tenant">> /\ Plan(t.kind) = SwitchPlan
         /\ t.held \subseteq {"sub"}
  <2>1. Stage(r) = Head(t.todo)
    BY <1>1 DEF Stage
  <2>2. /\ Head(EditPlan) = "user" /\ Tail(EditPlan) = <<"sub">>
        /\ Head(RotatePlan) = "sub" /\ Tail(RotatePlan) = <<"tenant">>
        /\ Head(SwitchPlan) = "sub" /\ Tail(SwitchPlan) = <<"user", "tenant">>
        /\ Head(<<"user", "tenant">>) = "user" /\ Tail(<<"user", "tenant">>) = <<"tenant">>
    BY DEF EditPlan, RotatePlan, SwitchPlan
  <2> HIDE DEF t, next
  <2> QED BY <1>5, <2>1, <2>2
<1>7. Tail(t.todo) \in Seq(Lock) /\ Stage(r) \in Row
  <2>1. /\ <<"sub">> \in Seq(Lock) /\ <<"tenant">> \in Seq(Lock) /\ <<"user", "tenant">> \in Seq(Lock)
        /\ "user" \in Row /\ "sub" \in Row
    BY DEF Lock, Row
  <2> HIDE DEF t, next
  <2> QED BY <1>6, <2>1
<1>8. /\ next.kind = t.kind /\ next.user = t.user /\ next.fresh = t.fresh
      /\ next.expires = t.expires /\ next.todo = Tail(t.todo) /\ next.held \subseteq t.held \cup {Stage(r)}
      /\ next \in Request_
  BY <1>2, <1>7 DEF Request_
<1>9. InOrder(next)
  <2>1. ~next.fresh
    BY <1>1, <1>8
  <2>2. Passed(next)
    <3> HIDE DEF next
    <3> QED BY <1>6, <1>8 DEF Passed
  <2> QED BY <2>1, <2>2 DEF InOrder
<1> HIDE DEF next
<1> QED BY <1>1, <1>8, <1>9, GoKeeps, Pieces

(* The steps that write nothing.                                             *)
LEMMA ReadersKeep ==
  ASSUME IInv, NEW r \in Request,
         \/ Arrive(r) \/ Acquire(r) \/ ReadTarget(r) \/ Lookup(r) \/ LookupRefused(r)
         \/ Answer(r) \/ TargetGone(r) \/ NoSubscription(r) \/ Fail(r)
  PROVE  Still /\ Requests' /\ Orderly'
<1>1. CASE LookupRefused(r) \/ Answer(r) \/ TargetGone(r) \/ NoSubscription(r) \/ Fail(r)
  <2>1. r \in DOMAIN tx /\ End(r) /\ Still
    BY <1>1 DEF LookupRefused, Answer, TargetGone, NoSubscription, Fail, Commits, At, Still, Around, Data
  <2> QED BY <2>1, EndsKeeps
<1> QED BY <1>1, ArriveKeeps, AcquireKeeps, ReadTargetKeeps, LookupKeeps

-----------------------------------------------------------------------------
(* What a step writes *)

\* The user u has the row and the one link l now, and its subscription is
\* switched by nothing but the row.
Writes(u, row, l) ==
  /\ DOMAIN users' = DOMAIN users \cup {u} /\ users' = [v \in DOMAIN users' |-> users'[v]]
  /\ users'[u] = row /\ \A v \in DOMAIN users : v # u => users'[v] = users[v]
  /\ DOMAIN links' = DOMAIN links \cup {u} /\ links' = [v \in DOMAIN links' |-> links'[v]]
  /\ links'[u] = {l} /\ \A v \in DOMAIN links : v # u => links'[v] = links[v]
  /\ DOMAIN subs \subseteq DOMAIN subs' /\ DOMAIN subs' \subseteq DOMAIN subs \cup {u}
  /\ subs' = [v \in DOMAIN subs' |-> subs'[v]]
  /\ u \in DOMAIN subs' => subs'[u] \in Subscription
  /\ row.subscribed => u \in DOMAIN subs' /\ subs'[u].enabled
  /\ \A v \in DOMAIN subs : v # u => subs'[v] = subs[v]

LEMMA WritesKeeps ==
  ASSUME IInv, NEW u \in User, NEW row \in Account, NEW l \in Link, Writes(u, row, l),
         l.expires = row.expires, l.credential = row.credential \/ row.credential \in OwnerCredential
  PROVE  Tables' /\ Served'
<1>1. Tables /\ LinkMatches /\ OffIsShownOff
  BY Pieces
<1>2. DOMAIN users' \subseteq User /\ DOMAIN links' = DOMAIN users' /\ DOMAIN subs' \subseteq DOMAIN users'
  BY <1>1 DEF Tables, Writes
<1>3. \A v \in DOMAIN users' : users'[v] \in Account /\ links'[v] \in SUBSET Link
  BY <1>1 DEF Tables, Writes
<1>4. \A v \in DOMAIN subs' : subs'[v] \in Subscription
  BY <1>1 DEF Tables, Writes
<1>5. users' \in [DOMAIN users' -> Account] /\ links' \in [DOMAIN users' -> SUBSET Link]
  BY <1>2, <1>3 DEF Writes
<1>6. subs' \in [DOMAIN subs' -> Subscription]
  BY <1>4 DEF Writes
<1>7. LinkMatches'
  <2> SUFFICES ASSUME NEW v \in DOMAIN users'
               PROVE  \E k \in Link :
                        /\ links'[v] = {k} /\ k.expires = users'[v].expires
                        /\ k.credential = users'[v].credential \/ users'[v].credential \in OwnerCredential
    BY DEF LinkMatches
  <2>1. CASE v = u
    BY <2>1 DEF Writes
  <2>2. CASE v # u
    <3>1. v \in DOMAIN users /\ v \in DOMAIN links /\ users'[v] = users[v] /\ links'[v] = links[v]
      BY <1>1, <2>2 DEF Writes, Tables
    <3> QED BY <1>1, <3>1 DEF LinkMatches
  <2> QED BY <2>1, <2>2
<1>8. OffIsShownOff'
  <2> SUFFICES ASSUME NEW v \in DOMAIN users', users'[v].subscribed
               PROVE  v \in DOMAIN subs' /\ subs'[v].enabled
    BY DEF OffIsShownOff, ShownOn
  <2>1. CASE v = u
    BY <2>1 DEF Writes
  <2>2. CASE v # u
    <3>1. v \in DOMAIN users /\ users'[v] = users[v]
      BY <2>2 DEF Writes
    <3>2. v \in DOMAIN subs /\ subs[v].enabled
      BY <1>1, <3>1 DEF OffIsShownOff, ShownOn
    <3> QED BY <2>2, <3>2 DEF Writes
  <2> QED BY <2>1, <2>2
<1> QED BY <1>2, <1>5, <1>6, <1>7, <1>8 DEF Tables, Served

(* A user goes, with all that belongs to it.                                 *)
LEMMA RemoveKeeps ==
  ASSUME IInv, NEW u, Remove(u)
  PROVE  Tables' /\ Served' /\ SameEnds({})
<1>1. Tables /\ LinkMatches /\ OffIsShownOff
  BY Pieces
<1>2. /\ DOMAIN users' = DOMAIN users \ {u} /\ DOMAIN links' = DOMAIN links \ {u}
      /\ DOMAIN subs' = DOMAIN subs \ {u}
      /\ \A v \in DOMAIN users : v # u => users'[v] = users[v]
      /\ \A v \in DOMAIN links : v # u => links'[v] = links[v]
      /\ \A v \in DOMAIN subs : v # u => subs'[v] = subs[v]
  BY DEF Remove, Drop
<1>3. /\ users' \in [DOMAIN users \ {u} -> Account] /\ links' \in [DOMAIN links \ {u} -> SUBSET Link]
      /\ subs' \in [DOMAIN subs \ {u} -> Subscription]
  BY <1>1, DropType DEF Tables, Remove
<1>4. Tables'
  BY <1>1, <1>2, <1>3 DEF Tables
<1>5. LinkMatches'
  BY <1>1, <1>2 DEF LinkMatches, Tables
<1>6. OffIsShownOff'
  BY <1>1, <1>2 DEF OffIsShownOff, ShownOn
<1>7. SameEnds({})
  BY <1>2 DEF SameEnds
<1> QED BY <1>4, <1>5, <1>6, <1>7 DEF Served

(* The subscription of one user is rewritten, and with it at most the flag.  *)
LEMMA FlagKeeps ==
  ASSUME IInv, NEW u \in DOMAIN users, NEW flag \in BOOLEAN, NEW c \in Credential, NEW row \in Subscription,
         c = users[u].credential \/ c \in OwnerCredential,
         users' = [users EXCEPT ![u] = [@ EXCEPT !.subscribed = flag, !.credential = c]],
         links' = links,
         subs' = subs \/ (u \in DOMAIN subs /\ subs' = [subs EXCEPT ![u] = row]),
         flag => u \in DOMAIN subs /\ subs'[u].enabled
  PROVE  Tables' /\ Served' /\ SameEnds({})
<1>1. Tables /\ LinkMatches /\ OffIsShownOff /\ u \in User /\ users[u] \in Account
  BY Pieces
<1> DEFINE new == [users[u] EXCEPT !.subscribed = flag, !.credential = c]
<1>2. new \in Account /\ new.expires = users[u].expires /\ new.credential = c /\ new.subscribed = flag
  BY <1>1 DEF Account
<1>3. PICK l \in Link : /\ links[u] = {l} /\ l.expires = users[u].expires
                        /\ l.credential = users[u].credential \/ users[u].credential \in OwnerCredential
  BY <1>1 DEF LinkMatches
<1>4. /\ DOMAIN users' = DOMAIN users /\ users' = [v \in DOMAIN users' |-> users'[v]]
      /\ users'[u] = new /\ \A v \in DOMAIN users : v # u => users'[v] = users[v]
  BY <1>1 DEF Tables
<1>5. /\ DOMAIN subs' = DOMAIN subs /\ subs' = [v \in DOMAIN subs' |-> subs'[v]]
      /\ u \in DOMAIN subs' => subs'[u] \in Subscription
      /\ \A v \in DOMAIN subs : v # u => subs'[v] = subs[v]
  BY <1>1 DEF Tables
<1> HIDE DEF new
<1>6. Writes(u, new, l)
  BY <1>1, <1>2, <1>3, <1>4, <1>5 DEF Writes, Tables
<1>7. l.credential = new.credential \/ new.credential \in OwnerCredential
  BY <1>2, <1>3
<1>8. Tables' /\ Served'
  BY <1>1, <1>2, <1>3, <1>6, <1>7, WritesKeeps
<1>9. SameEnds({})
  BY <1>2, <1>4 DEF SameEnds
<1> QED BY <1>8, <1>9

-----------------------------------------------------------------------------
(* The commits of the edits *)

LEMMA CommitFacts ==
  ASSUME IInv, NEW r, NEW kinds, Commits(r, kinds)
  PROVE  /\ r \in DOMAIN tx /\ tx[r].kind \in kinds /\ ~tx[r].fresh /\ End(r)
         /\ now' = now /\ panel' = panel
         /\ tx[r].user \in User /\ tx[r].expires \in Expiry /\ tx[r].capable \in BOOLEAN
         /\ tx[r].kind \in Edit => HasTenant(r)
         /\ HasTenant(r) /\ tx[r].user \in DOMAIN users => Knows(tx[r], users[tx[r].user].expires, now)
BY Pieces, RequestType DEF Commits, Around, HasTenant, Orderly, UpToDate

(* The one link of a user.                                                   *)
LEMMA TheLink ==
  ASSUME IInv, NEW u \in DOMAIN users
  PROVE  \E l \in Link :
           /\ links[u] = {l} /\ l.expires = users[u].expires
           /\ l.credential = users[u].credential \/ users[u].credential \in OwnerCredential
BY Pieces DEF LinkMatches

\* The links of a user with another expiration.
Renewed(u, e) == {[l EXCEPT !.expires = e] : l \in links[u]}

LEMMA RenewedLink ==
  ASSUME NEW u, NEW e, NEW l, links[u] = {l}
  PROVE  Renewed(u, e) = {[l EXCEPT !.expires = e]}
BY DEF Renewed

(* An expiration is written to the user and its link.                        *)
LEMMA ExpireWrites ==
  ASSUME IInv, NEW u \in DOMAIN users, NEW e \in Expiry, NEW row \in Account,
         row.expires = e, row.credential = users[u].credential,
         DOMAIN users' = DOMAIN users, users' = [v \in DOMAIN users' |-> users'[v]],
         users'[u] = row, \A v \in DOMAIN users : v # u => users'[v] = users[v],
         links' = [links EXCEPT ![u] = Renewed(u, e)],
         DOMAIN subs \subseteq DOMAIN subs', DOMAIN subs' \subseteq DOMAIN subs \cup {u},
         subs' = [v \in DOMAIN subs' |-> subs'[v]],
         \A v \in DOMAIN subs : v # u => subs'[v] = subs[v],
         u \in DOMAIN subs' => subs'[u] \in Subscription,
         row.subscribed => u \in DOMAIN subs' /\ subs'[u].enabled
  PROVE  Tables' /\ Served'
<1>1. Tables /\ u \in User /\ users[u] \in Account
  BY Pieces
<1>2. PICK l \in Link : /\ links[u] = {l}
                        /\ l.credential = users[u].credential \/ users[u].credential \in OwnerCredential
  BY TheLink
<1> DEFINE link == [l EXCEPT !.expires = e]
<1>3. Renewed(u, e) = {link}
  BY <1>2, RenewedLink
<1>4. link \in Link /\ link.expires = e /\ link.credential = l.credential
  BY <1>2 DEF Link
<1> HIDE DEF link
<1>5. links' = [links EXCEPT ![u] = {link}]
  BY <1>3
<1>6. /\ DOMAIN links' = DOMAIN links /\ links' = [v \in DOMAIN links' |-> links'[v]]
      /\ links'[u] = {link} /\ \A v \in DOMAIN links : v # u => links'[v] = links[v]
  BY <1>1, <1>5 DEF Tables
<1>7. DOMAIN users' = DOMAIN users \cup {u} /\ DOMAIN links' = DOMAIN links \cup {u}
  <2>1. \A D : u \in D => D = D \cup {u}
    OBVIOUS
  <2>2. u \in DOMAIN users /\ u \in DOMAIN links
    BY <1>1 DEF Tables
  <2> QED BY <1>6, <2>1, <2>2
<1>8. Writes(u, row, link)
  BY <1>6, <1>7 DEF Writes
<1>9. link.expires = row.expires
  BY <1>4
<1>10. link.credential = row.credential \/ row.credential \in OwnerCredential
  BY <1>2, <1>4
<1> QED BY <1>1, <1>4, <1>8, <1>9, <1>10, WritesKeeps

LEMMA PatchKeeps ==
  ASSUME IInv, NEW r, PatchUser(r) \/ Extend(r)
  PROVE  Tables' /\ Served' /\ DOMAIN users' = DOMAIN users
<1> DEFINE u == tx[r].user  e == tx[r].expires  row == [users[u] EXCEPT !.expires = e]
<1>1. u \in DOMAIN users /\ u \in User /\ e \in Expiry /\ Expire(u, e)
  BY CommitFacts DEF PatchUser, Extend
<1>2. Tables /\ users[u] \in Account /\ OffIsShownOff
  BY <1>1, Pieces
<1>3. subs' = subs \/ (u \in DOMAIN subs /\ subs' = [subs EXCEPT ![u].expires = e])
  BY DEF PatchUser, Extend
<1>4. /\ row \in Account /\ row.expires = e /\ row.credential = users[u].credential
      /\ row.subscribed = users[u].subscribed
  BY <1>1, <1>2 DEF Account
<1>5. row.subscribed => u \in DOMAIN subs /\ subs[u].enabled
  BY <1>1, <1>2, <1>4 DEF OffIsShownOff, ShownOn
<1>6. /\ DOMAIN users' = DOMAIN users /\ users' = [v \in DOMAIN users' |-> users'[v]]
      /\ users'[u] = row
      /\ \A v \in DOMAIN users : v # u => users'[v] = users[v]
  BY <1>1, <1>2 DEF Expire, Tables
<1>7. links' = [links EXCEPT ![u] = Renewed(u, e)]
  BY <1>1, <1>2 DEF Expire, Renewed, Tables
<1>8. /\ DOMAIN subs' = DOMAIN subs /\ subs' = [v \in DOMAIN subs' |-> subs'[v]]
      /\ \A v \in DOMAIN subs : v # u => subs'[v] = subs[v]
      /\ u \in DOMAIN subs => subs'[u] \in Subscription /\ subs'[u].enabled = subs[u].enabled
  BY <1>1, <1>2, <1>3 DEF Tables, Subscription
<1> HIDE DEF u, e, row
<1>9. /\ DOMAIN subs \subseteq DOMAIN subs' /\ DOMAIN subs' \subseteq DOMAIN subs \cup {u}
      /\ u \in DOMAIN subs' => subs'[u] \in Subscription
      /\ row.subscribed => u \in DOMAIN subs' /\ subs'[u].enabled
  BY <1>5, <1>8
<1> QED BY <1>1, <1>4, <1>6, <1>7, <1>8, <1>9, ExpireWrites

LEMMA PatchSubscriptionKeeps ==
  ASSUME IInv, NEW r, PatchSubscription(r)
  PROVE  Tables' /\ Served' /\ DOMAIN users' = DOMAIN users
<1> DEFINE u == tx[r].user  e == tx[r].expires  on == (tx[r].kind = "patchOn")
           row == [users[u] EXCEPT !.expires = e, !.subscribed = on]
<1>1. u \in DOMAIN users /\ u \in User /\ e \in Expiry /\ on \in BOOLEAN
  BY CommitFacts DEF PatchSubscription
<1>2. Tables /\ users[u] \in Account
  BY <1>1, Pieces
<1>3. /\ users' = [users EXCEPT ![u].expires = e, ![u].subscribed = on]
      /\ links' = [links EXCEPT ![u] = {[l EXCEPT !.expires = e] : l \in @}]
      /\ subs' = IF on \/ u \in DOMAIN subs THEN Put(subs, u, [enabled |-> on, expires |-> e]) ELSE subs
  BY DEF PatchSubscription
<1>4. row \in Account /\ row.expires = e /\ row.credential = users[u].credential /\ row.subscribed = on
  BY <1>1, <1>2 DEF Account
<1>5. /\ DOMAIN users' = DOMAIN users /\ users' = [v \in DOMAIN users' |-> users'[v]]
      /\ users'[u] = row
      /\ \A v \in DOMAIN users : v # u => users'[v] = users[v]
  BY <1>1, <1>2, <1>3 DEF Tables
<1>6. links' = [links EXCEPT ![u] = Renewed(u, e)]
  BY <1>1, <1>2, <1>3 DEF Renewed, Tables
<1>7. [enabled |-> on, expires |-> e] \in Subscription
  BY <1>1 DEF Subscription
<1>8. /\ DOMAIN subs \subseteq DOMAIN subs' /\ DOMAIN subs' \subseteq DOMAIN subs \cup {u}
      /\ subs' = [v \in DOMAIN subs' |-> subs'[v]]
      /\ \A v \in DOMAIN subs : v # u => subs'[v] = subs[v]
      /\ u \in DOMAIN subs' => subs'[u] \in Subscription
      /\ on => u \in DOMAIN subs' /\ subs'[u].enabled
  <2>1. CASE on \/ u \in DOMAIN subs
    <3>1. subs' = Put(subs, u, [enabled |-> on, expires |-> e])
      BY <1>3, <2>1
    <3> HIDE DEF u, e, on
    <3> QED BY <1>7, <3>1 DEF Put
  <2>2. CASE ~(on \/ u \in DOMAIN subs)
    <3>1. subs' = subs
      BY <1>3, <2>2
    <3> HIDE DEF u, e, on
    <3> QED BY <1>2, <2>2, <3>1 DEF Tables
  <2> QED BY <2>1, <2>2
<1> HIDE DEF u, e, on, row
<1>9. row.subscribed => u \in DOMAIN subs' /\ subs'[u].enabled
  BY <1>4, <1>8
<1> QED BY <1>1, <1>4, <1>5, <1>6, <1>8, <1>9, ExpireWrites

LEMMA RotateCredentialKeeps ==
  ASSUME IInv, NEW r, RotateCredential(r)
  PROVE  Tables' /\ Served' /\ DOMAIN users' = DOMAIN users
<1> DEFINE u == tx[r].user  e == tx[r].expires
<1>1. u \in DOMAIN users /\ u \in User /\ e \in Expiry /\ e = users[u].expires /\ subs' = subs
  BY CommitFacts DEF RotateCredential, Knows, Edit
<1>2. PICK c \in PortalCredential :
        /\ users' = [users EXCEPT ![u].credential = c]
        /\ links' = Put(links, u, {[credential |-> c, expires |-> e]})
  BY DEF RotateCredential, ReplaceConfig
<1>3. Tables /\ users[u] \in Account /\ OffIsShownOff
  BY <1>1, Pieces
<1> DEFINE row == [users[u] EXCEPT !.credential = c]
           link == [credential |-> c, expires |-> e]
<1>4. row \in Account /\ row.expires = e /\ row.credential = c /\ row.subscribed = users[u].subscribed
  BY <1>1, <1>3 DEF Account, Credential
<1>5. link \in Link /\ link.expires = e /\ link.credential = c
  BY <1>1 DEF Link, Credential
<1>6. /\ DOMAIN users' = DOMAIN users /\ users' = [v \in DOMAIN users' |-> users'[v]]
      /\ users'[u] = row /\ \A v \in DOMAIN users : v # u => users'[v] = users[v]
  BY <1>1, <1>2, <1>3 DEF Tables
<1>7. links' = Put(links, u, {link})
  BY <1>2
<1>8. row.subscribed => u \in DOMAIN subs /\ subs[u].enabled
  BY <1>1, <1>3, <1>4 DEF OffIsShownOff, ShownOn
<1> HIDE DEF u, e, row, link
<1>9. Writes(u, row, link)
  BY <1>1, <1>3, <1>6, <1>7, <1>8 DEF Writes, Put, Tables
<1> QED BY <1>1, <1>4, <1>5, <1>6, <1>9, WritesKeeps

LEMMA CreateKeeps ==
  ASSUME IInv, NEW r, CreateUser(r)
  PROVE  Tables' /\ Served' /\ DOMAIN users' = DOMAIN users \cup {tx[r].user}
<1> DEFINE u == tx[r].user  e == tx[r].expires
<1>1. /\ r \in DOMAIN tx /\ tx[r].kind = "create" /\ u \in User /\ e \in Expiry
      /\ tx[r].capable \in BOOLEAN
  BY CommitFacts DEF CreateUser
<1>2. PICK c \in PortalCredential, on \in {FALSE, tx[r].capable} :
        /\ users' = Put(users, u, [subscribed |-> on, expires |-> e, credential |-> c])
        /\ links' = Put(links, u, {[credential |-> c, expires |-> e]})
        /\ subs' = IF on THEN Put(subs, u, [enabled |-> TRUE, expires |-> e]) ELSE subs
  BY DEF CreateUser, ReplaceConfig
<1>3. Tables /\ u \notin DOMAIN users
  BY <1>1, Pieces DEF Orderly, NewIds
<1> DEFINE row == [subscribed |-> on, expires |-> e, credential |-> c]
           link == [credential |-> c, expires |-> e]
           sub == [enabled |-> TRUE, expires |-> e]
<1>4. on \in BOOLEAN
  BY <1>1
<1>5. row \in Account /\ row.expires = e /\ row.credential = c /\ row.subscribed = on
  BY <1>1, <1>4 DEF Account, Credential
<1>6. link \in Link /\ link.expires = e /\ link.credential = c
  BY <1>1 DEF Link, Credential
<1>7. sub \in Subscription /\ sub.enabled
  BY <1>1 DEF Subscription
<1>8. users' = Put(users, u, row) /\ links' = Put(links, u, {link})
  BY <1>2
<1>9. subs' = IF on THEN Put(subs, u, sub) ELSE subs
  BY <1>2
<1> HIDE DEF u, e, row, link, sub
<1>10. /\ DOMAIN users' = DOMAIN users \cup {u} /\ users' = [v \in DOMAIN users' |-> users'[v]]
       /\ users'[u] = row /\ \A v \in DOMAIN users : v # u => users'[v] = users[v]
       /\ DOMAIN links' = DOMAIN links \cup {u} /\ links' = [v \in DOMAIN links' |-> links'[v]]
       /\ links'[u] = {link} /\ \A v \in DOMAIN links : v # u => links'[v] = links[v]
  BY <1>8 DEF Put
<1>11. /\ DOMAIN subs \subseteq DOMAIN subs' /\ DOMAIN subs' \subseteq DOMAIN subs \cup {u}
       /\ subs' = [v \in DOMAIN subs' |-> subs'[v]]
       /\ u \in DOMAIN subs' => subs'[u] \in Subscription
       /\ on => u \in DOMAIN subs' /\ subs'[u].enabled
       /\ \A v \in DOMAIN subs : v # u => subs'[v] = subs[v]
  <2>1. CASE on
    BY <1>7, <1>9, <2>1 DEF Put
  <2>2. CASE ~on
    <3>1. subs' = subs /\ u \notin DOMAIN subs
      BY <1>3, <1>9, <2>2 DEF Tables
    <3> QED BY <1>3, <2>2, <3>1 DEF Tables
  <2> QED BY <2>1, <2>2
<1>12. Writes(u, row, link)
  BY <1>5, <1>10, <1>11 DEF Writes
<1>13. Tables' /\ Served'
  BY <1>1, <1>5, <1>6, <1>12, WritesKeeps
<1> QED BY <1>10, <1>13 DEF u

(* A commit of an edit: the tables are served, and the edit was the only one. *)
LEMMA EditsKeep ==
  ASSUME IInv, NEW r,
         \/ CreateUser(r) \/ PatchUser(r) \/ PatchSubscription(r) \/ Extend(r) \/ RotateCredential(r)
         \/ DeleteUser(r) \/ DeleteExpired(r)
  PROVE  Tables' /\ Served' /\ UNCHANGED Around /\ Requests' /\ Orderly'
<1>1. /\ r \in DOMAIN tx /\ tx[r].kind \in Edit /\ End(r) /\ HasTenant(r)
      /\ now' = now /\ panel' = panel /\ tx[r].user \in User
  <2>1. \E kinds \in SUBSET Edit : Commits(r, kinds)
    BY DEF CreateUser, PatchUser, PatchSubscription, Extend, RotateCredential, DeleteUser, DeleteExpired, Edit
  <2>2. PICK kinds \in SUBSET Edit : Commits(r, kinds)
    BY <2>1
  <2>3. tx[r].kind \in Edit
    BY <2>2, CommitFacts
  <2> QED BY <2>2, <2>3, CommitFacts
<1>2. Tables' /\ Served' /\ DOMAIN users' \subseteq DOMAIN users \cup {tx[r].user}
  <2>1. CASE DeleteUser(r) \/ DeleteExpired(r)
    <3>1. Remove(tx[r].user)
      BY <2>1 DEF DeleteUser, DeleteExpired
    <3>2. Tables' /\ Served' /\ SameEnds({})
      BY <3>1, RemoveKeeps
    <3> QED BY <3>2 DEF SameEnds
  <2>2. CASE CreateUser(r)
    BY <2>2, CreateKeeps
  <2>3. CASE PatchUser(r) \/ Extend(r)
    BY <2>3, PatchKeeps
  <2>4. CASE PatchSubscription(r)
    BY <2>4, PatchSubscriptionKeeps
  <2>5. CASE RotateCredential(r)
    BY <2>5, RotateCredentialKeeps
  <2> QED BY <2>1, <2>2, <2>3, <2>4, <2>5
<1>3. Requests' /\ Orderly'
  BY <1>1, <1>2, EndKeeps, Pieces
<1> QED BY <1>1, <1>2, <1>3 DEF Around

-----------------------------------------------------------------------------
(* The switches, and what happens outside the portal *)

LEMMA SwitchesKeep ==
  ASSUME IInv, NEW r, SetSubscriptionEnabled(r) \/ RotateSubscription(r)
  PROVE  Tables' /\ Served' /\ UNCHANGED Around /\ Requests' /\ Orderly'
<1> DEFINE u == tx[r].user
           on == IF SetSubscriptionEnabled(r) THEN tx[r].kind = "subscribe" ELSE users[u].subscribed
           row == [subs[u] EXCEPT !.enabled = IF SetSubscriptionEnabled(r) THEN on ELSE TRUE]
           c == users[u].credential
<1>1. /\ r \in DOMAIN tx /\ End(r) /\ now' = now /\ panel' = panel
  BY CommitFacts DEF SetSubscriptionEnabled, RotateSubscription
<1>2. u \in DOMAIN subs
  BY DEF SetSubscriptionEnabled, RotateSubscription
<1>3. Tables /\ u \in DOMAIN users /\ users[u] \in Account /\ subs[u] \in Subscription
  BY <1>2, Pieces DEF Tables
<1>4. on \in BOOLEAN /\ c \in Credential
  BY <1>3 DEF Account
<1>5. row \in Subscription /\ (on => row.enabled)
  BY <1>3, <1>4 DEF Subscription
<1>6. users' = [users EXCEPT ![u] = [@ EXCEPT !.subscribed = on, !.credential = c]]
  <2>1. CASE SetSubscriptionEnabled(r)
    <3>1. users' = [users EXCEPT ![u].subscribed = on]
      BY <2>1 DEF SetSubscriptionEnabled
    <3> HIDE DEF on, u
    <3> QED BY <1>3, <3>1 DEF Tables, Account
  <2>2. CASE ~SetSubscriptionEnabled(r)
    <3>1. users' = users /\ on = users[u].subscribed
      BY <2>2 DEF RotateSubscription
    <3> HIDE DEF on, u
    <3> QED BY <1>3, <3>1 DEF Tables, Account
  <2> QED BY <2>1, <2>2
<1>7. subs' = [subs EXCEPT ![u] = row] /\ links' = links
  BY DEF SetSubscriptionEnabled, RotateSubscription
<1>8. on => subs'[u].enabled
  <2> HIDE DEF on, row, u
  <2> QED BY <1>2, <1>3, <1>5, <1>7 DEF Tables
<1> HIDE DEF u, on, row, c
<1>9. Tables' /\ Served' /\ SameEnds({})
  <2>1. c = users[u].credential
    BY DEF c
  <2> QED BY <1>2, <1>3, <1>4, <1>5, <1>6, <1>7, <1>8, <2>1, FlagKeeps
<1>10. DOMAIN users' \subseteq DOMAIN users \cup {tx[r].user}
  BY <1>9 DEF SameEnds
<1>11. Requests' /\ Orderly'
  BY <1>1, <1>9, <1>10, EndKeeps, Pieces
<1> QED BY <1>1, <1>9, <1>11 DEF Around

(* The owner deletes a client.                                               *)
LEMMA DeleteClientKeeps ==
  ASSUME IInv, NEW r, DeleteClient(r)
  PROVE  Tables' /\ Served' /\ UNCHANGED Around /\ Requests' /\ Orderly'
<1>1. r \in DOMAIN tx /\ End(r) /\ now' = now /\ panel' = panel /\ Remove(tx[r].user)
  BY CommitFacts DEF DeleteClient
<1>2. Tables' /\ Served' /\ SameEnds({})
  BY <1>1, RemoveKeeps
<1>3. DOMAIN users' \subseteq DOMAIN users \cup {tx[r].user}
  BY <1>2 DEF SameEnds
<1>4. Requests' /\ Orderly'
  BY <1>1, <1>2, <1>3, EndKeeps, Pieces
<1> QED BY <1>1, <1>2, <1>4 DEF Around

LEMMA StillServed ==
  ASSUME IInv, UNCHANGED Data
  PROVE  Tables' /\ Served' /\ SameEnds({})
<1>1. Tables' /\ SameEnds({})
  BY Pieces DEF Data, Tables, SameEnds
<1>2. Served'
  BY Pieces DEF Data, Served, LinkMatches, OffIsShownOff, ShownOn
<1> QED BY <1>1, <1>2

LEMMA OutsideKeepsAll ==
  ASSUME IInv, Outside
  PROVE  /\ Tables' /\ Served' /\ now' \in 0..MaxTime /\ panel' \in Panel
         /\ Requests' /\ Orderly'
<1>1. /\ now \in 0..MaxTime /\ now \in Nat /\ panel \in Panel
      /\ \A u \in DOMAIN users : u \in User /\ users[u] \in Account /\ users[u].expires \in Expiry
  BY Pieces
<1>2. /\ Tables' /\ Served' /\ SameEnds({})
      /\ now' \in 0..MaxTime /\ now' >= now /\ panel' \in Panel /\ UNCHANGED tx
  <2>1. CASE UpdateMaster
    <3>1. UNCHANGED Data /\ now' = now /\ panel' \in Panel /\ tx' = tx
      BY <2>1 DEF UpdateMaster, Data
    <3> QED BY <1>1, <3>1, StillServed
  <2>2. CASE Tick
    <3>1. UNCHANGED Data /\ now < MaxTime /\ now' = now + 1 /\ panel' = panel /\ tx' = tx
      BY <2>2 DEF Tick, Data
    <3>2. now' \in 0..MaxTime /\ now' >= now
      BY <1>1, <3>1, SubscriptionAssumption
    <3> QED BY <1>1, <3>1, <3>2, StillServed
  <2>3. ASSUME NEW u \in User, RotateClient(u)
        PROVE  /\ Tables' /\ Served' /\ SameEnds({}) /\ now' = now /\ panel' = panel /\ tx' = tx
    <3>1. PICK c \in OwnerCredential : users' = [users EXCEPT ![u].credential = c]
      BY <2>3 DEF RotateClient
    <3>2. /\ u \in DOMAIN users /\ links' = links /\ subs' = subs
          /\ now' = now /\ panel' = panel /\ tx' = tx
      BY <2>3 DEF RotateClient, Around
    <3> DEFINE flag == users[u].subscribed
    <3>3. Tables /\ users[u] \in Account /\ OffIsShownOff
      BY <3>2, Pieces
    <3>4. flag \in BOOLEAN /\ c \in Credential /\ (flag => u \in DOMAIN subs /\ subs'[u].enabled)
      BY <3>2, <3>3 DEF Account, Credential, OffIsShownOff, ShownOn
    <3>5. users' = [users EXCEPT ![u] = [@ EXCEPT !.subscribed = flag, !.credential = c]]
      BY <3>1, <3>2, <3>3 DEF Tables, Account
    <3> HIDE DEF flag
    <3>6. ASSUME NEW row \in Subscription
          PROVE  Tables' /\ Served' /\ SameEnds({})
      BY <3>2, <3>4, <3>5, FlagKeeps
    <3>7. [enabled |-> TRUE, expires |-> None] \in Subscription
      BY DEF Subscription, Expiry
    <3> QED BY <3>2, <3>6, <3>7
  <2>4. ASSUME NEW u \in User, DeleteInbound(u)
        PROVE  /\ Tables' /\ Served' /\ SameEnds({}) /\ now' = now /\ panel' = panel /\ tx' = tx
    BY <2>4, RemoveKeeps DEF DeleteInbound, Around
  <2>5. now' = now => now' \in 0..MaxTime /\ now' >= now
    BY <1>1
  <2> QED BY <1>1, <2>1, <2>2, <2>3, <2>4, <2>5 DEF Outside
<1>3. now' \in Nat
  BY <1>2, SubscriptionAssumption
<1>4. Requests' /\ Orderly'
  BY <1>1, <1>2, <1>3, OutsideKeeps, Pieces
<1> QED BY <1>2, <1>4

-----------------------------------------------------------------------------
(* Every step *)

LEMMA InitKeeps == Init => IInv
<1> SUFFICES ASSUME Init PROVE IInv
  OBVIOUS
<1>1. DOMAIN users = {} /\ DOMAIN links = {} /\ DOMAIN subs = {} /\ DOMAIN tx = {}
  BY DEF Init
<1>2. now \in 0..MaxTime /\ panel \in Panel
  BY SubscriptionAssumption DEF Init
<1>3. Tables /\ Requests
  BY <1>1 DEF Init, Tables, Requests
<1>4. Orderly
  BY <1>1 DEF Orderly, LocksInOrder, NewIds, OneEdit, UpToDate
<1>5. Served
  BY <1>1 DEF Served, LinkMatches, OffIsShownOff
<1> QED BY <1>2, <1>3, <1>4, <1>5, TypeParts DEF IInv

LEMMA TypePartsNext ==
  ASSUME now' \in 0..MaxTime, panel' \in Panel, Tables', Requests', Orderly', Served'
  PROVE  IInv'
BY DEF IInv, TypeOK, Tables, Requests

LEMMA StepKeeps == IInv /\ [Next]_vars => IInv'
<1> SUFFICES ASSUME IInv, [Next]_vars PROVE IInv'
  OBVIOUS
<1>1. now \in 0..MaxTime /\ panel \in Panel
  BY Pieces
<1>2. ASSUME NEW r \in Request,
             \/ Arrive(r) \/ Acquire(r) \/ ReadTarget(r) \/ Lookup(r) \/ LookupRefused(r)
             \/ Answer(r) \/ TargetGone(r) \/ NoSubscription(r) \/ Fail(r)
      PROVE  IInv'
  <2>1. Still /\ Requests' /\ Orderly'
    BY <1>2, ReadersKeep
  <2>2. UNCHANGED Data /\ now' = now /\ panel' = panel
    BY <2>1 DEF Still, Around
  <2>3. Tables' /\ Served'
    BY <2>2, StillServed
  <2> QED BY <1>1, <2>1, <2>2, <2>3, TypePartsNext
<1>3. ASSUME NEW r \in Request,
             \/ CreateUser(r) \/ PatchUser(r) \/ PatchSubscription(r) \/ Extend(r) \/ RotateCredential(r)
             \/ DeleteUser(r) \/ DeleteExpired(r)
      PROVE  IInv'
  <2>1. Tables' /\ Served' /\ now' = now /\ panel' = panel /\ Requests' /\ Orderly'
    BY <1>3, EditsKeep DEF Around
  <2> QED BY <1>1, <2>1, TypePartsNext
<1>4. ASSUME NEW r \in Request,
             SetSubscriptionEnabled(r) \/ RotateSubscription(r) \/ DeleteClient(r)
      PROVE  IInv'
  <2>1. Tables' /\ Served' /\ now' = now /\ panel' = panel /\ Requests' /\ Orderly'
    BY <1>4, SwitchesKeep, DeleteClientKeeps DEF Around
  <2> QED BY <1>1, <2>1, TypePartsNext
<1>5. CASE Outside
  BY <1>5, OutsideKeepsAll, TypePartsNext
<1>6. CASE UNCHANGED vars
  <2>1. UNCHANGED Data /\ tx' = tx /\ now' = now /\ panel' = panel
    BY <1>6 DEF vars, Data
  <2>2. Tables' /\ Served' /\ SameEnds({})
    BY <2>1, StillServed
  <2>3. now \in Nat /\ now' \in Nat /\ now' >= now
    BY <2>1, Pieces
  <2>4. Requests' /\ Orderly'
    BY <2>1, <2>2, <2>3, OutsideKeeps, Pieces
  <2> QED BY <1>1, <2>1, <2>2, <2>4, TypePartsNext
<1> QED BY <1>2, <1>3, <1>4, <1>5, <1>6 DEF Next, Work

(* Everything above holds always.                                            *)
LEMMA Invariance == Spec => []IInv
BY InitKeeps, StepKeeps, PTL DEF Spec

-----------------------------------------------------------------------------
(* What follows *)

\* The three tables belong to each other whatever requests overlap, fail or
\* wait: a client, a link or a subscription always has its user, and its fields
\* stay within what the repository writes.
THEOREM TypeCorrect == Spec => []TypeOK
<1>1. IInv => TypeOK
  BY DEF IInv
<1> QED BY <1>1, Invariance, PTL

\* replaceConfig, updateUser and the bulk actions leave every user with one link
\* of the current state, for any requests that overlap: each of them writes what
\* it read under the lock of the tenant.
THEOREM LinkAlwaysMatches == Spec => []LinkMatches
<1>1. IInv => LinkMatches
  BY DEF IInv, Served
<1> QED BY <1>1, Invariance, PTL

\* setSubscriptionEnabled and updateUser take the flag of the user and the
\* subscription in one transaction: the flag is never set alone.
THEOREM OffIsAlwaysShownOff == Spec => []OffIsShownOff
<1>1. IInv => OffIsShownOff
  BY DEF IInv, Served
<1> QED BY <1>1, Invariance, PTL

\* The list of the users, the list of the subscriptions, the links and the
\* exports of the portal agree at every moment.
THEOREM PagesAlwaysAgree == Spec => []PagesAgree
<1>1. IInv => PagesAgree
  <2> SUFFICES ASSUME IInv PROVE PagesAgree
    OBVIOUS
  <2>1. Tables /\ LinkMatches /\ OffIsShownOff
    BY Pieces
  <2>2. DOMAIN SubscriptionList \subseteq DOMAIN users
    BY <2>1 DEF SubscriptionList, Tables
  <2> SUFFICES ASSUME NEW u \in DOMAIN users
               PROVE  /\ u \in Export("configs") /\ Cardinality(ConfigUri(u)) = 1
                      /\ \A l \in ConfigUri(u) : Expired(l.expires) <=> UserSummary(u).expired
                      /\ users[u].subscribed =>
                           UserSummary(u).subscriptionAvailable /\ UserSummary(u).subscriptionEnabled
                      /\ panel.capable /\ users[u].subscribed
                           => SubscriptionList[u].enabled /\ u \in Export("subscriptions")
                      /\ Delivered(u) => ~UserSummary(u).expired
    BY <2>2 DEF PagesAgree
  <2>3. PICK l \in Link : links[u] = {l} /\ l.expires = users[u].expires
    BY <2>1 DEF LinkMatches
  <2>4. Cardinality(ConfigUri(u)) = 1
    BY <2>3, FS_Singleton DEF ConfigUri
  <2>5. u \in Export("configs")
    BY <2>3 DEF Export, ConfigUri
  <2>6. /\ UserSummary(u).expired = Expired(users[u].expires)
        /\ UserSummary(u).subscriptionEnabled = ShownOn(u)
        /\ UserSummary(u).subscriptionAvailable = (u \in DOMAIN subs)
    BY DEF UserSummary
  <2>7. \A k \in ConfigUri(u) : Expired(k.expires) <=> UserSummary(u).expired
    BY <2>3, <2>6 DEF ConfigUri
  <2>8. users[u].subscribed => u \in DOMAIN subs /\ subs[u].enabled /\ ShownOn(u)
    BY <2>1 DEF OffIsShownOff, ShownOn
  <2>9. panel.capable /\ users[u].subscribed => SubscriptionList[u].enabled /\ u \in Export("subscriptions")
    BY <2>8 DEF SubscriptionList, Export, UrlGiven, AssertCapability
  <2>10. Delivered(u) => ~UserSummary(u).expired
    BY <2>6 DEF Delivered
  <2> QED BY <2>4, <2>5, <2>6, <2>7, <2>8, <2>9, <2>10
<1> QED BY <1>1, Invariance, PTL

\* bulkUpdateUsers adds the days to the expiration it read; the lock of the
\* tenant keeps that expiration until the commit, so an extension always moves
\* the user to a later one.
THEOREM ExtensionsAlwaysAddUp == Spec => ExtensionsAddUp
<1>1. IInv /\ [Next]_vars =>
        [\A r \in Request : Extend(r) /\ users[tx[r].user].expires # None
           => users'[tx[r].user].expires > users[tx[r].user].expires]_vars
  <2> SUFFICES ASSUME IInv, NEW r \in Request, Extend(r), users[tx[r].user].expires # None
               PROVE  users'[tx[r].user].expires > users[tx[r].user].expires
    OBVIOUS
  <2> DEFINE u == tx[r].user  e == tx[r].expires
  <2>1. u \in DOMAIN users /\ Commits(r, {"extend"}) /\ users' = [users EXCEPT ![u].expires = e]
    BY DEF Extend, Expire
  <2>2. HasTenant(r) /\ tx[r].kind = "extend" /\ Knows(tx[r], users[u].expires, now)
    BY <2>1, CommitFacts DEF Edit
  <2>3. e > users[u].expires
    BY <2>2 DEF Knows
  <2>4. users[u] \in Account
    BY <2>1, Pieces
  <2>5. users'[u].expires = e
    BY <2>1, <2>4, Pieces DEF Account, Tables
  <2> QED BY <2>3, <2>5
<1> QED BY <1>1, Invariance, PTL DEF Spec, ExtensionsAddUp

\* The bulk deletion of the expired users deletes none that was extended after
\* the deletion was asked for: what it read under the lock is still so.
THEOREM OnlyExpiredAreDeleted == Spec => OnlyExpiredDeleted
<1>1. IInv /\ [Next]_vars =>
        [\A r \in Request :
           DeleteExpired(r) /\ tx[r].user \in DOMAIN users => Expired(users[tx[r].user].expires)]_vars
  <2> SUFFICES ASSUME IInv, NEW r \in Request, DeleteExpired(r), tx[r].user \in DOMAIN users
               PROVE  Expired(users[tx[r].user].expires)
    OBVIOUS
  <2>1. Commits(r, {"deleteExpired"})
    BY DEF DeleteExpired
  <2>2. tx[r].kind = "deleteExpired" /\ Knows(tx[r], users[tx[r].user].expires, now)
    BY <2>1, CommitFacts DEF Edit
  <2> QED BY <2>2 DEF Knows, Expired
<1> QED BY <1>1, Invariance, PTL DEF Spec, OnlyExpiredDeleted

(* Who holds a row has passed the lock before the one it asks for.           *)
LEMMA Holder ==
  ASSUME IInv, NEW q \in DOMAIN tx, NEW row \in tx[q].held
  PROVE  \/ tx[q].kind \in Edit \cup {"deleteClient"} /\ row = "user" /\ Stage(q) = "sub"
         \/ tx[q].kind \in SubscriptionFirst /\ row = "sub" /\ Stage(q) \in {"user", "tenant"}
         \/ tx[q].kind \in SubscriptionFirst /\ row = "user" /\ Stage(q) = "tenant"
<1> DEFINE t == tx[q]
<1>1. InOrder(t) /\ row \in t.held
  BY Pieces DEF Orderly, LocksInOrder
<1>2. ~t.fresh /\ Passed(t) /\ Stage(q) = Head(t.todo)
  BY <1>1 DEF InOrder, Stage
<1> HIDE DEF t
<1>3. Switch \subseteq SubscriptionFirst
  BY DEF SubscriptionFirst
<1>4. \/ t.kind \in Edit \cup {"deleteClient"} /\ row = "user" /\ Stage(q) = "sub"
      \/ t.kind \in SubscriptionFirst /\ row = "sub" /\ Stage(q) \in {"user", "tenant"}
      \/ t.kind \in SubscriptionFirst /\ row = "user" /\ Stage(q) = "tenant"
  BY <1>1, <1>2, <1>3, PlanOf DEF Passed
<1> QED BY <1>4 DEF t

(* What a request that has read asks for is a lock.                          *)
LEMMA StageIsLock ==
  ASSUME IInv, NEW q \in DOMAIN tx, ~tx[q].fresh
  PROVE  Stage(q) # "read"
<1>1. InOrder(tx[q]) /\ Stage(q) = Head(tx[q].todo)
  BY Pieces DEF Orderly, LocksInOrder, Stage
<1>2. tx[q].todo \in {<<"user">>, <<"sub">>, <<"tenant">>, <<"user", "tenant">>, EditPlan, RotatePlan, SwitchPlan}
  BY <1>1, PlanCases DEF InOrder, Passed
<1> QED BY <1>1, <1>2 DEF EditPlan, RotatePlan, SwitchPlan

(* Whom a request waits for: a holder of the row, or the edit that has the   *)
(* tenant.                                                                   *)
LEMMA WaitsFor ==
  ASSUME IInv, NEW r, NEW q, Waits(r, q)
  PROVE  /\ r \in DOMAIN tx /\ q \in DOMAIN tx
         /\ \/ Stage(r) \in tx[q].held
            \/ HasTenant(q) /\ Stage(r) \in {"read", "tenant"}
BY DEF Waits, Holds, HasTenant, At

(* In a circle without edits and deletions nobody has the tenant: who holds  *)
(* the user asks for it in vain.                                             *)
LEMMA NeedsUserFirst ==
  ASSUME IInv, NEW S \in (SUBSET DOMAIN tx) \ {{}}, Stuck(S)
  PROVE  \E r \in S : tx[r].kind \in Edit \cup {"deleteClient"}
<1> SUFFICES ASSUME \A r \in S : tx[r].kind \notin Edit \cup {"deleteClient"} PROVE FALSE
  OBVIOUS
<1>1. ASSUME NEW r \in S
      PROVE  \E q \in S : /\ q \in DOMAIN tx /\ Stage(r) \in tx[q].held
                          /\ \/ Stage(r) = "sub" /\ Stage(q) \in {"user", "tenant"}
                             \/ Stage(r) = "user" /\ Stage(q) = "tenant"
  <2>1. PICK q \in S : Waits(r, q)
    BY DEF Stuck
  <2>2. q \in DOMAIN tx /\ Stage(r) \in tx[q].held
    BY <2>1, WaitsFor DEF HasTenant
  <2> QED BY <2>2, Holder
<1>2. PICK r \in S : TRUE
  OBVIOUS
<1>3. PICK q \in S : Stage(q) \in {"user", "tenant"}
  BY <1>1, <1>2
<1>4. PICK p \in S : Stage(p) = "tenant"
  BY <1>1, <1>3
<1> QED BY <1>1, <1>4

(* In a circle without switches and rotations nobody holds a subscription:   *)
(* who holds a user asks for it in vain.                                     *)
LEMMA NeedsSubscriptionFirst ==
  ASSUME IInv, NEW S \in (SUBSET DOMAIN tx) \ {{}}, Stuck(S)
  PROVE  \E r \in S : tx[r].kind \in SubscriptionFirst
<1> SUFFICES ASSUME \A r \in S : tx[r].kind \notin SubscriptionFirst PROVE FALSE
  OBVIOUS
<1>1. ASSUME NEW r \in S, NEW q \in S, Waits(r, q), Stage(r) \in tx[q].held
      PROVE  Stage(r) = "user" /\ Stage(q) = "sub"
  BY <1>1, WaitsFor, Holder
<1>2. ASSUME NEW r \in S, Stage(r) # "read"
      PROVE  \E q \in S : Stage(r) = "user" /\ Stage(q) = "sub"
  <2>1. PICK q \in S : Waits(r, q)
    BY DEF Stuck
  <2>2. Stage(r) \in tx[q].held
    <3>1. ~At(r, SubscriptionFirst, "tenant") /\ ~At(r, Edit, "read")
      BY <1>2 DEF At
    <3> QED BY <2>1, <3>1 DEF Waits, Holds
  <2> QED BY <1>1, <2>1, <2>2
<1>3. PICK r \in S : TRUE
  OBVIOUS
<1>4. PICK q \in S : Waits(r, q)
  BY <1>3 DEF Stuck
<1>5. Stage(q) # "read"
  <2>1. CASE Stage(r) \in tx[q].held
    BY <1>1, <1>4, <2>1
  <2>2. CASE HasTenant(q)
    BY <2>2, StageIsLock DEF HasTenant
  <2> QED BY <1>4, <2>1, <2>2, WaitsFor
<1>6. PICK p \in S : Stage(p) = "sub"
  BY <1>2, <1>5
<1>7. Stage(p) = "user"
  BY <1>2, <1>6
<1> QED BY <1>6, <1>7

\* Every edit and every deletion of the owner takes the user before its
\* subscription; rotateSubscription and setSubscriptionEnabled take the
\* subscription first and end with a row of audit_logs, which waits for the
\* edit that has the tenant.  For any users and requests, PostgreSQL has a
\* deadlock to break only between one of the first and one of the second.
THEOREM DeadlocksAlwaysMixOrders == Spec => []DeadlocksMixOrders
<1>1. IInv => DeadlocksMixOrders
  BY NeedsUserFirst, NeedsSubscriptionFirst DEF DeadlocksMixOrders
<1> QED BY <1>1, Invariance, PTL
=============================================================================
