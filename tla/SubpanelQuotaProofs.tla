-------------------------- MODULE SubpanelQuotaProofs --------------------------
(***************************************************************************)
(* The quota of a sub-panel holds for any users, limits and requests.      *)
(***************************************************************************)
EXTENDS SubpanelQuota, FiniteSetTheorems, FunctionTheorems, TLAPS

-----------------------------------------------------------------------------
(* The sum of the traffic limits: what one change of a limit, of a row or of *)
(* several does to it.                                                       *)

(* A limit counts as a number of bytes that a column holds. *)
LEMMA NumType == \A limit \in Limit : Num(limit) \in Traffic /\ Num(limit) \in Nat
  BY TrafficAssumption DEF Limit, Traffic, Num

(* Finitely many users hold finitely many bytes. *)
LEMMA BytesFinite ==
  ASSUME NEW limits, IsFiniteSet(DOMAIN limits)
  PROVE  IsFiniteSet(Bytes(limits)) /\ Allocated(limits) \in Nat
<1>1. IsFiniteSet(1..MaxTraffic)
  BY FS_Interval, TrafficAssumption
<1>2. IsFiniteSet((DOMAIN limits) \X (1..MaxTraffic))
  BY <1>1, FS_Product
<1>3. Bytes(limits) \in SUBSET ((DOMAIN limits) \X (1..MaxTraffic))
  BY DEF Bytes
<1>4. IsFiniteSet(Bytes(limits))
  BY <1>2, <1>3, FS_Subset
<1> QED BY <1>4, FS_CardinalityType DEF Allocated

(* Fewer users hold no more. *)
LEMMA AllocatedMonotone ==
  ASSUME NEW few, NEW many, IsFiniteSet(DOMAIN many), DOMAIN few \subseteq DOMAIN many,
         \A u \in DOMAIN few : few[u] = many[u]
  PROVE  Allocated(few) <= Allocated(many)
<1>1. Bytes(few) \in SUBSET Bytes(many)
  BY DEF Bytes
<1>2. IsFiniteSet(Bytes(many))
  BY BytesFinite
<1> QED BY <1>1, <1>2, FS_Subset DEF Allocated

(* The limit of one user is its part of the sum. *)
LEMMA AllocatedSplit ==
  ASSUME NEW limits, IsFiniteSet(DOMAIN limits), NEW u \in DOMAIN limits, limits[u] \in Limit,
         NEW rest, DOMAIN rest = DOMAIN limits \ {u}, \A v \in DOMAIN rest : rest[v] = limits[v]
  PROVE  Allocated(limits) = Allocated(rest) + Num(limits[u])
<1> DEFINE own == {u} \X (1..Num(limits[u]))
<1>1. Num(limits[u]) \in Nat /\ Num(limits[u]) <= MaxTraffic /\ MaxTraffic \in Nat
  BY NumType, TrafficAssumption DEF Traffic
<1>2. IsFiniteSet(own) /\ Cardinality(own) = Num(limits[u])
  <2>1. IsFiniteSet(1..Num(limits[u])) /\ Cardinality(1..Num(limits[u])) = Num(limits[u])
    BY <1>1, FS_Interval
  <2>2. IsFiniteSet({u}) /\ Cardinality({u}) = 1
    BY FS_Singleton
  <2>3. IsFiniteSet(own) /\ Cardinality(own) = 1 * Num(limits[u])
    BY <2>1, <2>2, FS_Product
  <2> QED BY <1>1, <2>3
<1>3. IsFiniteSet(DOMAIN rest)
  BY FS_Subset
<1>4. IsFiniteSet(Bytes(rest)) /\ Cardinality(Bytes(rest)) \in Nat
  BY <1>3, BytesFinite DEF Allocated
<1>5. Bytes(limits) = Bytes(rest) \cup own
  <2>1. ASSUME NEW b \in (DOMAIN limits) \X (1..MaxTraffic)
        PROVE  b \in Bytes(limits) <=> b \in Bytes(rest) \cup own
    <3>1. CASE b[1] = u
      <4>1. b \in own <=> b[2] <= Num(limits[u])
        BY <1>1, <3>1
      <4>2. b \notin Bytes(rest)
        BY <3>1 DEF Bytes
      <4> QED BY <3>1, <4>1, <4>2 DEF Bytes
    <3>2. CASE b[1] # u
      BY <3>2 DEF Bytes
    <3> QED BY <3>1, <3>2
  <2>2. own \subseteq (DOMAIN limits) \X (1..MaxTraffic)
    BY <1>1
  <2>3. Bytes(limits) \subseteq (DOMAIN limits) \X (1..MaxTraffic)
        /\ Bytes(rest) \subseteq (DOMAIN limits) \X (1..MaxTraffic)
    BY DEF Bytes
  <2> QED BY <2>1, <2>2, <2>3
<1>6. Bytes(rest) \cap own = {}
  BY DEF Bytes
<1>7. Cardinality(Bytes(limits)) = Cardinality(Bytes(rest)) + Cardinality(own) - Cardinality({})
  BY <1>2, <1>4, <1>5, <1>6, FS_Union
<1> QED BY <1>1, <1>2, <1>4, <1>7, FS_EmptySet DEF Allocated

(* Changing, or giving, the limit of one user changes the sum by as much. *)
LEMMA AllocatedSet ==
  ASSUME NEW limits, IsFiniteSet(DOMAIN limits), NEW u \in DOMAIN limits,
         NEW limit \in Limit, limits[u] \in Limit,
         NEW changed, DOMAIN changed = DOMAIN limits, changed[u] = limit,
         \A v \in DOMAIN limits : v # u => changed[v] = limits[v]
  PROVE  Allocated(changed) = Allocated(limits) - Num(limits[u]) + Num(limit)
<1> DEFINE rest == [v \in DOMAIN limits \ {u} |-> limits[v]]
<1>1. DOMAIN rest = DOMAIN limits \ {u} /\ \A v \in DOMAIN rest : rest[v] = limits[v] /\ rest[v] = changed[v]
  OBVIOUS
<1>2. IsFiniteSet(DOMAIN rest)
  BY FS_Subset
<1> HIDE DEF rest
<1>3. Allocated(limits) = Allocated(rest) + Num(limits[u])
  BY <1>1, AllocatedSplit
<1>4. Allocated(changed) = Allocated(rest) + Num(limit)
  BY <1>1, AllocatedSplit
<1>5. Allocated(rest) \in Nat
  BY <1>2, BytesFinite
<1> QED BY <1>3, <1>4, <1>5, NumType

(* A new user adds its limit. *)
LEMMA AllocatedAdd ==
  ASSUME NEW limits, IsFiniteSet(DOMAIN limits), NEW u, u \notin DOMAIN limits, NEW limit \in Limit,
         NEW more, DOMAIN more = DOMAIN limits \cup {u}, more[u] = limit,
         \A v \in DOMAIN limits : more[v] = limits[v]
  PROVE  Allocated(more) = Allocated(limits) + Num(limit)
<1>1. IsFiniteSet(DOMAIN more)
  BY FS_AddElement
<1>2. DOMAIN limits = DOMAIN more \ {u}
  OBVIOUS
<1> QED BY <1>1, <1>2, AllocatedSplit

(* Raising the limits of some users by as much adds it once for each. *)
LEMMA AllocatedRaise ==
  ASSUME NEW limits, IsFiniteSet(DOMAIN limits), \A u \in DOMAIN limits : limits[u] \in Limit,
         NEW who \in SUBSET DOMAIN limits, NEW bytes \in Nat,
         NEW raised, DOMAIN raised = DOMAIN limits,
         \A u \in DOMAIN limits :
           raised[u] = IF u \in who THEN Num(limits[u]) + bytes ELSE limits[u]
  PROVE  Allocated(raised) <= Allocated(limits) + Cardinality(who) * bytes
<1> DEFINE extra == Bytes(raised) \ Bytes(limits)
           room == who \X (1..bytes)
           place == [b \in extra |-> <<b[1], b[2] - Num(limits[b[1]])>>]
<1>1. \A u \in DOMAIN limits : Num(limits[u]) \in Nat
  BY NumType
<1>2. \A u \in who : Num(raised[u]) = Num(limits[u]) + bytes
  BY <1>1, TrafficAssumption DEF Num
<1>3. \A b \in extra : b[1] \in who /\ b[2] \in Nat /\ Num(limits[b[1]]) < b[2]
                        /\ b[2] <= Num(limits[b[1]]) + bytes /\ b = <<b[1], b[2]>>
  <2>1. ASSUME NEW b \in extra
        PROVE  b[1] \in DOMAIN limits /\ b[2] \in 1..MaxTraffic /\ b = <<b[1], b[2]>>
               /\ b[2] <= Num(raised[b[1]]) /\ ~(b[2] <= Num(limits[b[1]]))
    BY DEF Bytes
  <2>2. ASSUME NEW b \in extra PROVE b[1] \in who
    BY <2>1
  <2> QED BY <1>1, <1>2, <2>1, <2>2, TrafficAssumption
<1>4. place \in Injection(extra, room)
  <2>1. place \in [extra -> room]
    <3>1. ASSUME NEW b \in extra PROVE <<b[1], b[2] - Num(limits[b[1]])>> \in room
      <4>1. b[1] \in who /\ b[1] \in DOMAIN limits
        BY <1>3
      <4>2. b[2] - Num(limits[b[1]]) \in 1..bytes
        BY <1>1, <1>3, <4>1
      <4> QED BY <4>1, <4>2
    <3> QED BY <3>1
  <2>2. ASSUME NEW a \in extra, NEW b \in extra, place[a] = place[b] PROVE a = b
    <3>1. a[1] = b[1] /\ a[2] - Num(limits[a[1]]) = b[2] - Num(limits[b[1]])
      BY <2>2
    <3>2. a[2] = b[2]
      BY <1>1, <1>3, <3>1
    <3> QED BY <1>3, <3>1, <3>2
  <2> QED BY <2>1, <2>2, Fun_IsInj
<1>5. IsFiniteSet(who) /\ Cardinality(who) \in Nat
  BY FS_Subset, FS_CardinalityType
<1>6. IsFiniteSet(room) /\ Cardinality(room) = Cardinality(who) * bytes
  <2>1. IsFiniteSet(1..bytes) /\ Cardinality(1..bytes) = bytes
    BY FS_Interval
  <2> QED BY <1>5, <2>1, FS_Product
<1> HIDE DEF room, place, extra
<1>7. IsFiniteSet(extra) /\ Cardinality(extra) <= Cardinality(room)
  BY <1>4, <1>6, FS_Injection
<1>8. IsFiniteSet(Bytes(limits)) /\ IsFiniteSet(Bytes(raised))
  BY BytesFinite
<1>9. Cardinality(Bytes(limits) \cup extra) = Cardinality(Bytes(limits)) + Cardinality(extra) - Cardinality({})
      /\ IsFiniteSet(Bytes(limits) \cup extra)
  <2>1. Bytes(limits) \cap extra = {}
    BY DEF extra
  <2> QED BY <1>7, <1>8, <2>1, FS_Union
<1>10. Cardinality(Bytes(raised)) <= Cardinality(Bytes(limits) \cup extra)
  <2>1. Bytes(raised) \in SUBSET (Bytes(limits) \cup extra)
    BY DEF extra
  <2> QED BY <1>9, <2>1, FS_Subset
<1>11. /\ Cardinality(Bytes(raised)) \in Nat /\ Cardinality(Bytes(limits)) \in Nat
       /\ Cardinality(extra) \in Nat /\ Cardinality(room) \in Nat /\ Cardinality({}) = 0
  BY <1>6, <1>7, <1>8, FS_CardinalityType, FS_EmptySet
<1>12. Cardinality(Bytes(raised)) <= Cardinality(Bytes(limits)) + Cardinality(room)
  BY <1>7, <1>9, <1>10, <1>11
<1> QED BY <1>6, <1>12 DEF Allocated

-----------------------------------------------------------------------------
(* The inductive invariant: what one transaction at a time has read is      *)
(* still true, or on the safe side, when it writes.                         *)

Used == Cardinality(DOMAIN users)
Granted == Allocated(LimitsOf(users))

\* The lock of the tenant is held by one transaction.
OneHolder ==
  \A p, q \in DOMAIN tx : tx[p].stage # "lock" /\ tx[q].stage # "lock" => p = q

\* Deletions outside only lower the totals.
TotalsCover ==
  \A r \in DOMAIN tx : tx[r].stage = "write" =>
    Used <= tx[r].count /\ Granted <= tx[r].allocated

\* The limit of the target changes under the lock only.
LimitKept ==
  \A r \in DOMAIN tx :
    /\ tx[r].kind \in Single /\ tx[r].stage \in {"totals", "write"}
    /\ tx[r].user \in DOMAIN users
    => users[tx[r].user].limit = tx[r].limit

\* So does the status of the tenant.
StillActive ==
  \A r \in DOMAIN tx : tx[r].stage = "write" /\ tx[r].kind # "edit" => tenant.status = "ACTIVE"

\* So do the assignments, but for inbounds that are deleted.
StillAssigned ==
  \A r \in DOMAIN tx :
    /\ tx[r].kind = "create" /\ tx[r].stage \in {"totals", "write"}
    /\ tx[r].inbound \in inbounds
    => tx[r].inbound \in assigned

Reads == OneHolder /\ TotalsCover /\ LimitKept /\ StillActive /\ StillAssigned

IInv ==
  /\ TypeOK /\ IsFiniteSet(DOMAIN users)
  /\ WithinUserLimit /\ WithinCredit
  /\ Reads

-----------------------------------------------------------------------------
(* A transaction that ends leaves only transactions that have read nothing. *)
LEMMA EndKeepsReads ==
  ASSUME IInv, NEW r, r \in DOMAIN tx, tx[r].stage = "write", End(r)
  PROVE  Reads'
<1>1. \A q \in DOMAIN tx' : q \in DOMAIN tx /\ q # r /\ tx'[q] = tx[q]
  BY DEF End
<1>2. \A q \in DOMAIN tx' : tx'[q].stage = "lock"
  BY <1>1 DEF IInv, Reads, OneHolder
<1> QED BY <1>2 DEF Reads, OneHolder, TotalsCover, LimitKept, StillActive, StillAssigned

(* The other transactions keep their types. *)
LEMMA EndType ==
  ASSUME TypeOK, NEW r, End(r)
  PROVE  DOMAIN tx' \subseteq Request /\ tx' \in [DOMAIN tx' -> Transaction]
BY DEF TypeOK, End

(* The totals of the table are numbers. *)
LEMMA TotalsType ==
  ASSUME IInv
  PROVE  /\ Used \in Nat /\ Granted \in Nat
         /\ DOMAIN LimitsOf(users) = DOMAIN users
         /\ \A u \in DOMAIN users : users[u] \in Row /\ LimitsOf(users)[u] = users[u].limit
                                    /\ users[u].limit \in Limit
<1>1. DOMAIN LimitsOf(users) = DOMAIN users
  BY DEF LimitsOf
<1>2. Used \in Nat
  BY FS_CardinalityType DEF IInv, Used
<1>3. Granted \in Nat
  BY <1>1, BytesFinite DEF IInv, Granted
<1>4. \A u \in DOMAIN users : users[u] \in Row
  BY DEF IInv, TypeOK
<1> QED BY <1>1, <1>2, <1>3, <1>4 DEF LimitsOf, Row

(* The initial tables satisfy the invariant. *)
LEMMA InitIInv == Init => IInv
<1> SUFFICES ASSUME Init PROVE IInv
  OBVIOUS
<1>1. DOMAIN users = {} /\ DOMAIN tx = {}
  BY DEF Init
<1>2. TypeOK
  BY <1>1 DEF Init, TypeOK
<1>3. IsFiniteSet(DOMAIN users) /\ Cardinality(DOMAIN users) = 0
  BY <1>1, FS_EmptySet
<1>4. Allocated(LimitsOf(users)) = 0
  <2>1. Bytes(LimitsOf(users)) = {}
    BY <1>1 DEF Bytes, LimitsOf
  <2> QED BY <2>1, FS_EmptySet DEF Allocated
<1>5. WithinUserLimit /\ WithinCredit
  BY <1>2, <1>3, <1>4, QuotaAssumption, TrafficAssumption
     DEF WithinUserLimit, WithinCredit, TypeOK, Tenant, Limit, Traffic
<1>6. Reads
  BY <1>1 DEF Reads, OneHolder, TotalsCover, LimitKept, StillActive, StillAssigned
<1> QED BY <1>2, <1>3, <1>5, <1>6 DEF IInv

-----------------------------------------------------------------------------
(* Steps that read *)

(* Steps that leave the tables alone keep what the tables satisfy. *)
LEMMA TablesKept ==
  ASSUME IInv, UNCHANGED <<tenant, allowed, inbounds, assigned, users>>,
         DOMAIN tx' \subseteq Request, tx' \in [DOMAIN tx' -> Transaction], Reads'
  PROVE  IInv'
<1>1. TypeOK'
  BY DEF IInv, TypeOK
<1>2. WithinUserLimit' /\ WithinCredit' /\ IsFiniteSet(DOMAIN users)'
  BY DEF IInv, WithinUserLimit, WithinCredit, LimitsOf
<1> QED BY <1>1, <1>2 DEF IInv

(* A request that begins has read nothing that matters. *)
LEMMA ArriveIInv ==
  ASSUME IInv, NEW r \in Request, Arrive(r)
  PROVE  IInv'
<1>1. PICK kind \in Kind, user \in User \cup {None}, inbound \in Inbound \cup {None} :
        Begin(r, kind, user, inbound)
  BY DEF Arrive, Kind, Single, Bulk, IInv, TypeOK
<1> DEFINE new == [kind |-> kind, stage |-> "lock", user |-> user, inbound |-> inbound,
                   seen |-> allowed, limit |-> None, count |-> 0, allocated |-> 0]
<1>2. new \in Transaction
  BY DEF Transaction, IInv, TypeOK, Limit
<1>3. /\ DOMAIN tx' = DOMAIN tx \cup {r} /\ tx'[r] = new
      /\ \A q \in DOMAIN tx : q # r /\ tx'[q] = tx[q]
  BY <1>1 DEF Begin
<1>4. tx' = [q \in DOMAIN tx' |-> tx'[q]]
  BY <1>1 DEF Begin
<1>5. new.stage = "lock"
  OBVIOUS
<1> HIDE DEF new
<1>6. DOMAIN tx' \subseteq Request /\ tx' \in [DOMAIN tx' -> Transaction]
  <2>1. \A q \in DOMAIN tx' : tx'[q] \in Transaction
    BY <1>2, <1>3 DEF IInv, TypeOK
  <2> QED BY <1>3, <1>4, <2>1 DEF IInv, TypeOK
<1>7. UNCHANGED <<tenant, allowed, inbounds, assigned, users>>
  BY <1>1 DEF Begin
<1>8. \A q \in DOMAIN tx' : tx'[q].stage # "lock" => q \in DOMAIN tx /\ tx'[q] = tx[q]
  BY <1>3, <1>5
<1>9. Reads'
  <2>1. OneHolder'
    BY <1>8 DEF IInv, Reads, OneHolder
  <2>2. TotalsCover' /\ LimitKept'
    BY <1>7, <1>8 DEF IInv, Reads, TotalsCover, LimitKept, Used, Granted, LimitsOf
  <2>3. StillActive' /\ StillAssigned'
    BY <1>7, <1>8 DEF IInv, Reads, StillActive, StillAssigned
  <2> QED BY <2>1, <2>2, <2>3 DEF Reads
<1> QED BY <1>6, <1>7, <1>9, TablesKept

(* A step of the transaction that changes its record only, and keeps what it *)
(* asks for.                                                                 *)
LEMMA AdvanceIInv ==
  ASSUME IInv, NEW r, r \in DOMAIN tx, NEW next \in Transaction,
         DOMAIN tx' = DOMAIN tx, tx' = [q \in DOMAIN tx |-> IF q = r THEN next ELSE tx[q]],
         UNCHANGED <<tenant, allowed, inbounds, assigned, users>>,
         \A q \in DOMAIN tx : q # r => tx[q].stage = "lock",
         next.stage = "write" => Used <= next.count /\ Granted <= next.allocated,
         next.stage = "write" /\ next.kind # "edit" => tenant.status = "ACTIVE",
         next.kind \in Single /\ next.stage \in {"totals", "write"} /\ next.user \in DOMAIN users
           => users[next.user].limit = next.limit,
         next.kind = "create" /\ next.stage \in {"totals", "write"} /\ next.inbound \in inbounds
           => next.inbound \in assigned
  PROVE  IInv'
<1>1. DOMAIN tx' \subseteq Request /\ tx' \in [DOMAIN tx' -> Transaction]
  BY DEF IInv, TypeOK
<1>2. tx'[r] = next /\ \A q \in DOMAIN tx' : q # r => tx'[q].stage = "lock"
  OBVIOUS
<1>3. OneHolder'
  BY <1>2 DEF OneHolder
<1>4. TotalsCover' /\ LimitKept'
  BY <1>2 DEF TotalsCover, LimitKept, Used, Granted, LimitsOf
<1>5. StillActive' /\ StillAssigned'
  BY <1>2 DEF StillActive, StillAssigned
<1> QED BY <1>1, <1>3, <1>4, <1>5, TablesKept DEF Reads

(* While one transaction holds the lock, the others wait for it. *)
LEMMA OthersWait ==
  ASSUME IInv, NEW r, r \in DOMAIN tx, tx[r].stage # "lock"
  PROVE  \A q \in DOMAIN tx : q # r => tx[q].stage = "lock"
BY DEF IInv, Reads, OneHolder

(* The lock is taken when no transaction has it. *)
LEMMA LockIInv ==
  ASSUME IInv, NEW r, Lock(r)
  PROVE  IInv'
<1> DEFINE stage == IF tx[r].kind \in Single \cup {"create"} THEN "target" ELSE "totals"
           next == [tx[r] EXCEPT !.stage = stage]
<1>1. r \in DOMAIN tx /\ tx[r] \in Transaction
  BY DEF Lock, At, IInv, TypeOK
<1>2. next \in Transaction /\ next.stage = stage /\ next.kind = tx[r].kind
  BY <1>1 DEF Transaction
<1>3. tx' = [q \in DOMAIN tx |-> IF q = r THEN next ELSE tx[q]]
  BY <1>1 DEF Lock, IInv, TypeOK
<1>4. \A q \in DOMAIN tx : q # r => tx[q].stage = "lock"
  BY DEF Lock, Unlocked
<1>5. stage # "write" /\ (tx[r].kind \in Single \cup {"create"} => stage \notin {"totals", "write"})
  OBVIOUS
<1>6. DOMAIN tx' = DOMAIN tx
  BY <1>3
<1>7. UNCHANGED <<tenant, allowed, inbounds, assigned, users>>
  BY DEF Lock
<1> HIDE DEF next, stage
<1> QED BY <1>1, <1>2, <1>3, <1>4, <1>5, <1>6, <1>7, AdvanceIInv

(* The assignment is read under the lock. *)
LEMMA FindInboundIInv ==
  ASSUME IInv, NEW r, FindInbound(r)
  PROVE  IInv'
<1> DEFINE next == [tx[r] EXCEPT !.stage = "totals"]
<1>1. r \in DOMAIN tx /\ tx[r] \in Transaction /\ tx[r].kind = "create" /\ tx[r].stage = "target"
  BY DEF FindInbound, At, IInv, TypeOK
<1>2. /\ next \in Transaction /\ next.stage = "totals" /\ next.kind = "create"
      /\ next.inbound = tx[r].inbound
  BY <1>1 DEF Transaction
<1>3. tx' = [q \in DOMAIN tx |-> IF q = r THEN next ELSE tx[q]]
  BY <1>1 DEF FindInbound, IInv, TypeOK
<1>4. \A q \in DOMAIN tx : q # r => tx[q].stage = "lock"
  BY <1>1, OthersWait
<1>5. next.inbound \in assigned /\ next.kind \notin Single
  BY <1>2 DEF FindInbound, Single
<1>6. DOMAIN tx' = DOMAIN tx
  BY <1>3
<1>7. UNCHANGED <<tenant, allowed, inbounds, assigned, users>>
  BY DEF FindInbound
<1> HIDE DEF next
<1> QED BY <1>1, <1>2, <1>3, <1>4, <1>5, <1>6, <1>7, AdvanceIInv

(* So is the limit of the target. *)
LEMMA FindUserIInv ==
  ASSUME IInv, NEW r, FindUser(r)
  PROVE  IInv'
<1> DEFINE next == [tx[r] EXCEPT !.stage = "totals", !.limit = users[tx[r].user].limit]
<1>1. r \in DOMAIN tx /\ tx[r] \in Transaction /\ tx[r].kind \in Single /\ tx[r].stage = "target"
  BY DEF FindUser, At, IInv, TypeOK
<1>2. tx[r].user \in DOMAIN users /\ users[tx[r].user].limit \in Limit
  BY TotalsType DEF FindUser, Visible
<1>3. /\ next \in Transaction /\ next.stage = "totals" /\ next.kind = tx[r].kind
      /\ next.user = tx[r].user /\ next.limit = users[next.user].limit
  BY <1>1, <1>2 DEF Transaction
<1>4. tx' = [q \in DOMAIN tx |-> IF q = r THEN next ELSE tx[q]]
  BY <1>1 DEF FindUser, IInv, TypeOK
<1>5. \A q \in DOMAIN tx : q # r => tx[q].stage = "lock"
  BY <1>1, OthersWait
<1>6. next.kind # "create"
  BY <1>1, <1>3 DEF Single
<1>7. DOMAIN tx' = DOMAIN tx
  BY <1>4
<1>8. UNCHANGED <<tenant, allowed, inbounds, assigned, users>>
  BY DEF FindUser
<1> HIDE DEF next
<1> QED BY <1>1, <1>3, <1>4, <1>5, <1>6, <1>7, <1>8, AdvanceIInv

(* The totals, and the status of the tenant, are those of this moment. *)
LEMMA ReadTotalsIInv ==
  ASSUME IInv, NEW r, ReadTotals(r)
  PROVE  IInv'
<1> DEFINE next == [tx[r] EXCEPT !.stage = "write", !.count = Used, !.allocated = Granted]
<1>1. r \in DOMAIN tx /\ tx[r] \in Transaction /\ tx[r].stage = "totals"
  BY DEF ReadTotals, At, IInv, TypeOK
<1>2. Used \in Nat /\ Granted \in Nat
  BY TotalsType
<1>3. /\ next \in Transaction /\ next.stage = "write" /\ next.kind = tx[r].kind
      /\ next.user = tx[r].user /\ next.inbound = tx[r].inbound /\ next.limit = tx[r].limit
      /\ next.count = Used /\ next.allocated = Granted
  BY <1>1, <1>2 DEF Transaction
<1>4. tx' = [q \in DOMAIN tx |-> IF q = r THEN next ELSE tx[q]]
  BY <1>1 DEF ReadTotals, IInv, TypeOK, Used, Granted
<1>5. \A q \in DOMAIN tx : q # r => tx[q].stage = "lock"
  BY <1>1, OthersWait
<1>6. next.kind # "edit" => tenant.status = "ACTIVE"
  BY <1>3 DEF ReadTotals, Active
<1>7. next.kind \in Single /\ next.user \in DOMAIN users => users[next.user].limit = next.limit
  BY <1>1, <1>3 DEF IInv, Reads, LimitKept
<1>8. next.kind = "create" /\ next.inbound \in inbounds => next.inbound \in assigned
  BY <1>1, <1>3 DEF IInv, Reads, StillAssigned
<1>9. DOMAIN tx' = DOMAIN tx
  BY <1>4
<1>10. UNCHANGED <<tenant, allowed, inbounds, assigned, users>>
  BY DEF ReadTotals
<1> HIDE DEF next
<1> QED BY <1>1, <1>2, <1>3, <1>4, <1>5, <1>6, <1>7, <1>8, <1>9, <1>10, AdvanceIInv

(* A transaction that is rolled back changes nothing. *)
LEMMA RollBackIInv ==
  ASSUME IInv, NEW r, RollBack(r)
  PROVE  IInv'
<1>1. \A q \in DOMAIN tx' : q \in DOMAIN tx /\ tx'[q] = tx[q]
  BY DEF RollBack, End
<1>2. UNCHANGED <<tenant, allowed, inbounds, assigned, users>>
  BY DEF RollBack
<1>3. Reads'
  <2>1. OneHolder'
    BY <1>1 DEF IInv, Reads, OneHolder
  <2>2. TotalsCover' /\ LimitKept'
    BY <1>1, <1>2 DEF IInv, Reads, TotalsCover, LimitKept, Used, Granted, LimitsOf
  <2>3. StillActive' /\ StillAssigned'
    BY <1>1, <1>2 DEF IInv, Reads, StillActive, StillAssigned
  <2> QED BY <2>1, <2>2, <2>3 DEF Reads
<1>4. DOMAIN tx' \subseteq Request /\ tx' \in [DOMAIN tx' -> Transaction]
  BY EndType DEF RollBack, IInv
<1> QED BY <1>2, <1>3, <1>4, TablesKept

-----------------------------------------------------------------------------
(* Steps that write *)

(* A write has to keep the types and the limits, the rest follows. *)
LEMMA WriteIInv ==
  ASSUME IInv, NEW r, r \in DOMAIN tx, tx[r].stage = "write", End(r),
         UNCHANGED <<tenant, allowed, inbounds, assigned>>,
         DOMAIN users' \subseteq User, users' \in [DOMAIN users' -> Row],
         IsFiniteSet(DOMAIN users'), WithinUserLimit', WithinCredit'
  PROVE  IInv'
<1>1. Reads'
  BY EndKeepsReads
<1>2. TypeOK'
  BY EndType DEF IInv, TypeOK
<1> QED BY <1>1, <1>2 DEF IInv

(* What a transaction that writes has read. *)
LEMMA WriterKnows ==
  ASSUME IInv, NEW r, r \in DOMAIN tx, tx[r].stage = "write"
  PROVE  /\ tx[r] \in Transaction
         /\ tx[r].count \in Nat /\ tx[r].allocated \in Nat /\ tx[r].limit \in Limit
         /\ Used <= tx[r].count /\ Granted <= tx[r].allocated
         /\ tx[r].kind # "edit" => tenant.status = "ACTIVE"
         /\ tx[r].kind \in Single /\ tx[r].user \in DOMAIN users
              => users[tx[r].user].limit = tx[r].limit
<1>1. tx[r] \in Transaction
  BY DEF IInv, TypeOK
<1> QED BY <1>1 DEF Transaction, IInv, Reads, TotalsCover, StillActive, LimitKept

(* The credit of the owner is a number or NULL. *)
LEMMA CreditType ==
  ASSUME IInv
  PROVE  /\ tenant.credit \in Limit /\ tenant.userLimit \in Nat \cup {None}
         /\ tenant.credit # None => tenant.credit \in Nat
BY QuotaAssumption, TrafficAssumption DEF IInv, TypeOK, Tenant, Limit, Traffic

(* A new user takes a place that was free, and traffic that was left. *)
LEMMA CreateUserIInv ==
  ASSUME IInv, NEW r, CreateUser(r)
  PROVE  IInv'
<1>1. r \in DOMAIN tx /\ tx[r].stage = "write" /\ tx[r].inbound \in inbounds
  BY DEF CreateUser, At
<1>2. End(r) /\ UNCHANGED <<tenant, allowed, inbounds, assigned>>
  BY DEF CreateUser
<1>3. PICK limit \in Limit, u \in User \ DOMAIN users :
        /\ AssertCreateQuota(tx[r], limit)
        /\ users' = [v \in DOMAIN users \cup {u} |->
             IF v = u THEN [inbound |-> tx[r].inbound, limit |-> limit] ELSE users[v]]
  BY DEF CreateUser
<1>4. [inbound |-> tx[r].inbound, limit |-> limit] \in Row
  BY <1>1 DEF IInv, TypeOK, Row
<1>5. DOMAIN users' = DOMAIN users \cup {u} /\ users' \in [DOMAIN users' -> Row]
  BY <1>3, <1>4, TotalsType
<1>6. /\ Used \in Nat /\ Granted \in Nat
      /\ tx[r].count \in Nat /\ tx[r].allocated \in Nat
      /\ Used <= tx[r].count /\ Granted <= tx[r].allocated
  BY <1>1, TotalsType, WriterKnows
<1>7. IsFiniteSet(DOMAIN users') /\ Cardinality(DOMAIN users') = Used + 1
  BY <1>5, FS_AddElement DEF IInv, Used
<1>8. WithinUserLimit'
  BY <1>2, <1>3, <1>6, <1>7, CreditType, QuotaAssumption, TrafficAssumption
     DEF WithinUserLimit, AssertCreateQuota, PlaceLeft
<1>9. Allocated(LimitsOf(users')) = Granted + Num(limit)
  <2>1. /\ DOMAIN LimitsOf(users') = DOMAIN LimitsOf(users) \cup {u}
        /\ LimitsOf(users')[u] = limit
        /\ \A v \in DOMAIN LimitsOf(users) : LimitsOf(users')[v] = LimitsOf(users)[v]
    BY <1>3, <1>5 DEF LimitsOf
  <2>2. DOMAIN LimitsOf(users) = DOMAIN users /\ IsFiniteSet(DOMAIN LimitsOf(users))
    BY TotalsType DEF IInv
  <2> QED BY <2>1, <2>2, AllocatedAdd DEF Granted
<1>10. WithinCredit'
  <2>1. CASE limit = None
    BY <1>2, <1>3, <2>1 DEF WithinCredit, AssertCreateQuota, CreditAllows
  <2>2. CASE limit # None
    <3>1. Num(limit) = limit /\ limit \in Nat
      BY <2>2, NumType DEF Num
    <3>2. tenant.credit # None => tx[r].allocated + limit <= tenant.credit
      BY <1>3, <2>2 DEF AssertCreateQuota, CreditAllows
    <3>3. tenant.credit # None => Granted + limit <= tenant.credit
      BY <1>6, <3>1, <3>2, CreditType
    <3> QED BY <1>2, <1>9, <3>1, <3>3 DEF WithinCredit
  <2> QED BY <2>1, <2>2
<1>11. DOMAIN users' \subseteq User
  BY <1>5 DEF IInv, TypeOK
<1> QED BY <1>1, <1>2, <1>5, <1>7, <1>8, <1>10, <1>11, WriteIInv

(* Changing the limit of one user, or of one that is gone. *)
LEMMA SetOneLimit ==
  ASSUME IInv, NEW r, r \in DOMAIN tx, tx[r].stage = "write", tx[r].kind \in Single,
         NEW limit \in Limit, SetLimits({tx[r].user}, limit),
         End(r), UNCHANGED <<tenant, allowed, inbounds, assigned>>,
         tenant.credit # None =>
           tx[r].allocated - Num(tx[r].limit) + Num(limit) <= tenant.credit
  PROVE  IInv'
<1> DEFINE u == tx[r].user
<1>1. DOMAIN users' = DOMAIN users /\ users' \in [DOMAIN users -> Row]
  <2>1. \A v \in DOMAIN users : [users[v] EXCEPT !.limit = limit] \in Row
    BY TotalsType DEF Row
  <2> QED BY <2>1, TotalsType DEF SetLimits
<1>2. DOMAIN users \subseteq User /\ IsFiniteSet(DOMAIN users)
  BY DEF IInv, TypeOK
<1>3. WithinUserLimit'
  BY <1>1 DEF IInv, WithinUserLimit
<1>4. WithinCredit'
  <2>1. CASE u \notin DOMAIN users
    <3>1. LimitsOf(users') = LimitsOf(users)
      BY <2>1 DEF LimitsOf, SetLimits
    <3> QED BY <3>1 DEF IInv, WithinCredit
  <2>2. CASE u \in DOMAIN users
    <3>1. /\ DOMAIN LimitsOf(users') = DOMAIN LimitsOf(users)
          /\ LimitsOf(users')[u] = limit
          /\ \A v \in DOMAIN LimitsOf(users) : v # u => LimitsOf(users')[v] = LimitsOf(users)[v]
      BY <2>2, TotalsType DEF LimitsOf, SetLimits, Row
    <3>2. /\ IsFiniteSet(DOMAIN LimitsOf(users)) /\ u \in DOMAIN LimitsOf(users)
          /\ LimitsOf(users)[u] \in Limit /\ LimitsOf(users)[u] = tx[r].limit
      BY <1>2, <2>2, TotalsType, WriterKnows
    <3> HIDE DEF u
    <3>3. Allocated(LimitsOf(users')) = Granted - Num(tx[r].limit) + Num(limit)
      BY <3>1, <3>2, AllocatedSet DEF Granted
    <3>4. Granted \in Nat /\ tx[r].allocated \in Nat /\ Granted <= tx[r].allocated
          /\ tx[r].limit \in Limit
      BY TotalsType, WriterKnows
    <3>5. Num(limit) \in Nat /\ Num(tx[r].limit) \in Nat
      BY <3>4, NumType
    <3>6. tenant.credit # None => Allocated(LimitsOf(users')) <= tenant.credit
      BY <3>3, <3>4, <3>5, CreditType
    <3> QED BY <3>6 DEF WithinCredit
  <2> QED BY <2>1, <2>2
<1> QED BY <1>1, <1>2, <1>3, <1>4, WriteIInv

(* The new limit replaces the one that was read. *)
LEMMA UpdateUserIInv ==
  ASSUME IInv, NEW r, UpdateUser(r)
  PROVE  IInv'
<1>1. r \in DOMAIN tx /\ tx[r].stage = "write" /\ tx[r].kind \in Single
  BY DEF UpdateUser, At, Single
<1>2. PICK limit \in Limit :
        CreditAllows(Reallocated(tx[r], limit)) /\ SetLimits({tx[r].user}, limit)
  BY DEF UpdateUser
<1>3. End(r) /\ UNCHANGED <<tenant, allowed, inbounds, assigned>>
  BY DEF UpdateUser
<1>4. tenant.credit # None => tx[r].allocated - Num(tx[r].limit) + Num(limit) <= tenant.credit
  BY <1>2 DEF CreditAllows, Reallocated, Num
<1> QED BY <1>1, <1>2, <1>3, <1>4, SetOneLimit

(* The bytes are added to the limit that was read. *)
LEMMA IncreaseTrafficIInv ==
  ASSUME IInv, NEW r, IncreaseTraffic(r)
  PROVE  IInv'
<1>1. r \in DOMAIN tx /\ tx[r].stage = "write" /\ tx[r].kind \in Single
  BY DEF IncreaseTraffic, At, Single
<1>2. PICK bytes \in Traffic \ {0} :
        /\ CreditAllows(tx[r].allocated + bytes)
        /\ Num(tx[r].limit) + bytes \in Traffic
        /\ SetLimits({tx[r].user}, Num(tx[r].limit) + bytes)
  BY DEF IncreaseTraffic
<1>3. End(r) /\ UNCHANGED <<tenant, allowed, inbounds, assigned>>
  BY DEF IncreaseTraffic
<1> DEFINE limit == Num(tx[r].limit) + bytes
<1>4. limit \in Limit /\ Num(limit) = limit
  BY <1>2, TrafficAssumption DEF Limit, Num, Traffic
<1>5. tx[r].allocated \in Nat /\ Num(tx[r].limit) \in Nat /\ bytes \in Nat
  BY <1>1, WriterKnows, NumType DEF Traffic
<1>6. tenant.credit # None => tx[r].allocated + bytes <= tenant.credit
  BY <1>2 DEF CreditAllows
<1>7. tenant.credit # None => tx[r].allocated - Num(tx[r].limit) + Num(limit) <= tenant.credit
  BY <1>4, <1>5, <1>6, CreditType
<1>8. SetLimits({tx[r].user}, limit)
  BY <1>2
<1> HIDE DEF limit
<1> QED BY <1>1, <1>3, <1>4, <1>7, <1>8, SetOneLimit

(* The bytes are added once for each user. *)
LEMMA BulkIncreaseIInv ==
  ASSUME IInv, NEW r, BulkIncrease(r)
  PROVE  IInv'
<1>1. r \in DOMAIN tx /\ tx[r].stage = "write"
  BY DEF BulkIncrease, At
<1>2. PICK who \in (SUBSET Visible) \ {{}}, bytes \in Traffic \ {0} :
        /\ CreditAllows(tx[r].allocated + Cardinality(who) * bytes)
        /\ \A u \in who : Num(users[u].limit) + bytes \in Traffic
        /\ users' = [u \in DOMAIN users |->
             IF u \in who THEN [users[u] EXCEPT !.limit = Num(@) + bytes] ELSE users[u]]
  BY DEF BulkIncrease
<1>3. End(r) /\ UNCHANGED <<tenant, allowed, inbounds, assigned>>
  BY DEF BulkIncrease
<1>4. who \in SUBSET DOMAIN users /\ bytes \in Nat
  BY DEF Visible, Traffic
<1>5. DOMAIN users' = DOMAIN users /\ users' \in [DOMAIN users -> Row]
  <2>1. \A u \in who : [users[u] EXCEPT !.limit = Num(@) + bytes] \in Row
    BY <1>2, <1>4, TotalsType DEF Row, Limit
  <2> QED BY <1>2, <2>1, TotalsType
<1>6. DOMAIN users \subseteq User /\ IsFiniteSet(DOMAIN users)
  BY DEF IInv, TypeOK
<1>7. WithinUserLimit'
  BY <1>3, <1>5 DEF IInv, WithinUserLimit
<1>8. Allocated(LimitsOf(users')) <= Granted + Cardinality(who) * bytes
  <2>1. DOMAIN LimitsOf(users') = DOMAIN LimitsOf(users) /\ DOMAIN LimitsOf(users) = DOMAIN users
    BY <1>5 DEF LimitsOf
  <2>2. \A u \in DOMAIN users :
          LimitsOf(users')[u] = IF u \in who THEN Num(LimitsOf(users)[u]) + bytes ELSE LimitsOf(users)[u]
    BY <1>2, <1>5, TotalsType DEF LimitsOf, Row
  <2>3. \A u \in DOMAIN users : LimitsOf(users)[u] \in Limit
    BY TotalsType
  <2> QED BY <1>4, <1>6, <2>1, <2>2, <2>3, AllocatedRaise DEF Granted
<1>9. WithinCredit'
  <2>1. IsFiniteSet(who) /\ Cardinality(who) \in Nat
    BY <1>4, <1>6, FS_Subset, FS_CardinalityType
  <2>2. Cardinality(who) * bytes \in Nat
    BY <1>4, <2>1
  <2>3. Allocated(LimitsOf(users')) \in Nat
    BY <1>5, <1>6, BytesFinite DEF LimitsOf
  <2>4. Granted \in Nat /\ tx[r].allocated \in Nat /\ Granted <= tx[r].allocated
    BY <1>1, TotalsType, WriterKnows
  <2>5. tenant.credit # None => tx[r].allocated + Cardinality(who) * bytes <= tenant.credit
    BY <1>2 DEF CreditAllows
  <2> DEFINE more == Cardinality(who) * bytes
  <2>6. /\ more \in Nat /\ Allocated(LimitsOf(users')) <= Granted + more
        /\ tenant.credit # None => tx[r].allocated + more <= tenant.credit
    BY <1>8, <2>2, <2>5
  <2> HIDE DEF more
  <2>7. tenant.credit # None => tenant.credit \in Nat
    BY CreditType
  <2>8. tenant.credit # None => Allocated(LimitsOf(users')) <= tenant.credit
    BY <2>3, <2>4, <2>6, <2>7
  <2> QED BY <1>3, <2>8 DEF WithinCredit
<1> QED BY <1>1, <1>3, <1>5, <1>6, <1>7, <1>9, WriteIInv

(* Deletions only lower the totals. *)
LEMMA WithoutLowers ==
  ASSUME IInv, NEW who, Without(who)
  PROVE  /\ DOMAIN users' \subseteq DOMAIN users
         /\ \A u \in DOMAIN users' : users'[u] = users[u]
         /\ DOMAIN users' \subseteq User /\ users' \in [DOMAIN users' -> Row]
         /\ IsFiniteSet(DOMAIN users') /\ Used' <= Used /\ Granted' <= Granted
<1>1. /\ DOMAIN users' \subseteq DOMAIN users
      /\ \A u \in DOMAIN users' : users'[u] = users[u]
  BY DEF Without
<1>2. DOMAIN users' \subseteq User /\ users' \in [DOMAIN users' -> Row]
  BY <1>1 DEF IInv, TypeOK, Without
<1>3. IsFiniteSet(DOMAIN users') /\ Used' <= Used
  BY <1>1, FS_Subset DEF IInv, Used
<1>4. Granted' <= Granted
  <2>1. /\ DOMAIN LimitsOf(users) = DOMAIN users /\ DOMAIN LimitsOf(users') = DOMAIN users'
        /\ \A u \in DOMAIN users' : LimitsOf(users')[u] = LimitsOf(users)[u]
    BY <1>1 DEF LimitsOf
  <2>2. Allocated(LimitsOf(users')) <= Allocated(LimitsOf(users))
    BY <1>1, <2>1, AllocatedMonotone DEF IInv
  <2> QED BY <2>2 DEF Granted
<1> QED BY <1>1, <1>2, <1>3, <1>4

(* Lower totals stay within the limits. *)
LEMMA LowerWithin ==
  ASSUME IInv, UNCHANGED tenant, Used' \in Nat, Granted' \in Nat,
         Used' <= Used, Granted' <= Granted
  PROVE  WithinUserLimit' /\ WithinCredit'
<1>1. Used \in Nat /\ Granted \in Nat
  BY TotalsType
<1>2. /\ tenant.userLimit # None => tenant.userLimit \in Nat /\ Used <= tenant.userLimit
      /\ tenant.credit # None => tenant.credit \in Nat /\ Granted <= tenant.credit
  BY CreditType DEF IInv, WithinUserLimit, WithinCredit, Used, Granted
<1>3. /\ tenant.userLimit # None => Used' <= tenant.userLimit
      /\ tenant.credit # None => Granted' <= tenant.credit
  BY <1>1, <1>2
<1> QED BY <1>3 DEF WithinUserLimit, WithinCredit, Used, Granted

(* So do those after a deletion. *)
LEMMA WithoutWithin ==
  ASSUME IInv, NEW who, Without(who), UNCHANGED tenant
  PROVE  WithinUserLimit' /\ WithinCredit'
<1>1. IsFiniteSet(DOMAIN users') /\ Used' <= Used /\ Granted' <= Granted
  BY WithoutLowers
<1>2. Used' \in Nat
  BY <1>1, FS_CardinalityType DEF Used
<1>3. Granted' \in Nat
  <2>1. DOMAIN LimitsOf(users') = DOMAIN users'
    BY DEF LimitsOf
  <2>2. Allocated(LimitsOf(users')) \in Nat
    BY <1>1, <2>1, BytesFinite
  <2> QED BY <2>2 DEF Granted
<1> QED BY <1>1, <1>2, <1>3, LowerWithin

(* Deletions of the portal. *)
LEMMA DeleteUsersIInv ==
  ASSUME IInv, NEW r, DeleteUsers(r)
  PROVE  IInv'
<1>1. r \in DOMAIN tx /\ tx[r].stage = "write" /\ End(r)
  BY DEF DeleteUsers, At
<1>2. UNCHANGED <<tenant, allowed, inbounds, assigned>>
  BY DEF DeleteUsers
<1>3. PICK who : Without(who)
  BY DEF DeleteUsers
<1>4. /\ DOMAIN users' \subseteq User /\ users' \in [DOMAIN users' -> Row]
      /\ IsFiniteSet(DOMAIN users')
  BY <1>3, WithoutLowers
<1>5. WithinUserLimit' /\ WithinCredit'
  BY <1>2, <1>3, WithoutWithin
<1> QED BY <1>1, <1>2, <1>4, <1>5, WriteIInv

(* A limit that the owner sets covers what is in use. *)
LEMMA UpdateMasterFits ==
  ASSUME IInv, NEW r, UpdateMaster(r)
  PROVE  /\ tenant' \in Tenant /\ allowed' \in SUBSET Protocol /\ assigned' \in SUBSET inbounds
         /\ UNCHANGED <<inbounds, users>>
         /\ WithinUserLimit' /\ WithinCredit'
<1>1. r \in DOMAIN tx /\ tx[r].stage = "write"
  BY DEF UpdateMaster, At
<1>2. PICK row \in Tenant :
        /\ Covers(row.userLimit, tenant.userLimit, tx[r].count)
        /\ Covers(row.credit, tenant.credit, tx[r].allocated)
        /\ tenant' = row
  BY DEF UpdateMaster
<1>3. allowed' \in SUBSET Protocol /\ assigned' \in SUBSET inbounds
  BY DEF UpdateMaster, Assignable
<1>4. UNCHANGED <<inbounds, users>>
  BY DEF UpdateMaster
<1>5. /\ Used \in Nat /\ Granted \in Nat
      /\ tx[r].count \in Nat /\ tx[r].allocated \in Nat
      /\ Used <= tx[r].count /\ Granted <= tx[r].allocated
  BY <1>1, TotalsType, WriterKnows
<1>6. /\ row.userLimit # None => row.userLimit \in Nat
      /\ row.credit # None => row.credit \in Nat
  BY QuotaAssumption, TrafficAssumption DEF Tenant, Limit, Traffic
<1>7. /\ tenant.userLimit # None => Used <= tenant.userLimit
      /\ tenant.credit # None => Granted <= tenant.credit
  BY DEF IInv, WithinUserLimit, WithinCredit, Used, Granted
<1>8. row.userLimit # None => Used <= row.userLimit
  BY <1>2, <1>5, <1>6, <1>7 DEF Covers
<1>9. row.credit # None => Granted <= row.credit
  BY <1>2, <1>5, <1>6, <1>7 DEF Covers
<1>10. WithinUserLimit' /\ WithinCredit'
  BY <1>2, <1>4, <1>8, <1>9 DEF WithinUserLimit, WithinCredit, Used, Granted, LimitsOf
<1> QED BY <1>2, <1>3, <1>4, <1>10

(* Edits of the owner. *)
LEMMA UpdateMasterIInv ==
  ASSUME IInv, NEW r, UpdateMaster(r)
  PROVE  IInv'
<1>1. r \in DOMAIN tx /\ tx[r].stage = "write" /\ End(r)
  BY DEF UpdateMaster, At
<1>2. Reads'
  BY <1>1, EndKeepsReads
<1>3. TypeOK'
  BY <1>1, EndType, UpdateMasterFits DEF IInv, TypeOK
<1> QED BY <1>2, <1>3, UpdateMasterFits DEF IInv

-----------------------------------------------------------------------------
(* Steps outside *)

(* The status changes while no transaction holds the lock. *)
LEMMA UpdateTenantIInv ==
  ASSUME IInv, UpdateTenant
  PROVE  IInv'
<1>1. PICK status \in {"ACTIVE", "DISABLED"} : tenant' = [tenant EXCEPT !.status = status]
  BY DEF UpdateTenant
<1>2. UNCHANGED <<allowed, inbounds, assigned, users, tx>>
  BY DEF UpdateTenant
<1>3. tenant' \in Tenant /\ tenant'.credit = tenant.credit /\ tenant'.userLimit = tenant.userLimit
  BY <1>1 DEF IInv, TypeOK, Tenant
<1>4. TypeOK' /\ IsFiniteSet(DOMAIN users)'
  BY <1>2, <1>3 DEF IInv, TypeOK
<1>5. WithinUserLimit' /\ WithinCredit'
  BY <1>2, <1>3 DEF IInv, WithinUserLimit, WithinCredit, LimitsOf
<1>6. \A q \in DOMAIN tx' : tx'[q].stage = "lock"
  BY <1>2 DEF UpdateTenant, Unlocked
<1>7. Reads'
  BY <1>6 DEF Reads, OneHolder, TotalsCover, LimitKept, StillActive, StillAssigned
<1> QED BY <1>4, <1>5, <1>7 DEF IInv

(* Expiration is checked with the totals, and forgotten. *)
LEMMA TenantExpiresIInv ==
  ASSUME IInv, TenantExpires
  PROVE  IInv'
<1>1. UNCHANGED <<allowed, inbounds, assigned, users, tx>>
  BY DEF TenantExpires
<1>2. /\ tenant' \in Tenant /\ tenant'.credit = tenant.credit
      /\ tenant'.userLimit = tenant.userLimit /\ tenant'.status = tenant.status
  BY DEF TenantExpires, IInv, TypeOK, Tenant
<1>3. TypeOK' /\ IsFiniteSet(DOMAIN users)'
  BY <1>1, <1>2 DEF IInv, TypeOK
<1>4. WithinUserLimit' /\ WithinCredit'
  BY <1>1, <1>2 DEF IInv, WithinUserLimit, WithinCredit, LimitsOf
<1>5. Reads'
  BY <1>1, <1>2 DEF IInv, Reads, OneHolder, TotalsCover, LimitKept, StillActive, StillAssigned,
                    Used, Granted, LimitsOf
<1> QED BY <1>3, <1>4, <1>5 DEF IInv

(* Deletions outside take no lock, but only lower what was read. *)
LEMMA DeleteClientsIInv ==
  ASSUME IInv, DeleteClients
  PROVE  IInv'
<1>1. PICK who : Without(who)
  BY DEF DeleteClients
<1>2. UNCHANGED <<tenant, allowed, inbounds, assigned, tx>>
  BY DEF DeleteClients
<1>3. /\ DOMAIN users' \subseteq DOMAIN users
      /\ \A u \in DOMAIN users' : users'[u] = users[u]
      /\ DOMAIN users' \subseteq User /\ users' \in [DOMAIN users' -> Row]
      /\ IsFiniteSet(DOMAIN users') /\ Used' <= Used /\ Granted' <= Granted
  BY <1>1, WithoutLowers
<1>4. WithinUserLimit' /\ WithinCredit'
  BY <1>1, <1>2, WithoutWithin
<1>5. TypeOK'
  BY <1>2, <1>3 DEF IInv, TypeOK
<1>6. TotalsCover'
  <2>1. Used' \in Nat /\ Granted' \in Nat
    <3>1. Used' \in Nat
      BY <1>3, FS_CardinalityType DEF Used
    <3>2. DOMAIN LimitsOf(users') = DOMAIN users'
      BY DEF LimitsOf
    <3>3. Allocated(LimitsOf(users')) \in Nat
      BY <1>3, <3>2, BytesFinite
    <3> QED BY <3>1, <3>3 DEF Granted
  <2>2. Used \in Nat /\ Granted \in Nat
    BY TotalsType
  <2>3. ASSUME NEW q \in DOMAIN tx, tx[q].stage = "write"
        PROVE  Used' <= tx[q].count /\ Granted' <= tx[q].allocated
    <3>1. /\ tx[q].count \in Nat /\ tx[q].allocated \in Nat
          /\ Used <= tx[q].count /\ Granted <= tx[q].allocated
      BY <2>3, WriterKnows
    <3> QED BY <1>3, <2>1, <2>2, <3>1
  <2> QED BY <1>2, <2>3 DEF TotalsCover
<1>7. LimitKept'
  BY <1>2, <1>3 DEF IInv, Reads, LimitKept
<1>8. OneHolder' /\ StillActive' /\ StillAssigned'
  BY <1>2 DEF IInv, Reads, OneHolder, StillActive, StillAssigned
<1> QED BY <1>3, <1>4, <1>5, <1>6, <1>7, <1>8 DEF IInv, Reads

(* Deleting an inbound leaves the users with their limits. *)
LEMMA DeleteInboundLimits ==
  ASSUME IInv, NEW i, DeleteInbound(i)
  PROVE  /\ DOMAIN users' = DOMAIN users /\ users' \in [DOMAIN users -> Row]
         /\ \A u \in DOMAIN users : users'[u].limit = users[u].limit
         /\ LimitsOf(users') = LimitsOf(users)
<1>1. users' = [u \in DOMAIN users |->
        IF users[u].inbound = i THEN [users[u] EXCEPT !.inbound = None] ELSE users[u]]
  BY DEF DeleteInbound
<1>2. \A u \in DOMAIN users :
        /\ [users[u] EXCEPT !.inbound = None] \in Row
        /\ [users[u] EXCEPT !.inbound = None].limit = users[u].limit
  BY TotalsType DEF Row
<1>3. /\ DOMAIN users' = DOMAIN users /\ users' \in [DOMAIN users -> Row]
      /\ \A u \in DOMAIN users : users'[u].limit = users[u].limit
  BY <1>1, <1>2, TotalsType
<1>4. LimitsOf(users') = LimitsOf(users)
  BY <1>3 DEF LimitsOf
<1> QED BY <1>3, <1>4

(* A deleted inbound takes its assignment along. *)
LEMMA DeleteInboundIInv ==
  ASSUME IInv, NEW i, DeleteInbound(i)
  PROVE  IInv'
<1>1. UNCHANGED <<tenant, allowed, tx>>
  BY DEF DeleteInbound
<1>2. inbounds' = inbounds \ {i} /\ assigned' = assigned \ {i}
  BY DEF DeleteInbound
<1>3. TypeOK'
  BY <1>1, <1>2, DeleteInboundLimits DEF IInv, TypeOK
<1>4. /\ IsFiniteSet(DOMAIN users)' /\ WithinUserLimit' /\ WithinCredit'
      /\ Used' = Used /\ Granted' = Granted
  BY <1>1, DeleteInboundLimits DEF IInv, WithinUserLimit, WithinCredit, Used, Granted
<1>5. TotalsCover' /\ LimitKept'
  BY <1>1, <1>4, DeleteInboundLimits DEF IInv, Reads, TotalsCover, LimitKept
<1>6. StillAssigned'
  BY <1>1, <1>2 DEF IInv, Reads, StillAssigned
<1>7. OneHolder' /\ StillActive'
  BY <1>1 DEF IInv, Reads, OneHolder, StillActive
<1> QED BY <1>3, <1>4, <1>5, <1>6, <1>7 DEF IInv, Reads

-----------------------------------------------------------------------------
(* Every step keeps the invariant. *)
LEMMA NextIInv == IInv /\ [Next]_vars => IInv'
<1> SUFFICES ASSUME IInv, [Next]_vars PROVE IInv'
  OBVIOUS
<1>1. ASSUME NEW r \in Request,
             \/ Arrive(r) \/ Lock(r) \/ FindInbound(r) \/ FindUser(r) \/ ReadTotals(r)
             \/ CreateUser(r) \/ UpdateUser(r) \/ IncreaseTraffic(r) \/ BulkIncrease(r)
             \/ DeleteUsers(r) \/ UpdateMaster(r) \/ RollBack(r)
      PROVE  IInv'
  BY <1>1, ArriveIInv, LockIInv, FindInboundIInv, FindUserIInv, ReadTotalsIInv, CreateUserIInv,
     UpdateUserIInv, IncreaseTrafficIInv, BulkIncreaseIInv, DeleteUsersIInv, UpdateMasterIInv,
     RollBackIInv
<1>2. CASE UpdateTenant \/ TenantExpires \/ DeleteClients
  BY <1>2, UpdateTenantIInv, TenantExpiresIInv, DeleteClientsIInv
<1>3. CASE \E i \in Inbound : DeleteInbound(i)
  BY <1>3, DeleteInboundIInv
<1>4. CASE UNCHANGED vars
  BY <1>4 DEF vars, IInv, TypeOK, WithinUserLimit, WithinCredit, LimitsOf, Reads, OneHolder,
              TotalsCover, LimitKept, StillActive, StillAssigned, Used, Granted
<1> QED BY <1>1, <1>2, <1>3, <1>4 DEF Next

(* Every reachable state satisfies the invariant. *)
THEOREM Invariance == Spec => []IInv
BY InitIInv, NextIInv, PTL DEF Spec

(* The tables and the transactions keep their types, whatever interleaves. *)
THEOREM TypeCorrect == Spec => []TypeOK
<1>1. IInv => TypeOK
  BY DEF IInv
<1> QED BY <1>1, Invariance, PTL

(* Two requests never take the last place of a sub-panel both (quota and     *)
(* assertCreateQuota under the lock of the tenant).                          *)
THEOREM WithinUserLimitAlways == Spec => []WithinUserLimit
<1>1. IInv => WithinUserLimit
  BY DEF IInv
<1> QED BY <1>1, Invariance, PTL

(* No request, alone or with others, grants more than the traffic credit     *)
(* (assertTrafficQuota, and the product in bulkAction).                      *)
THEOREM WithinCreditAlways == Spec => []WithinCredit
<1>1. IInv => WithinCredit
  BY DEF IInv
<1> QED BY <1>1, Invariance, PTL

(* A user is never created on an inbound that was unassigned meanwhile       *)
(* (assignedInbound is called under the lock that updateMaster takes too).   *)
THEOREM CreatedOnAssignedAlways == Spec => []CreatedOnAssigned
<1>1. IInv => CreatedOnAssigned
  BY DEF IInv, Reads, StillAssigned, CreatedOnAssigned, At
<1> QED BY <1>1, Invariance, PTL

-----------------------------------------------------------------------------
(* The ledger *)

(* The ledger counts and adds as the sub-panel does. *)
LEMMA LedgerFits ==
  ASSUME NEW grants, NEW places, NEW traffic
  PROVE  Ledger!Fits(grants, places, traffic) <=>
           /\ places # None => Cardinality(DOMAIN grants) <= places
           /\ traffic # None => Allocated(grants) <= traffic
<1>1. \A S : Ledger!Cardinality(S) = Cardinality(S)
  BY DEF Ledger!Cardinality, Cardinality, Ledger!IsFiniteSet, IsFiniteSet
<1>2. Ledger!Bytes(grants) = Bytes(grants)
  BY DEF Ledger!Bytes, Ledger!Num, Bytes, Num
<1> QED BY <1>1, <1>2 DEF Ledger!Fits, Ledger!Allocated, Allocated

(* The limits of the invariant are those of the ledger. *)
LEMMA InvariantFits ==
  ASSUME WithinUserLimit, WithinCredit
  PROVE  Ledger!Fits(LimitsOf(users), tenant.userLimit, tenant.credit)
<1>1. DOMAIN LimitsOf(users) = DOMAIN users
  BY DEF LimitsOf
<1> QED BY <1>1, LedgerFits DEF WithinUserLimit, WithinCredit

(* The same of the next state. *)
LEMMA InvariantFitsNext ==
  ASSUME WithinUserLimit', WithinCredit'
  PROVE  /\ Ledger!Fits(LimitsOf(users)', tenant'.userLimit, tenant'.credit)
         /\ Ledger!Fits(LimitsOf(users'), tenant'.userLimit, tenant'.credit)
<1>1. DOMAIN LimitsOf(users') = DOMAIN users' /\ LimitsOf(users)' = LimitsOf(users')
  BY DEF LimitsOf
<1> QED BY <1>1, LedgerFits DEF WithinUserLimit, WithinCredit

(* No users at first, and an active panel. *)
LEMMA LedgerInit == Init => Ledger!Init
BY DEF Init, Ledger!Init, LimitsOf

(* Requests that grant *)
LEMMA GrantStep ==
  ASSUME IInv, IInv', NEW r, r \in DOMAIN tx, tx[r].stage = "write", tx[r].kind # "edit",
         UNCHANGED tenant,
         tenant.credit # None => \A u \in DOMAIN users' :
           users'[u].limit = None => u \in DOMAIN users /\ users[u].limit = None
  PROVE  Ledger!Grant
<1>1. tenant.status = "ACTIVE"
  BY WriterKnows
<1>2. Ledger!Fits(LimitsOf(users)', tenant.userLimit, tenant.credit)
  BY InvariantFitsNext DEF IInv
<1>3. /\ DOMAIN LimitsOf(users)' = DOMAIN users' /\ DOMAIN LimitsOf(users) = DOMAIN users
      /\ \A u \in DOMAIN users' : LimitsOf(users)'[u] = users'[u].limit
      /\ \A u \in DOMAIN users : LimitsOf(users)[u] = users[u].limit
  BY DEF LimitsOf
<1> QED BY <1>1, <1>2, <1>3 DEF Ledger!Grant

(* Deletions *)
LEMMA ReleaseStep ==
  ASSUME NEW who, Without(who), UNCHANGED tenant
  PROVE  Ledger!Release
<1>1. /\ DOMAIN users' = DOMAIN users \ who
      /\ \A u \in DOMAIN users' : users'[u] = users[u]
  BY DEF Without
<1>2. DOMAIN LimitsOf(users)' = DOMAIN users' /\ DOMAIN LimitsOf(users) = DOMAIN users
  BY DEF LimitsOf
<1>3. LimitsOf(users)' = [u \in DOMAIN users' |-> LimitsOf(users)[u]]
  BY <1>1 DEF LimitsOf
<1> QED BY <1>1, <1>2, <1>3 DEF Ledger!Release

(* Edits of the owner *)
LEMMA RestrictStep ==
  ASSUME IInv', UNCHANGED users
  PROVE  Ledger!Restrict
<1>1. LimitsOf(users)' = LimitsOf(users)
  BY DEF LimitsOf
<1>2. Ledger!Fits(LimitsOf(users), tenant'.userLimit, tenant'.credit)
  BY <1>1, InvariantFitsNext DEF IInv
<1> QED BY <1>1, <1>2 DEF Ledger!Restrict

(* Creating a user grants; no unlimited user under a credit. *)
LEMMA CreateGrants ==
  ASSUME IInv, IInv', NEW r, CreateUser(r)
  PROVE  Ledger!Grant
<1>1. PICK limit \in Limit, u \in User \ DOMAIN users :
        /\ AssertCreateQuota(tx[r], limit)
        /\ users' = [v \in DOMAIN users \cup {u} |->
             IF v = u THEN [inbound |-> tx[r].inbound, limit |-> limit] ELSE users[v]]
  BY DEF CreateUser
<1>2. limit = None => tenant.credit = None
  BY <1>1 DEF AssertCreateQuota, CreditAllows
<1>3. tenant.credit # None => \A v \in DOMAIN users' :
        users'[v].limit = None => v \in DOMAIN users /\ users[v].limit = None
  BY <1>1, <1>2
<1>4. r \in DOMAIN tx /\ tx[r].stage = "write" /\ tx[r].kind # "edit" /\ UNCHANGED tenant
  BY DEF CreateUser, At
<1> QED BY <1>3, <1>4, GrantStep

(* So do a new limit and an increase. *)
LEMMA UpdateGrants ==
  ASSUME IInv, IInv', NEW r, UpdateUser(r) \/ IncreaseTraffic(r)
  PROVE  Ledger!Grant
<1>1. PICK limit : /\ SetLimits({tx[r].user}, limit)
                   /\ tenant.credit # None => limit # None
  <2>1. CASE UpdateUser(r)
    BY <2>1 DEF UpdateUser, Reallocated, CreditAllows
  <2>2. CASE IncreaseTraffic(r)
    <3>1. PICK bytes \in Traffic \ {0} :
            /\ Num(tx[r].limit) + bytes \in Traffic
            /\ SetLimits({tx[r].user}, Num(tx[r].limit) + bytes)
      BY <2>2 DEF IncreaseTraffic
    <3>2. Num(tx[r].limit) + bytes # None
      BY <3>1, TrafficAssumption DEF Traffic
    <3> QED BY <3>1, <3>2
  <2> QED BY <2>1, <2>2
<1>2. \A v \in DOMAIN users : [users[v] EXCEPT !.limit = limit].limit = limit
  BY TotalsType DEF Row
<1>3. tenant.credit # None => \A v \in DOMAIN users' :
        users'[v].limit = None => v \in DOMAIN users /\ users[v].limit = None
  BY <1>1, <1>2 DEF SetLimits
<1>4. r \in DOMAIN tx /\ tx[r].stage = "write" /\ tx[r].kind # "edit" /\ UNCHANGED tenant
  BY DEF UpdateUser, IncreaseTraffic, At
<1> QED BY <1>3, <1>4, GrantStep

(* And an increase of many. *)
LEMMA BulkGrants ==
  ASSUME IInv, IInv', NEW r, BulkIncrease(r)
  PROVE  Ledger!Grant
<1>1. PICK who \in (SUBSET Visible) \ {{}}, bytes \in Traffic \ {0} :
        /\ \A u \in who : Num(users[u].limit) + bytes \in Traffic
        /\ users' = [u \in DOMAIN users |->
             IF u \in who THEN [users[u] EXCEPT !.limit = Num(@) + bytes] ELSE users[u]]
  BY DEF BulkIncrease
<1>2. \A u \in DOMAIN users : u \in who => users'[u].limit \in Traffic
  BY <1>1, TotalsType DEF Row
<1>3. \A u \in DOMAIN users' :
        users'[u].limit = None => u \in DOMAIN users /\ users[u].limit = None
  BY <1>1, <1>2, TrafficAssumption DEF Traffic
<1>4. r \in DOMAIN tx /\ tx[r].stage = "write" /\ tx[r].kind # "edit" /\ UNCHANGED tenant
  BY DEF BulkIncrease, At
<1> QED BY <1>3, <1>4, GrantStep

(* Every step is one of the ledger, or leaves it alone. *)
LEMMA LedgerStep == IInv /\ IInv' /\ [Next]_vars => [Ledger!Next]_(Ledger!vars)
<1> SUFFICES ASSUME IInv, IInv', [Next]_vars PROVE [Ledger!Next]_(Ledger!vars)
  OBVIOUS
<1>1. ASSUME UNCHANGED <<tenant, users>>
      PROVE  UNCHANGED Ledger!vars
  BY <1>1 DEF Ledger!vars, LimitsOf
<1>2. ASSUME NEW r \in Request,
             \/ Arrive(r) \/ Lock(r) \/ FindInbound(r) \/ FindUser(r) \/ ReadTotals(r)
             \/ RollBack(r)
      PROVE  UNCHANGED <<tenant, users>>
  BY <1>2 DEF Arrive, Begin, Lock, FindInbound, FindUser, ReadTotals, RollBack
<1>3. ASSUME NEW r \in Request,
             CreateUser(r) \/ UpdateUser(r) \/ IncreaseTraffic(r) \/ BulkIncrease(r)
      PROVE  Ledger!Next
  BY <1>3, CreateGrants, UpdateGrants, BulkGrants DEF Ledger!Next
<1>4. ASSUME NEW r \in Request, DeleteUsers(r)
      PROVE  Ledger!Next
  <2>1. PICK who : Without(who)
    BY <1>4 DEF DeleteUsers
  <2>2. UNCHANGED tenant
    BY <1>4 DEF DeleteUsers
  <2> QED BY <2>1, <2>2, ReleaseStep DEF Ledger!Next
<1>5. CASE DeleteClients
  <2>1. PICK who : Without(who)
    BY <1>5 DEF DeleteClients
  <2>2. UNCHANGED tenant
    BY <1>5 DEF DeleteClients
  <2> QED BY <2>1, <2>2, ReleaseStep DEF Ledger!Next
<1>6. ASSUME (\E r \in Request : UpdateMaster(r)) \/ UpdateTenant \/ TenantExpires
      PROVE  Ledger!Next
  <2>1. UNCHANGED users
    BY <1>6 DEF UpdateMaster, UpdateTenant, TenantExpires
  <2> QED BY <2>1, RestrictStep DEF Ledger!Next
<1>7. ASSUME NEW i \in Inbound, DeleteInbound(i)
      PROVE  UNCHANGED Ledger!vars
  <2>1. UNCHANGED tenant
    BY <1>7 DEF DeleteInbound
  <2>2. LimitsOf(users') = LimitsOf(users)
    BY <1>7, DeleteInboundLimits
  <2> QED BY <2>1, <2>2 DEF Ledger!vars, LimitsOf
<1>8. CASE UNCHANGED vars
  BY <1>1, <1>8 DEF vars
<1> QED BY <1>1, <1>2, <1>3, <1>4, <1>5, <1>6, <1>7, <1>8 DEF Next

(* Whatever interleaves, the sub-panel behaves like the ledger: users and    *)
(* traffic are granted within the limits and while it is not suspended, and  *)
(* the owner never sets a limit below what is in use.                        *)
THEOREM Refinement == Spec => ImplementsLedger
<1>1. Init => Ledger!Init
  BY LedgerInit
<1>2. IInv /\ IInv' /\ [Next]_vars => [Ledger!Next]_(Ledger!vars)
  BY LedgerStep
<1> QED BY <1>1, <1>2, Invariance, PTL DEF Spec, ImplementsLedger, Ledger!Spec

-----------------------------------------------------------------------------
(* What the pages show.  A part of what is there is cut off at nothing.      *)
LEMMA RemainingAddsUp ==
  ASSUME NEW limit \in Nat, limit # None, NEW used \in Nat, used <= limit
  PROVE  Remaining(limit, used) + used = limit
BY DEF Remaining

(* The users on assigned inbounds are those that the inbounds count. *)
LEMMA CountedAreListed ==
  ASSUME IInv, NEW i \in Inbound
  PROVE  (i \in DOMAIN AssignedInbounds /\ AssignedInbounds[i] > 0)
           <=> \E u \in Visible : users[u].inbound = i
<1> DEFINE On == {u \in DOMAIN users : users[u].inbound = i}
<1>1. IsFiniteSet(On)
  BY FS_Subset DEF IInv
<1>2. Cardinality(On) \in Nat /\ (Cardinality(On) = 0 <=> On = {})
  BY <1>1, FS_CardinalityType, FS_EmptySet
<1>3. i \in assigned => AssignedInbounds[i] = Cardinality(On)
  BY DEF AssignedInbounds
<1>4. DOMAIN AssignedInbounds = assigned
  BY DEF AssignedInbounds
<1>5. (\E u \in Visible : users[u].inbound = i) <=> i \in assigned /\ On # {}
  BY DEF Visible
<1> HIDE DEF On
<1> QED BY <1>2, <1>3, <1>4, <1>5

LEMMA InvariantAddsUp == IInv => PagesAddUp
<1> SUFFICES ASSUME IInv PROVE PagesAddUp
  OBVIOUS
<1>1. Used \in Nat /\ Granted \in Nat
  BY TotalsType
<1>2. /\ tenant.credit \in Limit /\ tenant.userLimit \in Nat \cup {None}
      /\ tenant.credit # None => tenant.credit \in Nat
  BY CreditType
<1>3. tenant.userLimit # None => Remaining(tenant.userLimit, Used) + Used = tenant.userLimit
  BY <1>1, <1>2, RemainingAddsUp DEF IInv, WithinUserLimit, Used
<1>4. tenant.credit # None => Remaining(tenant.credit, Granted) + Granted = tenant.credit
  BY <1>1, <1>2, RemainingAddsUp DEF IInv, WithinCredit, Granted
<1>5. Cardinality(Visible) <= Used
  BY FS_Subset DEF IInv, Visible, Used
<1>6. QuotaSnapshot.status = "ACTIVE" <=> Active
  BY DEF IInv, TypeOK, Tenant, QuotaSnapshot, Active
<1>7. \A i \in Inbound :
        (i \in DOMAIN AssignedInbounds /\ AssignedInbounds[i] > 0)
          <=> \E u \in Visible : users[u].inbound = i
  BY CountedAreListed
<1>8. /\ UsersPage.quota = QuotaSnapshot /\ UsersPage.assignedInbounds = AssignedInbounds
      /\ UsersPage.users = Visible
  BY DEF UsersPage
<1>9. /\ QuotaSnapshot.remainingUsers = Remaining(tenant.userLimit, Used)
      /\ QuotaSnapshot.remainingAllocatableTraffic = Remaining(tenant.credit, Granted)
  BY DEF QuotaSnapshot, Used, Granted
<1>10. /\ MasterSummary.userLimit = tenant.userLimit /\ MasterSummary.trafficCredit = tenant.credit
       /\ MasterSummary.createdUsers = Used /\ MasterSummary.allocatedTraffic = Granted
  BY DEF MasterSummary, Used, Granted
<1> HIDE DEF UsersPage, MasterSummary, QuotaSnapshot, AssignedInbounds, Visible, Used, Granted
<1> QED BY <1>3, <1>4, <1>5, <1>6, <1>7, <1>8, <1>9, <1>10 DEF PagesAddUp

(* The remaining users and traffic that a reseller reads, and the totals that *)
(* the owner reads of the same moment, add up to the limits, whatever         *)
(* requests, edits and deletions came before (quotaSnapshot, usersPage,       *)
(* listMaster).                                                               *)
THEOREM PagesAlwaysAddUp == Spec => []PagesAddUp
BY InvariantAddsUp, Invariance, PTL
=============================================================================
