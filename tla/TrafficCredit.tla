----------------------------- MODULE TrafficCredit -----------------------------
(***************************************************************************)
(* Traffic limits and their sum over the users of a sub-panel.             *)
(***************************************************************************)
EXTENDS Integers, FiniteSets

CONSTANTS
  User,        \* ids of users (rows of vpn_users)
  MaxTraffic,  \* largest traffic limit a bigint column holds
  None         \* NULL: no limit

ASSUME TrafficAssumption == MaxTraffic \in Nat /\ None \notin Int

Traffic == 0..MaxTraffic
Limit == Traffic \cup {None}

\* bigint(limit): a NULL counts as 0.
Num(limit) == IF limit = None THEN 0 ELSE limit

\* The bytes granted to users, one by one; limits maps users to limits.
Bytes(limits) == {b \in (DOMAIN limits) \X (1..MaxTraffic) : b[2] <= Num(limits[b[1]])}

\* coalesce(sum(traffic_limit), 0), as the number of bytes granted.
Allocated(limits) == Cardinality(Bytes(limits))
=============================================================================
