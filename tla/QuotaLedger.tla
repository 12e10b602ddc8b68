------------------------------ MODULE QuotaLedger ------------------------------
(***************************************************************************)
(* What the quota of a sub-panel promises, without transactions: users and *)
(* traffic are granted while the panel is not suspended and as far as the  *)
(* limits allow, given back at any time, and the owner never sets a limit  *)
(* below what is in use.  SubpanelQuota implements it.                     *)
(***************************************************************************)
EXTENDS TrafficCredit

VARIABLES
  userLimit, credit,  \* the most users, and the most traffic, or None
  suspended,          \* the owner disabled the panel
  granted             \* the traffic limit of each user

vars == <<userLimit, credit, suspended, granted>>

Fits(grants, users, traffic) ==
  /\ users # None => Cardinality(DOMAIN grants) <= users
  /\ traffic # None => Allocated(grants) <= traffic

Init == granted = [u \in {} |-> None] /\ ~suspended

\* No user becomes unlimited under a credit.
Grant ==
  /\ ~suspended /\ Fits(granted', userLimit, credit)
  /\ credit # None => \A u \in DOMAIN granted' :
       granted'[u] = None => u \in DOMAIN granted /\ granted[u] = None
  /\ UNCHANGED <<userLimit, credit, suspended>>

Release ==
  /\ DOMAIN granted' \subseteq DOMAIN granted
  /\ granted' = [u \in DOMAIN granted' |-> granted[u]]
  /\ UNCHANGED <<userLimit, credit, suspended>>

Restrict == Fits(granted, userLimit', credit') /\ UNCHANGED granted

Next == Grant \/ Release \/ Restrict

Spec == Init /\ [][Next]_vars
=============================================================================
