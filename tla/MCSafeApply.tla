----------------------------- MODULE MCSafeApply -----------------------------
(* Constants of SafeApply for TLC. *)
EXTENDS SafeApply, TLC

CONSTANTS g1, g2, l1, l2

\* Only l1 differs from the other listeners in its allocation.
MCAllocation == [l \in Listener |-> IF l = l1 THEN 0 ELSE 1]

\* Another listener, as of another protocol, takes none of the credentials.
MCUnfit == [l \in Listener |-> IF l = l2 THEN Credential ELSE {}]

NoStages == {}
RuntimeStages == {"hotReplace", "restart", "health", "restore"}

HotPolicy == [global : Global, hotApply : {TRUE}]
TwoPolicies == {[global |-> g1, hotApply |-> TRUE], [global |-> g2, hotApply |-> FALSE]}

\* Bounds: there is a client, one at a time, and another policy, only while
\* there was one inbound; its listener is the first while the other policy is
\* stored.  A policy that is saved after an apply has read it waits for the end
\* of that request: what the apply still does depends on its copy alone.
Bounded ==
  /\ \/ \E i \in Inbound : DOMAIN rows \cup retired \subseteq {i}
     \/ policy.global = g1 /\ \A i \in DOMAIN rows : rows[i].clients = {}
  /\ \A i \in DOMAIN rows : \A c, d \in rows[i].clients : c = d
  /\ policy.global = g1 \/ \A i \in DOMAIN rows : rows[i].listener = l1
  /\ \A r \in DOMAIN job :
       job[r].stage \in Ended \cup {"write", "bump", "reread", "policy"} \/ job[r].global = policy.global

\* Inbounds, tags, clients, credentials and requests are never told apart by
\* name.
Symmetry == Permutations(Inbound) \cup Permutations(Tag) \cup Permutations(Email)
            \cup Permutations(Credential) \cup Permutations(Request)
=============================================================================
