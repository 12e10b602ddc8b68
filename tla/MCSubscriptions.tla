--------------------------- MODULE MCSubscriptions ---------------------------
(* Constants of Subscriptions for TLC. *)
EXTENDS Subscriptions, TLC

\* Requests, users and generated credentials are never told apart by name.
Symmetry == Permutations(Request) \cup Permutations(User) \cup Permutations(PortalCredential)

\* Bound: while requests are served the sub-panel may offer subscriptions.
\* Without the capability a request begins or creates less, and nothing else.
Bounded == DOMAIN tx = {} \/ panel.capable
=============================================================================
