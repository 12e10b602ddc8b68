--------------------------- MODULE MCSubpanelQuota ---------------------------
(* Constants of SubpanelQuota for TLC. *)
EXTENDS SubpanelQuota, TLC, Folds

CONSTANTS i1, vless

OneProtocol == i1 :> vless

\* Users and requests are never told apart by name.
Symmetry == Permutations(User) \cup Permutations(Request)

\* Counting bytes is adding up limits.
ASSUME SumAssumption ==
  \A limits \in [User -> Limit] :
    Allocated(limits) =
      MapThenFoldSet(LAMBDA m, n : m + n, 0, LAMBDA u : Num(limits[u]), LAMBDA S : CHOOSE u \in S : TRUE, User)
=============================================================================
