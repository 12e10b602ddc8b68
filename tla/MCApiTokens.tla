------------------------------ MODULE MCApiTokens ------------------------------
(* Constants of ApiTokens for TLC. *)
EXTENDS ApiTokens, TLC

\* None of these is ever told apart by name.
Symmetry == Permutations(Request) \cup Permutations(Token)
=============================================================================
