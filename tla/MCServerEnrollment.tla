-------------------------- MODULE MCServerEnrollment --------------------------
(* Constants of ServerEnrollment for TLC. *)
EXTENDS ServerEnrollment, TLC

\* Tokens, credentials and connections are never told apart by name.
Symmetry == Permutations(Token) \cup Permutations(Credential) \cup Permutations(Request)
=============================================================================
