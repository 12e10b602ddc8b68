------------------------------ MODULE MCSettings ------------------------------
(* Constants of Settings for TLC. *)
EXTENDS Settings, TLC

CONSTANTS d, tls

\* The default of tls has no certificatePath; the other sections need none.
MCUncertified == [s \in SecretSection |-> IF s = tls THEN {d} ELSE {}]

Symmetry == Permutations(Request) \cup Permutations(Section \ SecretSection)
=============================================================================
