------------------------------ MODULE MCSessions ------------------------------
(* Constants of Sessions for TLC. *)
EXTENDS Sessions, TLC

\* None of these is ever told apart by name.
Symmetry == Permutations(Request) \cup Permutations(Session) \cup Permutations(Name)
              \cup Permutations(Password) \cup Permutations(Ip)

\* Bounds.  Failures are counted while there is no session: the two meet only
\* in Login, which counts the failures and looks at no session.  A session
\* turns idle while there is another one at most: only Usable looks at it.
Bounded ==
  /\ sessions = <<>> \/ \A c \in Name \X Ip : guessed[c] + limited[c] = 0
  /\ Cardinality(DOMAIN sessions) = 3 => \A s \in DOMAIN sessions : ~sessions[s].idle
=============================================================================
