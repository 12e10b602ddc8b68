----------------------------- MODULE MCNodeInstall -----------------------------
(* Constants of NodeInstall for TLC. *)
EXTENDS NodeInstall

CONSTANTS h1, h2

\* On one host a configuration of Xray was left, on the other nothing.
MCFound ==
  [h \in Host |-> [binary |-> FALSE, file |-> IF h = h1 THEN "own" ELSE "none"]]
=============================================================================
