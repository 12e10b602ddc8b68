----------------------------- MODULE MCWebSession -----------------------------
(* Constants of WebSession for TLC.  No symmetry: liveness is checked. *)
EXTENDS WebSession
===============================================================================
