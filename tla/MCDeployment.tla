----------------------------- MODULE MCDeployment -----------------------------
(* Two shells that install, update, repair and downgrade two releases. *)
EXTENDS Deployment, TLC

Symmetry == Permutations(Installer)

===============================================================================
