----------------------------- MODULE MCWorkspaces -----------------------------
(***************************************************************************)
(* Symmetry for the runs of Workspaces.                                    *)
(***************************************************************************)
EXTENDS Workspaces, TLC

Symmetry == Permutations(Procs)
================================================================================
