-------------------------------- MODULE MCIpam --------------------------------
(* Ipam for TLC: interchangeable processes; more instances than slots. *)
EXTENDS Ipam, TLC

Symmetry == Permutations(Procs)
=============================================================================
