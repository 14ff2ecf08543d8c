------------------------------ MODULE MCProvision ------------------------------
(***************************************************************************)
(* Where the runs of Provision let things go wrong.                        *)
(***************************************************************************)
EXTENDS Provision

Everywhere == Phases \cup {"idle"}
Nowhere == {}
================================================================================
