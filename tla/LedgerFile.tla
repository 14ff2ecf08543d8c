------------------------------ MODULE LedgerFile ------------------------------
(***************************************************************************)
(* The JSON ledgers of core/ipam.py and core/registry.py as files: both    *)
(* are rewritten in place by open(path, "w") + json.dump, so a reader can  *)
(* meet the file while it is truncated or partly written, and a writer     *)
(* that dies or fails in between leaves it so.                             *)
(***************************************************************************)

\* No file yet; truncated or partly written; complete, with the map it holds.
Absent(empty) == [state |-> "absent", map |-> empty]
Torn(empty) == [state |-> "torn", map |-> empty]
Whole(m) == [state |-> "whole", map |-> m]

Files(Maps) == [state : {"absent", "torn", "whole"}, map : Maps]

\* _load and _load_raw: a missing or undecodable file reads as the empty map.
Loaded(file, empty) == IF file.state = "whole" THEN file.map ELSE empty
=============================================================================
