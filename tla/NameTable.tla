------------------------------- MODULE NameTable -------------------------------
(***************************************************************************)
(* What core/registry.py promises to its callers: a table of names that    *)
(* register and remove change at one instant between call and return.  A   *)
(* name that is taken is refused, unless the caller asked to overwrite it. *)
(* Two things are visible of the file behind the table.  From the instant  *)
(* of a change to the end of the write its caller is the writer, and who   *)
(* looks without the lock meanwhile finds nothing; and a writer that dies  *)
(* takes all entries with it.  A call that dies anywhere else has changed  *)
(* the table or has not, and harms nobody.                                 *)
(***************************************************************************)
CONSTANTS Procs, NoProc, Names

VARIABLES table,    \* name -> the process that registered it, or NoProc
          stage,    \* of each process: idle, the op it waits for, or its outcome
          name,     \* the name argument of its call
          over,     \* the allow_overwrite argument
          result,   \* how its last call ended
          writer    \* the process that is writing the file, or NoProc

EmptyTable == [n \in Names |-> NoProc]

Init == /\ table = EmptyTable
        /\ stage = [p \in Procs |-> "idle"]
        /\ name \in [Procs -> Names]
        /\ over = [p \in Procs |-> FALSE]
        /\ result = [p \in Procs |-> "none"]
        /\ writer = NoProc

Moves(p, from, to) == stage[p] = from /\ stage' = [stage EXCEPT ![p] = to]

Ask(p, n, op, allow_overwrite) ==
  /\ Moves(p, "idle", op)
  /\ name' = [name EXCEPT ![p] = n]
  /\ over' = [over EXCEPT ![p] = allow_overwrite]
  /\ result' = [result EXCEPT ![p] = "none"]
  /\ UNCHANGED <<table, writer>>

\* The instant at which the table changes: nobody else is writing.
Change(p, v) ==
  /\ writer = NoProc
  /\ table' = [table EXCEPT ![name[p]] = v]
  /\ writer' = p
  /\ UNCHANGED <<name, over, result>>

Register(p) == /\ table[name[p]] = NoProc \/ over[p]
               /\ Moves(p, "register", "registered")
               /\ Change(p, p)

Refuse(p) == /\ table[name[p]] # NoProc /\ ~over[p]
             /\ writer = NoProc
             /\ Moves(p, "register", "name_in_use")
             /\ UNCHANGED <<table, name, over, result, writer>>

Remove(p) == /\ Moves(p, "remove", "removed")
             /\ Change(p, NoProc)

Written(p) == /\ writer = p
              /\ writer' = NoProc
              /\ UNCHANGED <<table, stage, name, over, result>>

\* The call reports its outcome, when the file has been written.
Return(p) ==
  /\ stage[p] \in {"registered", "name_in_use", "removed"}
  /\ writer = NoProc
  /\ Moves(p, stage[p], "idle")
  /\ result' = [result EXCEPT ![p] = stage[p]]
  /\ UNCHANGED <<table, name, over, writer>>

Look(p, n) ==
  /\ stage[p] = "idle"
  /\ name' = [name EXCEPT ![p] = n]
  /\ result' = [result EXCEPT ![p] = IF writer = NoProc /\ table[n] # NoProc
                                     THEN "found" ELSE "not_found"]
  /\ UNCHANGED <<table, stage, over, writer>>

Die(p) ==
  /\ stage[p] # "idle"
  /\ stage' = [stage EXCEPT ![p] = "idle"]
  /\ table' = IF writer = p THEN EmptyTable ELSE table
  /\ writer' = IF writer = p THEN NoProc ELSE writer
  /\ UNCHANGED <<name, over, result>>

Next ==
  \E p \in Procs :
    \/ \E n \in Names, op \in {"register", "remove"}, o \in BOOLEAN : Ask(p, n, op, o)
    \/ \E n \in Names : Look(p, n)
    \/ Register(p) \/ Refuse(p) \/ Remove(p) \/ Written(p) \/ Return(p) \/ Die(p)

Spec == Init /\ [][Next]_<<table, stage, name, over, result, writer>>
================================================================================
