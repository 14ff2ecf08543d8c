------------------------------ MODULE RemoteCall ------------------------------
(***************************************************************************)
(* What core/dispatch.py promises to its callers.  A call is refused before *)
(* anything runs, or it is open until it is answered.  While it is open the *)
(* command that was asked for, and no other, may run, once; what it exits   *)
(* with is fixed when it ends.  The caller is told "ok" only of a command   *)
(* that ran and exited with 0, or of a check, which asks for no command and *)
(* so runs none.  Any other answer leaves open how far the command got.     *)
(***************************************************************************)
EXTENDS Integers

CONSTANT Nothing   \* no command

VARIABLES stage,   \* "idle", "open" or "answered"
          asked,   \* the command that was asked for
          ran,     \* the command that was executed
          code,    \* its exit code, -1 before its end
          verdict  \* what the caller was told

Init == /\ stage = "idle"
        /\ asked = Nothing /\ ran = Nothing /\ code = -1
        /\ verdict = "none"

Moves(from, to) == stage = from /\ stage' = to

\* Any command may be asked for.  Without a crossing it runs at once.
Submit == /\ Moves("idle", "open")
          /\ ran' \in {Nothing, asked'}
          /\ UNCHANGED <<code, verdict>>

Refuse == /\ Moves("idle", "answered")
          /\ verdict' = "refused"
          /\ UNCHANGED <<asked, ran, code>>

Execute == /\ Moves("open", "open")
           /\ ran = Nothing /\ asked # Nothing
           /\ ran' = asked
           /\ UNCHANGED <<asked, code, verdict>>

Finish == /\ Moves("open", "open")
          /\ ran # Nothing /\ code = -1
          /\ code' \in {0, 1}
          /\ UNCHANGED <<asked, ran, verdict>>

Done == asked = Nothing \/ (ran = asked /\ code = 0)

Answer == /\ Moves("open", "answered")
          /\ verdict' \in {"ok", "failed", "timed_out", "streamed"}
          /\ verdict' = "ok" => Done
          /\ UNCHANGED <<asked, ran, code>>

\* The caller has made use of the answer.
Forget == /\ Moves("answered", "idle")
          /\ asked' = Nothing /\ ran' = Nothing /\ code' = -1
          /\ verdict' = "none"

Next == Submit \/ Refuse \/ Execute \/ Finish \/ Answer \/ Forget

Spec == Init /\ [][Next]_<<stage, asked, ran, code, verdict>>
=============================================================================
