------------------------------- MODULE Dispatch -------------------------------
(***************************************************************************)
(* The crossing between the operator's orchestrator and the daemon's user: *)
(* core/dispatch.py and core/executor.py on one side, the dispatcher of    *)
(* templates/dispatch/main.go on the other, and the pipe that carries the  *)
(* op's output back.  The pipe is a sequence of lines; the dispatcher's own *)
(* lines (the frame and the markers of preflight) carry a nonce, and the   *)
(* exit code of the op is what the orchestrator reads off them.  The op's  *)
(* output is not trusted: it may hold lines of the same shape with a nonce *)
(* of an earlier crossing or of its own making.                            *)
(*                                                                         *)
(* A call is followed from its arguments to its verdict: validation, wire  *)
(* expansion, sudo, parsing by the dispatcher, exec, output, recovery of   *)
(* the exit code, and for preflight the gate that `start` and `init` put   *)
(* in front of everything else.  Any party may die and the caller may stop *)
(* waiting.                                                                *)
(***************************************************************************)
EXTENDS Integers, Sequences, FiniteSets, SequencesExt, Subnets

CONSTANTS Instances,  \* instance names
          FwdSlots,   \* slots the ledger may have given to an attached instance
          MaxCalls,   \* bound on crossings
          MaxNoise,   \* bound on untrusted lines in one crossing
          MaxQueryNoise  \* the same for preflight

ASSUME DispatchAssumption ==
  /\ Instances \cap {"--check", "--volumes", "bad"} = {}    \* the names are validated
  /\ FwdSlots \subseteq 0..(MAX_SLOTS - 1)
  /\ MaxCalls \in Nat /\ MaxNoise \in Nat /\ MaxQueryNoise \in Nat

SU == "separate-user"
OR == "operator-rootless"

NullaryOps == {"auth-probe", "compose-ls", "docker-version", "preflight"}
ComposeOps == {"compose-up", "compose-down", "compose-ps"}
StreamingOps == {"fwd"}
Ops == NullaryOps \cup ComposeOps \cup StreamingOps \cup
       {"docker-info", "docker-manifest-inspect", "helper-chown-files",
        "helper-mkdir-chown-dirs"}

-----------------------------------------------------------------------------
(* The arguments of a call and their wire form.  An argument is named for   *)
(* what it is: an instance, "preset", "ref", "path", "mode", "id", "name";  *)
(* "bad" stands for anything malformed.                                     *)

ArgsAre(args, from, to, kind) == \A i \in from..to : args[i] = kind

\* validate_args with the validator of each OpSpec.
Valid(op, args) ==
  CASE op \in NullaryOps -> args = <<>>
    [] op \in {"compose-up", "compose-ps", "fwd"} -> Len(args) = 1 /\ args[1] \in Instances
    [] op = "compose-down" -> /\ Len(args) \in 1..2 /\ args[1] \in Instances
                              /\ Len(args) = 2 => args[2] = "--volumes"
    [] op = "docker-info" -> args = <<"preset">>
    [] op = "docker-manifest-inspect" -> args = <<"ref">>
    [] op = "helper-chown-files" ->
         /\ Len(args) >= 5 /\ args[1] = "path" /\ args[2] = "mode"
         /\ ArgsAre(args, 3, 4, "id") /\ ArgsAre(args, 5, Len(args), "name")
    [] op = "helper-mkdir-chown-dirs" ->
         /\ Len(args) >= 4 /\ args[1] = "path"
         /\ ArgsAre(args, 2, 3, "id") /\ ArgsAre(args, 4, Len(args), "name")

\* compose_project_name; resolve_fwd_state adds the core's address on the ipc net.
Project(inst) == <<"operator", inst>>
CoreIpcIp(slot) == StaticIp(slot, <<"core", Ipc, 3>>)

\* A path is the sequence of its components.
InstanceDir(inst) == <<"home", "instances", inst>>
ComposeYml(inst) == InstanceDir(inst) \o <<"docker", "compose.yml">>
EnvFile(inst) == InstanceDir(inst) \o <<".sandbox.env">>
ExtraYml(inst, extra) == InstanceDir(inst) \o <<"docker", "extras", extra>>
ExtraFiles == {"db-postgres.yml", "mcp-firecrawl.yml"}

\* _resolve_compose_state: the files of the instance, by its enabled extras.
ComposeFiles(inst, extras) ==
  LET if_enabled(e) == IF e \in extras THEN <<ExtraYml(inst, e)>> ELSE <<>>
  IN  <<ComposeYml(inst)>> \o if_enabled("db-postgres.yml") \o if_enabled("mcp-firecrawl.yml")

Flag(name) == [flag |-> name, value |-> <<>>]
Value(v) == [flag |-> "none", value |-> v]

\* _expand_compose_wire and _expand_fwd_wire, without the leading instance.
ComposeWire(args, extras) ==
  LET files == ComposeFiles(args[1], extras)
      pairs == [i \in 1..(2 * Len(files)) |->
                  IF i % 2 = 1 THEN Flag("--compose-file") ELSE Value(files[i \div 2])]
  IN  <<Flag("--project"), Value(Project(args[1])), Flag("--env-file"),
        Value(EnvFile(args[1]))>>
      \o pairs \o (IF Len(args) = 2 THEN <<Flag("--volumes")>> ELSE <<>>)

FwdWire(args, slot) ==
  <<Flag("--project"), Value(Project(args[1])), Flag("--ip"), Value(CoreIpcIp(slot))>>

NoWire == [want |-> "none", project |-> <<>>, env |-> <<>>, ip |-> <<>>, files |-> <<>>,
           volumes |-> FALSE, ok |-> TRUE]

\* Mutant: --volumes is read like the flags that have a value.
BugParseToken(w, t) ==
  IF w.want = "none" THEN [w EXCEPT !.want = t.flag]
  ELSE CASE w.want = "--project" -> [w EXCEPT !.project = t.value, !.want = "none"]
         [] w.want = "--env-file" -> [w EXCEPT !.env = t.value, !.want = "none"]
         [] w.want = "--ip" -> [w EXCEPT !.ip = t.value, !.want = "none"]
         [] w.want = "--compose-file" -> [w EXCEPT !.files = Append(@, t.value), !.want = "none"]
         [] OTHER -> [w EXCEPT !.volumes = TRUE, !.want = "none"]

\* One turn of the loop of parseComposeWire, parseFwdWire and their Python
\* twins: a flag, then its value; --volumes has none and may come once.
ParseToken(w, t) ==
  CASE w.want = "none" /\ t.flag = "--volumes" -> [w EXCEPT !.volumes = TRUE,
                                                        !.ok = @ /\ ~w.volumes]
    [] w.want = "none" /\ t.flag # "--volumes" -> [w EXCEPT !.want = t.flag]
    [] w.want = "--project" -> [w EXCEPT !.project = t.value, !.want = "none",
                                         !.ok = @ /\ w.project = <<>>]
    [] w.want = "--env-file" -> [w EXCEPT !.env = t.value, !.want = "none",
                                          !.ok = @ /\ w.env = <<>>]
    [] w.want = "--ip" -> [w EXCEPT !.ip = t.value, !.want = "none", !.ok = @ /\ w.ip = <<>>]
    [] w.want = "--compose-file" -> [w EXCEPT !.files = Append(@, t.value), !.want = "none"]
    [] OTHER -> [w EXCEPT !.ok = FALSE]

\* The loop.
ParseWire(tokens) ==
  LET parsed[i \in 0..Len(tokens)] ==
        IF i = 0 THEN NoWire ELSE ParseToken(parsed[i - 1], tokens[i])
  IN  parsed[Len(tokens)]

\* What both sides ask of a parsed wire: the flags of the op, and none of the
\* other parser's, which are "unrecognized" to it.
Complete(op, w) ==
  /\ w.ok /\ w.want = "none" /\ w.project # <<>>
  /\ w.volumes => op = "compose-down"
  /\ IF op = "fwd" THEN w.ip # <<>> /\ w.env = <<>> /\ w.files = <<>>
     ELSE w.env # <<>> /\ w.files # <<>> /\ w.ip = <<>>

\* The charset of --project and its suffix rule.
ProjectOf(inst, project) == "bad" \notin ToSet(project) /\ project[Len(project)] = inst

\* Mutant: the second octet stops where one more /16 would not fit.
BugValidFwdIp(ip) == ip[1] \in 100..254

\* validateFwdIP: inside the superblock.
ValidFwdIp(ip) == ip[1] \in 100..255

\* composeEnvelopeBoundary: the place of <inst> below `instances`, 0 if none.
Boundary(path, inst) ==
  LET at == {i \in 2..(Len(path) - 1) : path[i - 1] = "instances" /\ path[i] = inst}
  IN  IF at = {} THEN 0 ELSE Min(at)

\* enforceComposeSymlinkSafety: from the boundary down to the file, each
\* component can be looked up and is no symbolic link.
Unlinked(path, inst, links) ==
  \A i \in Boundary(path, inst)..Len(path) : SubSeq(path, 1, i) \notin links

-----------------------------------------------------------------------------
(* The command that runs, as the op and what the wire contributes to it. *)

Command(op, args, w) ==
  [op |-> op, project |-> w.project, env |-> w.env, files |-> w.files, ip |-> w.ip,
   volumes |-> w.volumes,
   args |-> IF op \in ComposeOps \cup StreamingOps THEN <<>> ELSE args]

NoCommand == Command("none", <<>>, NoWire)

\* buildTargetArgv of the dispatcher fails on these.  It counts the arguments
\* of the helpers and leaves their form to the validators.
GoRejects(op, args, w) ==
  CASE op \in NullaryOps -> FALSE
    [] op = "docker-info" -> Len(args) # 1 \/ args[1] # "preset"
    [] op = "docker-manifest-inspect" -> Len(args) # 1
    [] op = "helper-chown-files" -> Len(args) < 5
    [] op = "helper-mkdir-chown-dirs" -> Len(args) < 4
    [] op \in ComposeOps ->
         \/ ~Complete(op, w) \/ ~ProjectOf(args[1], w.project)
         \/ \E f \in ToSet(w.files) \cup {w.env} : Boundary(f, args[1]) = 0
    [] op = "fwd" -> ~Complete(op, w) \/ ~ProjectOf(args[1], w.project) \/ ~ValidFwdIp(w.ip)

-----------------------------------------------------------------------------
(* The lines of the pipe.  nl: the line is ended by a newline. *)

Line(k, n, of, val, nl) == [k |-> k, n |-> n, of |-> of, val |-> val, nl |-> nl]
BeginLine(n) == Line("begin", n, "none", 0, TRUE)
ExitLine(n, code) == Line("exit", n, "none", code, TRUE)
QLine(n, name) == Line("q", n, name, 0, TRUE)
RcLine(n, name, code) == Line("rc", n, name, code, TRUE)

\* The output a query is asked for: val is 1 when it says what the check of
\* privilege_boundary.py looks for.
DataLine(name, val) == Line("data", 0, name, val, TRUE)

\* Anything else the op may print, a nonce of its own (0) or of an earlier
\* crossing in it or not.
Noise(n) ==
  {Line("text", 0, "none", 0, nl) : nl \in BOOLEAN}
  \cup {BeginLine(m) : m \in 0..(n - 1)} \cup {ExitLine(m, 0) : m \in 0..(n - 1)}
  \cup {RcLine(m, q, 0) : m \in 0..(n - 1), q \in {"docker-version"}}

\* The regular expressions of the executor match at the beginning of a line.
AtLineStart(out, i) == i = 1 \/ out[i - 1].nl

Places(out, k) == {i \in DOMAIN out : out[i].k = k}

\* The nonce of the first BEGIN line; 0 if there is none.
FrameNonce(out) ==
  LET begins == {i \in Places(out, "begin") : AtLineStart(out, i)}
  IN  IF begins = {} THEN 0 ELSE out[Min(begins)].n

\* Mutant: the last trailer counts, whoever printed it.
BugTrailers(out) == {i \in Places(out, "exit") : AtLineStart(out, i)}

\* The EXIT lines with the nonce of the frame.
Trailers(out) ==
  {i \in Places(out, "exit") : AtLineStart(out, i) /\ out[i].n = FrameNonce(out)}

\* _recover_inner_exit: -1 for "exit sentinel not found".
RecoveredExit(out) ==
  IF FrameNonce(out) = 0 \/ Trailers(out) = {} THEN -1 ELSE out[Max(Trailers(out))].val

-----------------------------------------------------------------------------
(* preflight: five queries in one crossing *)

\* _preflight_query_segments, in their order.
Queries == <<"auth-probe", "docker-version", "security-options", "runtimes", "compose-ls">>

\* Mutant: the markers carry no nonce, as they did once.
BugMarks(out, n, k, name) == {i \in Places(out, k) : out[i].of = name}

\* The markers of a query: its Q lines or its RC lines, wherever in a line.
Marks(out, n, k, name) == {i \in Places(out, k) : out[i].n = n /\ out[i].of = name}

\* Mutant: a segment that is there is a query that passed.
BugQueryOk(rc) == TRUE

QueryOk(rc) == rc.val = 0

\* The places of a query's markers, looked for behind the cursor.
After(S, cursor) == {i \in S : i > cursor}
QPlaces(lines, n, name, cursor) == After(Marks(lines, n, "q", name), cursor)
RcPlaces(lines, n, name, cursor) ==
  After(Marks(lines, n, "rc", name), Min(QPlaces(lines, n, name, cursor)))

\* Markers that come twice are not believed.
Found(lines, n, name, cursor) ==
  /\ \A k \in {"q", "rc"} : Cardinality(Marks(lines, n, k, name)) <= 1
  /\ QPlaces(lines, n, name, cursor) # {} /\ RcPlaces(lines, n, name, cursor) # {}

\* One turn of the loop over the queries: the cursor moves past the RC marker
\* that was read; a query that was ok has the lines between its markers.
ParseQuery(lines, n, st, name) ==
  IF n = 0 \/ ~Found(lines, n, name, st.cursor) THEN st
  ELSE LET from == Min(QPlaces(lines, n, name, st.cursor))
           to == Min(RcPlaces(lines, n, name, st.cursor))
       IN  IF QueryOk(lines[to])
           THEN [cursor |-> to, ok |-> st.ok \cup {name},
                 segment |-> [st.segment EXCEPT ![name] = SubSeq(lines, from + 1, to - 1)]]
           ELSE [st EXCEPT !.cursor = to]

NothingParsed == [cursor |-> 0, ok |-> {}, segment |-> [name \in ToSet(Queries) |-> <<>>]]

\* What parse_preflight_outcome makes of the queries: which were ok, and the
\* lines of their segments.
PerOp(lines, n) ==
  LET parsed[k \in 0..Len(Queries)] ==
        IF k = 0 THEN NothingParsed ELSE ParseQuery(lines, n, parsed[k - 1], Queries[k])
  IN  parsed[Len(Queries)]

\* The verdicts that make start give up.  docker_available wants some text;
\* docker_rootless a token among others; runsc JSON, which any line that
\* stderr adds to the segment spoils.  The other checks only warn or skip.
Available(p) == "docker-version" \in p.ok /\ p.segment["docker-version"] # <<>>
Rootless(p) == "security-options" \in p.ok
               /\ DataLine("security-options", 1) \in ToSet(p.segment["security-options"])
RunscRegistered(p) == "runtimes" \in p.ok /\ p.segment["runtimes"] = <<DataLine("runtimes", 1)>>

\* evaluate_preflight_gate, then interpret_preflight_bundle and its caller.
GateOpens(status, out, n) ==
  LET p == PerOp(out, n)
  IN  status = "ok" /\ "auth-probe" \in p.ok /\ Available(p) /\ Rootless(p) /\ RunscRegistered(p)

-----------------------------------------------------------------------------
VARIABLES
  calls,    \* crossings so far; the number of a crossing is its nonce
  pc,       \* where the crossing is
  req,      \* the call: via, mode, op, args
  wire,     \* the wire form the orchestrator sends, instance first
  site,     \* what the call meets: rule, links, daemon, slot, extras, registered
  out,      \* the pipe
  cmd,      \* the command that was executed
  inner,    \* its exit code; -1 before
  answers,  \* preflight: the exit codes of the queries done
  result,   \* status of the call, and the nonce probe returns with it
  harm      \* history: what went wrong around the op, if anything

vars == <<calls, pc, req, wire, site, out, cmd, inner, answers, result, harm>>

Vias == {"invoke", "probe", "proxy", "check"}
Daemons == [up : {TRUE}, rootless : BOOLEAN, runsc : BOOLEAN]
           \cup {[up |-> FALSE, rootless |-> FALSE, runsc |-> FALSE]}

NoReq == [via |-> "invoke", mode |-> OR, op |-> "auth-probe", args |-> <<"bad">>]
NoResult == [status |-> "none", nonce |-> 0]
AnySite == [rule |-> TRUE, links |-> {}, slot |-> 0, extras |-> {}, registered |-> TRUE,
            daemon |-> [up |-> TRUE, rootless |-> TRUE, runsc |-> TRUE]]

Init ==
  /\ calls = 0
  /\ pc = "idle"
  /\ req = NoReq /\ wire = <<>> /\ site = AnySite
  /\ out = <<>> /\ cmd = NoCommand /\ inner = -1 /\ answers = <<>>
  /\ result = NoResult
  /\ harm = "none"

nonce == calls

\* The caller has its answer.
Returns(status, n) ==
  /\ pc' = "returned"
  /\ result' = [status |-> status, nonce |-> n]

\* It is done with it; the next call knows nothing of this one but its nonce.
Forget ==
  /\ pc = "returned"
  /\ pc' = "idle"
  /\ req' = NoReq /\ wire' = <<>> /\ site' = AnySite
  /\ out' = <<>> /\ cmd' = NoCommand /\ inner' = -1 /\ answers' = <<>>
  /\ result' = NoResult /\ harm' = "none"
  /\ UNCHANGED calls

\* Only the probes are given a timeout; compose-ps is not.
Timed == req.via = "probe" /\ req.op # "compose-ps"

-----------------------------------------------------------------------------
(* The orchestrator's side of the call *)

\* The sites that matter to a call.
Sites(op, args) ==
  CASE ~Valid(op, args) -> {AnySite}
    [] op = "fwd" -> {[AnySite EXCEPT !.slot = s] : s \in FwdSlots}
    [] op \in ComposeOps ->
         {[AnySite EXCEPT !.registered = FALSE]} \cup
         {[AnySite EXCEPT !.extras = e] : e \in SUBSET ExtraFiles} \cup
         {[AnySite EXCEPT !.links = {l}] :
            l \in UNION {{InstanceDir(i), ComposeYml(i), EnvFile(i), <<"home">>} :
                           i \in Instances}}
    [] op = "preflight" -> {[AnySite EXCEPT !.daemon = d] : d \in Daemons}
    [] OTHER -> {AnySite}

\* Arguments as the callers give them, and some they must not give.
ArgLists == {<<>>, <<"bad">>, <<"preset">>, <<"ref">>, <<"path", "id", "id", "name">>,
             <<"path", "mode", "id", "id", "name">>, <<"path", "mode", "id", "id">>}
            \cup {<<i>> : i \in Instances} \cup {<<i, "--volumes">> : i \in Instances}
            \cup {<<i, "bad">> : i \in Instances}

\* _require_framed_op, _require_streaming_op, validate_args, and the lookup in
\* the registry: the call raises before anything is crossed.
Refused(r, s) ==
  \/ r.via \in {"invoke", "probe"} /\ r.op \in StreamingOps
  \/ r.via = "proxy" /\ r.op \notin StreamingOps
  \/ ~Valid(r.op, r.args)
  \/ r.op \in ComposeOps /\ ~s.registered

Expand(r, s) ==
  CASE r.op \in ComposeOps -> ComposeWire(r.args, s.extras)
    [] r.op = "fwd" -> FwdWire(r.args, s.slot)
    [] OTHER -> <<>>

\* build_invocation or proxy_argv.  Rootless, the target argv is built here
\* and run without a crossing; proxy_argv's is run by the ssh client.
Call(r, s) ==
  /\ calls' = calls + 1
  /\ req' = r /\ site' = s
  /\ IF Refused(r, s)
     THEN Returns("refused", 0) /\ UNCHANGED <<wire, cmd>>
     ELSE /\ UNCHANGED result
          /\ wire' = Expand(r, s)
          /\ IF r.mode = OR
             THEN pc' = "bash" /\ cmd' = Command(r.op, r.args, ParseWire(wire'))
             ELSE pc' = "sudo" /\ UNCHANGED cmd
  /\ UNCHANGED <<out, inner, answers, harm>>

\* L3a and L8 cross `dispatch <op> --check` in the same way.
CallCheck(op, s) ==
  /\ calls' = calls + 1
  /\ req' = [via |-> "check", mode |-> SU, op |-> op, args |-> <<"--check">>]
  /\ site' = s
  /\ pc' = "sudo"
  /\ UNCHANGED <<wire, out, cmd, inner, answers, result, harm>>

\* sudo has no rule for the command; nothing is printed on stdout.
SudoRefuses ==
  /\ pc = "sudo" /\ ~site.rule
  /\ pc' = "eof"
  /\ harm' = "sudo"
  /\ UNCHANGED <<calls, req, wire, site, out, cmd, inner, answers, result>>

-----------------------------------------------------------------------------
(* The dispatcher *)

IsCheck == req.args = <<"--check">>

\* Mutant: the streaming op is framed like the others.
BugIsStream == FALSE

\* isStreamInvocation
IsStream == req.op = "fwd" /\ ~IsCheck

\* dispatch(): the nonce, and the BEGIN line before anything else.
Announce ==
  /\ pc = "sudo" /\ site.rule
  /\ ~IsStream
  /\ pc' = "dispatcher"
  /\ out' = <<BeginLine(nonce)>>
  /\ UNCHANGED <<calls, req, wire, site, cmd, inner, answers, result, harm>>

\* No randomness, no BEGIN line.
NonceFails ==
  /\ pc = "sudo" /\ site.rule
  /\ ~IsStream
  /\ pc' = "eof"
  /\ harm' = "nonce"
  /\ UNCHANGED <<calls, req, wire, site, out, cmd, inner, answers, result>>

\* runStream: no line of its own; the target is executed as it is.
OpenStream ==
  /\ pc = "sudo" /\ site.rule
  /\ IsStream
  /\ LET w == ParseWire(wire)
     IN  IF GoRejects(req.op, req.args, w)
         THEN pc' = "eof" /\ UNCHANGED cmd
         ELSE pc' = "bash" /\ cmd' = Command(req.op, req.args, w)
  /\ UNCHANGED <<calls, req, wire, site, out, inner, answers, result, harm>>

\* run() returned: the dispatcher writes the trailer itself.
GoReturns(code, h) ==
  /\ pc' = "eof"
  /\ out' = Append(out, ExitLine(nonce, code))
  /\ harm' = h
  /\ UNCHANGED <<calls, req, wire, site, cmd, inner, answers, result>>

GoCheck ==
  /\ pc = "dispatcher" /\ IsCheck
  /\ GoReturns(0, "none")

LinkInTheWay(w) ==
  /\ req.op \in ComposeOps
  /\ \E f \in ToSet(w.files) \cup {w.env} : ~Unlinked(f, req.args[1], site.links)

GoReject ==
  /\ pc = "dispatcher" /\ ~IsCheck
  /\ LET w == ParseWire(wire)
     IN  GoRejects(req.op, req.args, w) \/ LinkInTheWay(w)
  /\ GoReturns(1, "none")

\* wrapSentinel and syscall.Exec.
GoExec ==
  /\ pc = "dispatcher" /\ ~IsCheck
  /\ LET w == ParseWire(wire)
     IN  /\ ~GoRejects(req.op, req.args, w) /\ ~LinkInTheWay(w)
         /\ cmd' = Command(req.op, req.args, w)
  /\ pc' = "bash"
  /\ UNCHANGED <<calls, req, wire, site, out, inner, answers, result, harm>>

\* The kernel refuses (126), or there is no such file (127).
GoExecFails ==
  /\ pc = "dispatcher" /\ ~IsCheck
  /\ ~GoRejects(req.op, req.args, ParseWire(wire)) /\ ~LinkInTheWay(ParseWire(wire))
  /\ GoReturns(126, "exec")

-----------------------------------------------------------------------------
(* The op *)

Untrusted == {"text", "begin", "exit", "rc"}
NoiseSoFar ==
  Cardinality({i \in DOMAIN out : out[i].k \in Untrusted
                 /\ (out[i].k = "text" \/ out[i].n # nonce)})

\* It prints something.
Prints(line) ==
  /\ pc \in {"bash", "query"}
  /\ NoiseSoFar < IF req.op = "preflight" THEN MaxQueryNoise ELSE MaxNoise
  /\ out' = Append(out, line)
  /\ UNCHANGED <<calls, pc, req, wire, site, cmd, inner, answers, result, harm>>

\* An op other than preflight ends; rootless, and in a stream, that is the
\* end of the pipe.
OpEnds(code) ==
  /\ pc = "bash" /\ req.op # "preflight"
  /\ inner' = code
  /\ pc' = IF req.mode = SU /\ ~IsStream THEN "trailer" ELSE "eof"
  /\ UNCHANGED <<calls, req, wire, site, out, cmd, answers, result, harm>>

\* Mutant: a brace group, not a subshell: an op that exits takes the shell
\* that would write the trailer with it.
BugWriteTrailer ==
  /\ pc = "trailer"
  /\ out' = IF inner = 0 THEN Append(out, ExitLine(nonce, inner)) ELSE out
  /\ pc' = "eof"
  /\ UNCHANGED <<calls, req, wire, site, cmd, inner, answers, result, harm>>

\* The shell around the op echoes its exit code.
WriteTrailer ==
  /\ pc = "trailer"
  /\ out' = Append(out, ExitLine(nonce, inner))
  /\ pc' = "eof"
  /\ UNCHANGED <<calls, req, wire, site, cmd, inner, answers, result, harm>>

\* _preflight_inner: the marker, the query, its exit code, for each in turn.
Query == Queries[Len(answers) + 1]

AskQuery ==
  /\ pc = "bash" /\ req.op = "preflight" /\ Len(answers) < Len(Queries)
  /\ out' = Append(out, QLine(nonce, Query))
  /\ pc' = "query"
  /\ UNCHANGED <<calls, req, wire, site, cmd, inner, answers, result, harm>>

\* What the daemon has to say: 1 when the check is content with it.
Says(name) ==
  CASE name = "security-options" -> IF site.daemon.rootless THEN 1 ELSE 0
    [] name = "runtimes" -> IF site.daemon.runsc THEN 1 ELSE 0
    [] OTHER -> 1

\* A query of a daemon that is down fails, and any of them may; `echo ok` works.
AnswerQuery(code) ==
  /\ pc = "query"
  /\ Query = "auth-probe" => code = 0
  /\ Query # "auth-probe" /\ ~site.daemon.up => code = 1
  /\ out' = out \o (IF code = 0 THEN <<DataLine(Query, Says(Query))>>
                                ELSE <<Line("error", 0, "none", 0, TRUE)>>)
                \o <<RcLine(nonce, Query, code)>>
  /\ answers' = Append(answers, code)
  /\ pc' = "bash"
  /\ UNCHANGED <<calls, req, wire, site, cmd, inner, result, harm>>

\* The exit code of the bundle is that of its last echo.
PreflightEnds ==
  /\ pc = "bash" /\ req.op = "preflight" /\ Len(answers) = Len(Queries)
  /\ inner' = 0
  /\ pc' = IF req.mode = SU THEN "trailer" ELSE "eof"
  /\ UNCHANGED <<calls, req, wire, site, out, cmd, answers, result, harm>>

\* sudo, the dispatcher or the op is killed and the pipe ends where it is.
Dies ==
  /\ pc \in {"sudo", "dispatcher", "bash", "query", "trailer"}
  /\ pc' = "eof"
  /\ harm' = "died"
  /\ UNCHANGED <<calls, req, wire, site, out, cmd, inner, answers, result>>

-----------------------------------------------------------------------------
(* The verdict *)

\* Rootless, the exit code is the child's; a child that was killed has one
\* that is not 0.
ExitCode == IF req.mode = SU THEN RecoveredExit(out) ELSE inner

\* Executor.run and _invoke_with_nonce; probe turns the exception into an
\* outcome.  A stream's outcome is looked at by nobody.
Return ==
  /\ pc = "eof"
  /\ IF IsStream THEN Returns("streamed", 0)
     ELSE IF ExitCode = 0
     THEN Returns("ok", IF req.mode = SU THEN FrameNonce(out)
                        ELSE IF req.op = "preflight" THEN nonce ELSE 0)
     ELSE Returns("failed", 0)
  /\ UNCHANGED <<calls, req, wire, site, out, cmd, inner, answers, harm>>

\* TimeoutExpired: the caller goes on, whatever the op does.
TimesOut ==
  /\ pc \notin {"idle", "returned"} /\ Timed
  /\ Returns("timed_out", 0)
  /\ harm' = "timeout"
  /\ UNCHANGED <<calls, req, wire, site, out, cmd, inner, answers>>

NewCall ==
  /\ pc = "idle" /\ calls < MaxCalls
  /\ \/ \E via \in {"invoke", "probe", "proxy"}, mode \in {SU, OR}, op \in Ops, args \in ArgLists :
          \E s \in Sites(op, args), rule \in {TRUE, mode = OR} :
            Call([via |-> via, mode |-> mode, op |-> op, args |-> args],
                 [s EXCEPT !.rule = rule])
     \/ \E op \in Ops, rule \in BOOLEAN : CallCheck(op, [AnySite EXCEPT !.rule = rule])

Next ==
  \/ NewCall
  \/ SudoRefuses
  \/ Announce \/ NonceFails \/ OpenStream
  \/ GoCheck \/ GoReject \/ GoExec \/ GoExecFails
  \/ \E line \in Noise(nonce) : Prints(line)
  \/ \E code \in 0..1 : OpEnds(code)
  \/ WriteTrailer
  \/ AskQuery
  \/ \E code \in 0..1 : AnswerQuery(code)
  \/ PreflightEnds
  \/ Dies \/ Return \/ TimesOut \/ Forget

Spec == Init /\ [][Next]_vars

-----------------------------------------------------------------------------
(* Properties *)

\* Every variable has its type (ProbeOutcome, the frame of the executor).
TypeOK ==
  /\ calls \in 0..MaxCalls
  /\ pc \in {"idle", "sudo", "dispatcher", "bash", "query", "trailer", "eof", "returned"}
  /\ req.via \in Vias /\ req.mode \in {SU, OR} /\ req.op \in Ops
  /\ \A i \in DOMAIN out : out[i].n \in 0..nonce
  /\ inner \in -1..1
  /\ Len(answers) <= Len(Queries)
  /\ result.status \in {"none", "ok", "failed", "timed_out", "refused", "streamed"}
  /\ result.nonce \in {0, nonce}

\* What the caller asked for, without the detour over the wire.
Asked ==
  LET named == req.op \in ComposeOps \cup StreamingOps
      composed == req.op \in ComposeOps
  IN  [op |-> req.op,
       project |-> IF named THEN Project(req.args[1]) ELSE <<>>,
       env |-> IF composed THEN EnvFile(req.args[1]) ELSE <<>>,
       files |-> IF composed THEN ComposeFiles(req.args[1], site.extras) ELSE <<>>,
       ip |-> IF req.op = "fwd" THEN CoreIpcIp(site.slot) ELSE <<>>,
       volumes |-> "--volumes" \in ToSet(req.args),
       args |-> IF named THEN <<>> ELSE req.args]

\* A call that succeeds has run exactly the command that was asked for, and it
\* exited with 0, whatever the op printed and whoever died: success is never
\* read off a forged, stale or missing trailer.  A --check that succeeds has
\* run nothing, and was authorised.
OkMeansDone ==
  result.status = "ok" =>
    IF req.via = "check" THEN site.rule /\ cmd = NoCommand
    ELSE cmd = Asked /\ inner = 0

\* A call fails only because the op failed, a path inside the instance's tree is
\* a link, or something went wrong around it: nothing the op prints on lines of
\* its own makes a success a failure, and the dispatcher refuses nothing that the
\* validators let through.
UnharmedCallSucceeds ==
  (result.status = "failed" /\ harm = "none" /\ \A i \in DOMAIN out : out[i].nl)
  => \/ inner = 1
     \/ \E l \in site.links : IsPrefix(InstanceDir(req.args[1]), l)

\* The dispatcher writes the trailer exactly once on every path of a framed
\* crossing that is not cut short: rejected, checked, not executable, or run.
TrailerOnce ==
  LET own == {i \in Places(out, "exit") : out[i].n = nonce}
  IN  /\ Cardinality(own) <= 1
      /\ (/\ result.status \in {"ok", "failed"} /\ req.mode = SU
          /\ harm \in {"none", "exec"})
         => Cardinality(own) = 1

\* In a stream the dispatcher writes nothing: every byte is the op's.
StreamIsRaw ==
  req.via = "proxy" /\ req.op = "fwd" => \A i \in DOMAIN out : out[i].n # nonce

\* A stream that was let through leads to the core of the attached instance,
\* for every slot the ledger can give it, and its address is that of no other.
StreamReachesItsCore ==
  result.status = "streamed" /\ harm = "none" =>
    /\ cmd = Asked
    /\ ((cmd.ip[1] - 100) * 256 + cmd.ip[2]) \div 5 = site.slot

\* start and init go on only when the daemon really answered, is rootless and
\* has runsc: no query is taken for passed that failed, was not reached, or
\* whose answer another query or an older crossing gave.
GateMeansHealthy ==
  (/\ pc = "returned" /\ req.op = "preflight"
   /\ GateOpens(result.status, out, result.nonce))
  => /\ site.daemon.up /\ site.daemon.rootless /\ site.daemon.runsc
     /\ Len(answers) = Len(Queries) /\ \A i \in 1..4 : answers[i] = 0

\* They do go on when every query passed and the bundle arrived, unless
\* something was printed into the runtimes query, whose answer is JSON.
HealthyGateOpens ==
  (/\ result.status = "ok" /\ req.op = "preflight" /\ req.via # "check"
   /\ site.daemon.up /\ site.daemon.rootless /\ site.daemon.runsc
   /\ \A i \in 1..4 : answers[i] = 0
   /\ \E i \in DOMAIN out : out[i] = QLine(nonce, "runtimes")
                             /\ out[i + 2] = RcLine(nonce, "runtimes", 0))
  => GateOpens(result.status, out, result.nonce)

\* The call as its caller sees it.
CallStage == CASE pc = "idle" -> "idle"
               [] pc = "returned" -> "answered"
               [] OTHER -> "open"

\* A refused call and a --check ask for no command.
CallAsked == IF pc = "idle" \/ req.via = "check" \/ result.status = "refused"
             THEN NoCommand ELSE Asked

Remote == INSTANCE RemoteCall
            WITH Nothing <- NoCommand, stage <- CallStage, asked <- CallAsked, ran <- cmd,
                 code <- inner, verdict <- result.status

\* Validation, wire, sudo, dispatcher, frame and recovery amount to one call:
\* nothing but the command that was asked for ever runs, at most once, whatever
\* becomes of the call, and "ok" is said only of a command that exited with 0.
ImplementsCall == Remote!Spec
=============================================================================
