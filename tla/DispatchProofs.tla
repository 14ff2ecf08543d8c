---------------------------- MODULE DispatchProofs ----------------------------
(***************************************************************************)
(* What the crossing promises, for any set of instances, any number of     *)
(* calls and any amount of untrusted output.                               *)
(*                                                                         *)
(* The first part is about the operators: what the dispatcher parses is    *)
(* what the orchestrator expanded, for every valid call.  The second part  *)
(* is an invariant of the crossing: where the dispatcher's own lines can be *)
(* in the pipe and what they say.  The properties follow from the two, and *)
(* in the third part that every step is one of the abstract RemoteCall.    *)
(***************************************************************************)
EXTENDS Dispatch, TLAPS, SequenceTheorems, FiniteSetTheorems, WellFoundedInduction

-----------------------------------------------------------------------------
(* Induction, with the property as the set of the numbers that have it *)

\* A set of natural numbers has a least element.
LEMMA LeastNumber ==
  ASSUME NEW T, T \subseteq Nat, T # {}
  PROVE  \E x \in T : \A y \in T : x <= y
<1> DEFINE R == {ss \in Nat \X Nat : ss[1] < ss[2]}
<1>1. IsWellFoundedOn(R, Nat)
  BY NatLessThanWellFounded DEF OpToRel
<1> HIDE DEF R
<1>2. PICK x \in T : \A y \in T : ~(<<y, x>> \in R)
  BY <1>1, WFMin
<1>3. \A y \in T : ~(y < x)
  BY <1>2 DEF R
<1> QED
  BY <1>3

\* What holds of 0 and is handed on holds of every number.
LEMMA Induction ==
  ASSUME NEW G, 0 \in G, \A n \in Nat : n \in G => n + 1 \in G
  PROVE  Nat \subseteq G
<1>1. SUFFICES ASSUME Nat \ G # {} PROVE FALSE
  OBVIOUS
<1>2. PICK x \in Nat \ G : \A y \in Nat \ G : x <= y
  BY <1>1, LeastNumber
<1>3. x # 0 /\ x - 1 \in Nat
  OBVIOUS
<1>4. x - 1 \in G
  BY <1>2, <1>3
<1> QED
  BY <1>3, <1>4

\* The least element of a set of numbers is in it.
LEMMA MinFacts ==
  ASSUME NEW T, T \subseteq Nat, T # {}
  PROVE  Min(T) \in T /\ \A y \in T : Min(T) <= y
<1>1. \E x \in T : \A y \in T : x <= y
  BY LeastNumber
<1> QED
  BY <1>1 DEF Min

\* The only element of a set is its least and its greatest.
LEMMA OnlyElement ==
  ASSUME NEW x \in Nat
  PROVE  Min({x}) = x /\ Max({x}) = x
  BY DEF Min, Max

-----------------------------------------------------------------------------
(* The loop of the parsers *)

IsParse(f, tokens, n) ==
  f = [i \in 0..n |-> IF i = 0 THEN NoWire ELSE ParseToken(f[i - 1], tokens[i])]

\* The loop goes through any number of tokens.
LEMMA ParseExists == \A tokens : \A n \in Nat : \E f : IsParse(f, tokens, n)
<1> TAKE tokens
<1> DEFINE G == {n \in Nat : \E f : IsParse(f, tokens, n)}
<1>1. 0 \in G
  <2> DEFINE f == [i \in 0..0 |-> NoWire]
  <2>1. IsParse(f, tokens, 0)
    BY DEF IsParse
  <2> QED
    BY <2>1
<1>2. \A n \in Nat : n \in G => n + 1 \in G
  <2> SUFFICES ASSUME NEW n \in Nat, NEW f, IsParse(f, tokens, n) PROVE n + 1 \in G
    OBVIOUS
  <2> DEFINE g == [i \in 0..(n + 1) |-> IF i = n + 1 THEN ParseToken(f[n], tokens[i]) ELSE f[i]]
  <2>1. \A i \in 0..(n + 1) : g[i] = IF i = 0 THEN NoWire ELSE ParseToken(g[i - 1], tokens[i])
    BY DEF IsParse
  <2>2. IsParse(g, tokens, n + 1)
    BY <2>1, Zenon DEF IsParse
  <2> QED
    BY <2>2
<1> HIDE DEF G
<1>3. Nat \subseteq G
  BY <1>1, <1>2, Induction
<1> QED
  BY <1>3 DEF G

\* The result of the loop, with the states it goes through.
LEMMA ParseStates ==
  ASSUME NEW tokens, Len(tokens) \in Nat
  PROVE  \E f : /\ f[0] = NoWire
                /\ \A i \in 1..Len(tokens) : f[i] = ParseToken(f[i - 1], tokens[i])
                /\ ParseWire(tokens) = f[Len(tokens)]
<1> DEFINE f == CHOOSE g : IsParse(g, tokens, Len(tokens))
<1>1. \E g : IsParse(g, tokens, Len(tokens))
  BY ParseExists
<1>2. IsParse(f, tokens, Len(tokens))
  BY <1>1
<1>3. ParseWire(tokens) = f[Len(tokens)]
  BY DEF ParseWire, IsParse
<1> HIDE DEF f
<1>4. f[0] = NoWire
  BY <1>2 DEF IsParse
<1>5. \A i \in 1..Len(tokens) : f[i] = ParseToken(f[i - 1], tokens[i])
  BY <1>2 DEF IsParse
<1> QED
  BY <1>3, <1>4, <1>5

\* A parsed wire that is right so far.
Parsed(want, project, env, ip, files) ==
  [want |-> want, project |-> project, env |-> env, ip |-> ip, files |-> files,
   volumes |-> FALSE, ok |-> TRUE]

WithVolumes(w) == [w EXCEPT !.volumes = TRUE]

\* A flag is remembered until its value comes.
LEMMA FlagTokens ==
  ASSUME NEW P, NEW E, NEW I, NEW F
  PROVE  /\ \A want \in {"--project", "--env-file", "--ip", "--compose-file"} :
              ParseToken(Parsed("none", P, E, I, F), Flag(want)) = Parsed(want, P, E, I, F)
         /\ ParseToken(Parsed("none", P, E, I, F), Flag("--volumes"))
              = WithVolumes(Parsed("none", P, E, I, F))
  BY DEF ParseToken, Parsed, WithVolumes, Flag

\* The values that may come once.
LEMMA ProjectValue ==
  ASSUME NEW E, NEW I, NEW F, NEW v
  PROVE  ParseToken(Parsed("--project", <<>>, E, I, F), Value(v)) = Parsed("none", v, E, I, F)
  BY DEF ParseToken, Parsed, Value

\* The value of --env-file.
LEMMA EnvValue ==
  ASSUME NEW P, NEW I, NEW F, NEW v
  PROVE  ParseToken(Parsed("--env-file", P, <<>>, I, F), Value(v)) = Parsed("none", P, v, I, F)
  BY DEF ParseToken, Parsed, Value

\* The value of --ip.
LEMMA IpValue ==
  ASSUME NEW P, NEW E, NEW F, NEW v
  PROVE  ParseToken(Parsed("--ip", P, E, <<>>, F), Value(v)) = Parsed("none", P, E, v, F)
  BY DEF ParseToken, Parsed, Value

\* Any number of compose files.
LEMMA FileValue ==
  ASSUME NEW P, NEW E, NEW I, NEW F, NEW v
  PROVE  ParseToken(Parsed("--compose-file", P, E, I, F), Value(v))
           = Parsed("none", P, E, I, Append(F, v))
  BY DEF ParseToken, Parsed, Value

-----------------------------------------------------------------------------
(* The wire *)

\* The dispatcher reads off the wire of a stream what was put on it.
LEMMA FwdRoundTrip ==
  ASSUME NEW args, NEW slot
  PROVE  ParseWire(FwdWire(args, slot))
           = Parsed("none", Project(args[1]), <<>>, CoreIpcIp(slot), <<>>)
<1> DEFINE P == Project(args[1])
           ip == CoreIpcIp(slot)
           tokens == <<Flag("--project"), Value(P), Flag("--ip"), Value(ip)>>
<1>1. FwdWire(args, slot) = tokens /\ Len(tokens) = 4
  BY DEF FwdWire
<1>2. PICK f : /\ f[0] = NoWire
               /\ \A i \in 1..4 : f[i] = ParseToken(f[i - 1], tokens[i])
               /\ ParseWire(tokens) = f[4]
  BY <1>1, ParseStates
<1>3. f[0] = Parsed("none", <<>>, <<>>, <<>>, <<>>)
  BY <1>2 DEF NoWire, Parsed
<1>4. f[1] = ParseToken(f[0], Flag("--project")) /\ f[2] = ParseToken(f[1], Value(P))
      /\ f[3] = ParseToken(f[2], Flag("--ip")) /\ f[4] = ParseToken(f[3], Value(ip))
  BY <1>2
<1> HIDE DEF P, ip, tokens
<1>5. f[1] = Parsed("--project", <<>>, <<>>, <<>>, <<>>)
  BY <1>3, <1>4, FlagTokens
<1>6. f[2] = Parsed("none", P, <<>>, <<>>, <<>>)
  BY <1>4, <1>5, ProjectValue
<1>7. f[3] = Parsed("--ip", P, <<>>, <<>>, <<>>)
  BY <1>4, <1>6, FlagTokens
<1>8. f[4] = Parsed("none", P, <<>>, ip, <<>>)
  BY <1>4, <1>7, IpValue
<1> QED
  BY <1>1, <1>2, <1>8 DEF P, ip

\* The compose files of an instance, each a place in its tree.
FilesOf(inst) == {ComposeYml(inst)} \cup {ExtraYml(inst, e) : e \in ExtraFiles}

\* The files of an instance are paths of its tree, and there is one at least.
LEMMA ComposeFilesFacts ==
  ASSUME NEW inst, NEW extras
  PROVE  ComposeFiles(inst, extras) \in Seq(FilesOf(inst)) /\ ComposeFiles(inst, extras) # <<>>
<1> DEFINE S == FilesOf(inst)
           a == <<ComposeYml(inst)>>
           b == IF "db-postgres.yml" \in extras
                THEN <<ExtraYml(inst, "db-postgres.yml")>> ELSE <<>>
           c == IF "mcp-firecrawl.yml" \in extras
                THEN <<ExtraYml(inst, "mcp-firecrawl.yml")>> ELSE <<>>
<1>1. a \in Seq(S) /\ b \in Seq(S) /\ c \in Seq(S) /\ Len(a) = 1
  <2>1. ComposeYml(inst) \in S /\ ExtraYml(inst, "db-postgres.yml") \in S
        /\ ExtraYml(inst, "mcp-firecrawl.yml") \in S
    BY DEF FilesOf, ExtraFiles
  <2> HIDE DEF S
  <2> QED
    BY <2>1
<1>2. ComposeFiles(inst, extras) = a \o b \o c
  BY DEF ComposeFiles
<1> HIDE DEF S, a, b, c
<1>3. a \o b \in Seq(S) /\ Len(a \o b) >= 1
  BY <1>1, ConcatProperties, LenProperties
<1>4. a \o b \o c \in Seq(S) /\ Len(a \o b \o c) >= 1
  BY <1>1, <1>3, ConcatProperties, LenProperties
<1> QED
  BY <1>2, <1>4 DEF S

\* The tokens of a compose wire, place by place.
LEMMA ComposeTokens ==
  ASSUME NEW args, Len(args) \in 1..2, NEW extras
  PROVE  LET tokens == ComposeWire(args, extras)
             files == ComposeFiles(args[1], extras)
             n == Len(files)
         IN  /\ tokens[1] = Flag("--project") /\ tokens[2] = Value(Project(args[1]))
             /\ tokens[3] = Flag("--env-file") /\ tokens[4] = Value(EnvFile(args[1]))
             /\ \A j \in 1..n : /\ tokens[4 + 2 * j - 1] = Flag("--compose-file")
                                /\ tokens[4 + 2 * j] = Value(files[j])
             /\ Len(args) = 1 => Len(tokens) = 4 + 2 * n
             /\ Len(args) = 2 => Len(tokens) = 5 + 2 * n /\ tokens[5 + 2 * n] = Flag("--volumes")
<1> DEFINE files == ComposeFiles(args[1], extras)
           n == Len(files)
           P == Project(args[1])
           E == EnvFile(args[1])
           head == <<Flag("--project"), Value(P), Flag("--env-file"), Value(E)>>
           pairs == [i \in 1..(2 * n) |->
                       IF i % 2 = 1 THEN Flag("--compose-file") ELSE Value(files[i \div 2])]
           last == IF Len(args) = 2 THEN <<Flag("--volumes")>> ELSE <<>>
           T == {Flag("--project"), Value(P), Flag("--env-file"), Value(E),
                 Flag("--compose-file"), Flag("--volumes")} \cup {Value(files[j]) : j \in 1..n}
<1>1. n \in Nat
  BY ComposeFilesFacts, LenProperties
<1> HIDE DEF files, n
<1>2. pairs \in Seq(T) /\ Len(pairs) = 2 * n
  <2>1. \A i \in 1..(2 * n) : pairs[i] \in T
    <3> TAKE i \in 1..(2 * n)
    <3>1. i % 2 # 1 => i \div 2 \in 1..n
      BY <1>1
    <3> QED
      BY <3>1
  <2>2. 2 * n \in Nat
    BY <1>1
  <2> QED
    BY <2>1, <2>2
<1>3. \A j \in 1..n : pairs[2 * j - 1] = Flag("--compose-file") /\ pairs[2 * j] = Value(files[j])
  <2> TAKE j \in 1..n
  <2>1. (2 * j - 1) % 2 = 1 /\ (2 * j) % 2 = 0 /\ (2 * j) \div 2 = j
    BY <1>1
  <2>2. 2 * j - 1 \in 1..(2 * n) /\ 2 * j \in 1..(2 * n)
    BY <1>1
  <2> QED
    BY <2>1, <2>2
<1>4. head \in Seq(T) /\ Len(head) = 4 /\ last \in Seq(T)
      /\ (Len(args) = 1 => Len(last) = 0)
      /\ (Len(args) = 2 => Len(last) = 1 /\ last[1] = Flag("--volumes"))
  <2>1. Flag("--project") \in T /\ Value(P) \in T /\ Flag("--env-file") \in T
        /\ Value(E) \in T /\ Flag("--volumes") \in T
    OBVIOUS
  <2> HIDE DEF T
  <2>2. head \in Seq(T) /\ Len(head) = 4
    BY <2>1
  <2>3. last \in Seq(T)
    BY <2>1
  <2> QED
    BY <2>2, <2>3
<1>5. head[1] = Flag("--project") /\ head[2] = Value(P) /\ head[3] = Flag("--env-file")
      /\ head[4] = Value(E)
  OBVIOUS
<1>6. ComposeWire(args, extras) = (head \o pairs) \o last
  BY DEF ComposeWire, files, n
<1> HIDE DEF head, pairs, last, T
<1>7. head \o pairs \in Seq(T) /\ Len(head \o pairs) = 4 + 2 * n
      /\ (\A i \in 1..4 : (head \o pairs)[i] = head[i])
      /\ (\A i \in 1..(2 * n) : (head \o pairs)[4 + i] = pairs[i])
  <2>1. head \o pairs \in Seq(T) /\ Len(head \o pairs) = Len(head) + Len(pairs)
        /\ \A i \in 1..(Len(head) + Len(pairs)) :
             (head \o pairs)[i] = IF i <= Len(head) THEN head[i] ELSE pairs[i - Len(head)]
    BY <1>2, <1>4, ConcatProperties
  <2> QED
    BY <1>1, <1>2, <1>4, <2>1
<1> DEFINE tokens == (head \o pairs) \o last
<1>8. Len(tokens) = 4 + 2 * n + Len(last)
      /\ (\A i \in 1..(4 + 2 * n) : tokens[i] = (head \o pairs)[i])
      /\ (Len(last) = 1 => tokens[5 + 2 * n] = last[1])
  <2>1. Len(tokens) = Len(head \o pairs) + Len(last) /\ Len(last) \in Nat
        /\ \A i \in 1..(Len(head \o pairs) + Len(last)) :
             tokens[i] = IF i <= Len(head \o pairs) THEN (head \o pairs)[i]
                         ELSE last[i - Len(head \o pairs)]
    BY <1>4, <1>7, ConcatProperties, LenProperties
  <2> QED
    BY <1>1, <1>7, <2>1
<1> HIDE DEF tokens
<1>9. ASSUME NEW j \in 1..n
      PROVE  tokens[4 + 2 * j - 1] = Flag("--compose-file") /\ tokens[4 + 2 * j] = Value(files[j])
  <2>1. 2 * j - 1 \in 1..(2 * n) /\ 2 * j \in 1..(2 * n) /\ 4 + 2 * j - 1 = 4 + (2 * j - 1)
    BY <1>1
  <2>2. 4 + (2 * j - 1) \in 1..(4 + 2 * n) /\ 4 + 2 * j \in 1..(4 + 2 * n)
    BY <1>1
  <2> QED
    BY <1>3, <1>7, <1>8, <2>1, <2>2
<1>10. tokens[1] = head[1] /\ tokens[2] = head[2] /\ tokens[3] = head[3] /\ tokens[4] = head[4]
  BY <1>1, <1>7, <1>8
<1>11. /\ Len(args) = 1 => Len(tokens) = 4 + 2 * n
       /\ Len(args) = 2 => Len(tokens) = 5 + 2 * n /\ tokens[5 + 2 * n] = Flag("--volumes")
  <2>1. ASSUME Len(last) = 0 PROVE Len(tokens) = 4 + 2 * n
    BY <1>1, <1>8, <2>1
  <2>2. ASSUME Len(last) = 1 PROVE Len(tokens) = 5 + 2 * n /\ tokens[5 + 2 * n] = last[1]
    BY <1>1, <1>8, <2>2
  <2> QED
    BY <1>4, <2>1, <2>2
<1>12. ComposeWire(args, extras) = tokens
  BY <1>6 DEF tokens
<1> QED
  BY <1>5, <1>9, <1>10, <1>11, <1>12, Zenon DEF files, n, P, E

\* The dispatcher reads off a compose wire what was put on it, for any files.
LEMMA ComposeRoundTrip ==
  ASSUME NEW args, Len(args) \in 1..2, NEW extras
  PROVE  ParseWire(ComposeWire(args, extras))
           = LET w == Parsed("none", Project(args[1]), EnvFile(args[1]), <<>>,
                             ComposeFiles(args[1], extras))
             IN  IF Len(args) = 2 THEN WithVolumes(w) ELSE w
<1> DEFINE tokens == ComposeWire(args, extras)
           files == ComposeFiles(args[1], extras)
           n == Len(files)
           P == Project(args[1])
           E == EnvFile(args[1])
<1>1. n \in Nat /\ files \in Seq(FilesOf(args[1]))
  BY ComposeFilesFacts, LenProperties
<1>2. /\ tokens[1] = Flag("--project") /\ tokens[2] = Value(P)
      /\ tokens[3] = Flag("--env-file") /\ tokens[4] = Value(E)
      /\ \A j \in 1..n : tokens[4 + 2 * j - 1] = Flag("--compose-file")
                         /\ tokens[4 + 2 * j] = Value(files[j])
      /\ Len(args) = 1 => Len(tokens) = 4 + 2 * n
      /\ Len(args) = 2 => Len(tokens) = 5 + 2 * n /\ tokens[5 + 2 * n] = Flag("--volumes")
  BY ComposeTokens
<1> HIDE DEF tokens, files, n, P, E
<1>3. Len(tokens) \in Nat /\ Len(tokens) >= 4 + 2 * n
  BY <1>1, <1>2
<1>4. PICK f : /\ f[0] = NoWire
               /\ \A i \in 1..Len(tokens) : f[i] = ParseToken(f[i - 1], tokens[i])
               /\ ParseWire(tokens) = f[Len(tokens)]
  BY <1>3, ParseStates
<1>5. f[0] = Parsed("none", <<>>, <<>>, <<>>, <<>>)
  BY <1>4 DEF NoWire, Parsed
<1>6. f[1] = ParseToken(f[0], tokens[1]) /\ f[2] = ParseToken(f[1], tokens[2])
      /\ f[3] = ParseToken(f[2], tokens[3]) /\ f[4] = ParseToken(f[3], tokens[4])
  BY <1>1, <1>3, <1>4
<1>7. f[2] = Parsed("none", P, <<>>, <<>>, <<>>)
  BY <1>2, <1>5, <1>6, FlagTokens, ProjectValue
<1>8. f[4] = Parsed("none", P, E, <<>>, <<>>)
  BY <1>2, <1>6, <1>7, FlagTokens, EnvValue
<1> DEFINE G == {j \in Nat : j <= n =>
                   f[4 + 2 * j] = Parsed("none", P, E, <<>>, SubSeq(files, 1, j))}
<1>9. Nat \subseteq G
  <2>1. 0 \in G
    <3>1. SubSeq(files, 1, 0) = <<>>
      BY <1>1, SubSeqEmpty
    <3>2. 4 + 2 * 0 = 4
      OBVIOUS
    <3>3. f[4 + 2 * 0] = Parsed("none", P, E, <<>>, SubSeq(files, 1, 0))
      BY <1>8, <3>1, <3>2, Zenon
    <3> QED
      BY <3>3
  <2>2. ASSUME NEW j \in Nat, j \in G PROVE j + 1 \in G
    <3> SUFFICES ASSUME j + 1 <= n
                 PROVE  f[4 + 2 * (j + 1)]
                          = Parsed("none", P, E, <<>>, SubSeq(files, 1, j + 1))
      OBVIOUS
    <3>1. f[4 + 2 * j] = Parsed("none", P, E, <<>>, SubSeq(files, 1, j))
      BY <1>1, <2>2
    <3>2. 5 + 2 * j \in 1..Len(tokens) /\ 6 + 2 * j \in 1..Len(tokens) /\ j + 1 \in 1..n
      BY <1>1, <1>3
    <3>3. 4 + 2 * (j + 1) - 1 = 5 + 2 * j /\ 4 + 2 * (j + 1) = 6 + 2 * j
          /\ (5 + 2 * j) - 1 = 4 + 2 * j /\ (6 + 2 * j) - 1 = 5 + 2 * j
      BY <1>1
    <3>4. tokens[5 + 2 * j] = Flag("--compose-file") /\ tokens[6 + 2 * j] = Value(files[j + 1])
      BY <1>2, <3>2, <3>3
    <3>5. f[5 + 2 * j] = ParseToken(f[4 + 2 * j], Flag("--compose-file"))
      BY <1>4, <3>2, <3>3, <3>4
    <3>6. f[6 + 2 * j] = ParseToken(f[5 + 2 * j], Value(files[j + 1]))
      BY <1>4, <3>2, <3>3, <3>4
    <3>7. f[5 + 2 * j] = Parsed("--compose-file", P, E, <<>>, SubSeq(files, 1, j))
      BY <3>1, <3>5, FlagTokens
    <3>8. f[6 + 2 * j]
            = Parsed("none", P, E, <<>>, Append(SubSeq(files, 1, j), files[j + 1]))
      BY <3>6, <3>7, FileValue
    <3>9. Append(SubSeq(files, 1, j), files[j + 1]) = SubSeq(files, 1, j + 1)
      BY <1>1, <3>2 DEF n
    <3> QED
      BY <3>3, <3>8, <3>9
  <2> HIDE DEF G
  <2> QED
    BY <2>1, <2>2, Induction
<1>10. f[4 + 2 * n] = Parsed("none", P, E, <<>>, files)
  <2>1. n \in G
    BY <1>1, <1>9
  <2>2. SubSeq(files, 1, n) = files
    BY <1>1, SubSeqFull DEF n
  <2>3. f[4 + 2 * n] = Parsed("none", P, E, <<>>, SubSeq(files, 1, n))
    BY <1>1, <2>1
  <2> QED
    BY <2>2, <2>3, Zenon
<1>11. CASE Len(args) = 1
  BY <1>2, <1>4, <1>10, <1>11 DEF tokens, files, P, E
<1>12. CASE Len(args) = 2
  <2>1. f[5 + 2 * n] = ParseToken(f[4 + 2 * n], Flag("--volumes"))
    BY <1>1, <1>2, <1>4, <1>12
  <2>2. f[5 + 2 * n] = WithVolumes(Parsed("none", P, E, <<>>, files))
    BY <1>10, <2>1, FlagTokens
  <2> QED
    BY <1>2, <1>4, <1>12, <2>2 DEF tokens, files, P, E
<1> QED
  BY <1>11, <1>12

-----------------------------------------------------------------------------
(* A valid call *)

\* A path below the directory of an instance.
LEMMA BelowInstance ==
  ASSUME NEW inst, NEW S, NEW below \in Seq(S), Len(below) >= 1
  PROVE  LET f == InstanceDir(inst) \o below
         IN  /\ Len(f) \in Nat /\ Len(f) >= 4
             /\ f[1] = "home" /\ f[2] = "instances" /\ f[3] = inst
             /\ \E T : f \in Seq(T)
<1> DEFINE D == InstanceDir(inst)
           T == {"home", "instances", inst} \cup S
<1>1. D \in Seq(T) /\ Len(D) = 3 /\ D[1] = "home" /\ D[2] = "instances" /\ D[3] = inst
  BY DEF InstanceDir
<1>2. below \in Seq(T)
  OBVIOUS
<1> HIDE DEF D, T
<1>3. D \o below \in Seq(T) /\ Len(D \o below) = Len(D) + Len(below)
      /\ \A i \in 1..(Len(D) + Len(below)) :
           (D \o below)[i] = IF i <= Len(D) THEN D[i] ELSE below[i - Len(D)]
  BY <1>1, <1>2, ConcatProperties
<1>4. Len(below) \in Nat
  BY LenProperties
<1>5. Len(D \o below) \in Nat /\ Len(D \o below) >= 4 /\ (D \o below)[1] = "home"
      /\ (D \o below)[2] = "instances" /\ (D \o below)[3] = inst
  BY <1>1, <1>3, <1>4
<1> QED
  BY <1>3, <1>5 DEF D

\* The files a compose call names lie in the tree of its instance.
LEMMA InTree ==
  ASSUME NEW inst, NEW f \in FilesOf(inst) \cup {EnvFile(inst)}
  PROVE  /\ Len(f) \in Nat /\ Len(f) >= 4
         /\ f[1] = "home" /\ f[2] = "instances" /\ f[3] = inst
         /\ \E T : f \in Seq(T)
<1>1. \E S : \E below \in Seq(S) : Len(below) >= 1 /\ f = InstanceDir(inst) \o below
  <2>1. CASE f = ComposeYml(inst)
    <3> DEFINE below == <<"docker", "compose.yml">>
    <3>1. below \in Seq({"docker", "compose.yml"}) /\ Len(below) >= 1
      OBVIOUS
    <3>2. f = InstanceDir(inst) \o below
      BY <2>1 DEF ComposeYml
    <3> QED
      BY <3>1, <3>2, Zenon
  <2>2. CASE f = EnvFile(inst)
    <3> DEFINE below == <<".sandbox.env">>
    <3>1. below \in Seq({".sandbox.env"}) /\ Len(below) >= 1
      OBVIOUS
    <3>2. f = InstanceDir(inst) \o below
      BY <2>2 DEF EnvFile
    <3> QED
      BY <3>1, <3>2, Zenon
  <2>3. CASE \E e \in ExtraFiles : f = ExtraYml(inst, e)
    <3>1. PICK e \in ExtraFiles : f = ExtraYml(inst, e)
      BY <2>3
    <3> DEFINE below == <<"docker", "extras", e>>
    <3>2. below \in Seq({"docker", "extras", e}) /\ Len(below) >= 1
      OBVIOUS
    <3>3. f = InstanceDir(inst) \o below
      BY <3>1 DEF ExtraYml
    <3> QED
      BY <3>2, <3>3, Zenon
  <2> QED
    BY <2>1, <2>2, <2>3 DEF FilesOf
<1> QED
  BY <1>1, BelowInstance

\* The place of the instance in such a path is the third.
LEMMA BoundaryIsThird ==
  ASSUME NEW inst, NEW f \in FilesOf(inst) \cup {EnvFile(inst)}
  PROVE  Boundary(f, inst) = 3
<1> DEFINE at == {i \in 2..(Len(f) - 1) : f[i - 1] = "instances" /\ f[i] = inst}
<1>1. 3 \in at /\ 2 \notin at /\ at \subseteq Nat /\ \A i \in at : i >= 2
  BY InTree
<1> HIDE DEF at
<1>2. PICK m \in at : m = Min(at) /\ \A y \in at : m <= y
  BY <1>1, MinFacts
<1>3. m = 3
  BY <1>1, <1>2
<1>4. Boundary(f, inst) = IF at = {} THEN 0 ELSE Min(at)
  BY DEF Boundary, at
<1> QED
  BY <1>1, <1>2, <1>3, <1>4

\* A link that is in the way of the dispatcher lies in the instance's tree.
LEMMA LinkIsInTree ==
  ASSUME NEW inst, NEW f \in FilesOf(inst) \cup {EnvFile(inst)}, NEW links,
         ~Unlinked(f, inst, links)
  PROVE  \E l \in links : IsPrefix(InstanceDir(inst), l)
<1>1. PICK i \in 3..Len(f) : SubSeq(f, 1, i) \in links
  BY BoundaryIsThird DEF Unlinked
<1>2. PICK S : f \in Seq(S)
  BY InTree
<1>3. Len(f) \in Nat /\ f[1] = "home" /\ f[2] = "instances" /\ f[3] = inst
  BY InTree
<1> DEFINE l == SubSeq(f, 1, i)
<1>4. l \in Seq(S) /\ Len(l) = i /\ \A j \in 1..i : l[j] = f[j]
  BY <1>1, <1>2, <1>3, SubSeqProperties
<1>5. SubSeq(l, 1, 3) \in Seq(S) /\ Len(SubSeq(l, 1, 3)) = 3
      /\ \A j \in 1..3 : SubSeq(l, 1, 3)[j] = l[j]
  BY <1>1, <1>3, <1>4, SubSeqProperties
<1> HIDE DEF l
<1> DEFINE D == InstanceDir(inst)
<1>6. D \in Seq({"home", "instances", inst}) /\ Len(D) = 3
      /\ D[1] = "home" /\ D[2] = "instances" /\ D[3] = inst
  BY DEF InstanceDir
<1> HIDE DEF D
<1>7. SubSeq(D, 1, 3) = D
  BY <1>6, SubSeqFull
<1>8. SubSeq(l, 1, 3) = D
  <2>1. \A j \in 1..3 : SubSeq(l, 1, 3)[j] = D[j]
    BY <1>1, <1>3, <1>4, <1>5, <1>6
  <2>2. SubSeq(l, 1, 3) \in Seq(S \cup {"home", "instances", inst})
        /\ D \in Seq(S \cup {"home", "instances", inst})
    BY <1>5, <1>6
  <2> QED
    BY <1>5, <1>6, <2>1, <2>2, SeqEqual
<1>9. IsPrefix(D, l)
  BY <1>1, <1>4, <1>6, <1>7, <1>8 DEF IsPrefix
<1> QED
  BY <1>1, <1>9 DEF l, D

\* A call that was let through, and the wire it was expanded to.
LetThrough ==
  /\ ~Refused(req, site)
  /\ req.op \in Ops /\ req.args \in ArgLists
  /\ site.slot \in 0..(MAX_SLOTS - 1)
  /\ wire = Expand(req, site)

\* Argument lists are sequences, and only that of a --check is `--check`.
LEMMA ArgListFacts ==
  ASSUME NEW args \in ArgLists
  PROVE  Len(args) \in Nat /\ DOMAIN args = 1..Len(args) /\ args # <<"--check">>
<1>1. CASE args \in {<<>>, <<"bad">>, <<"preset">>, <<"ref">>}
  BY <1>1
<1>2. CASE args \in {<<"path", "id", "id", "name">>, <<"path", "mode", "id", "id", "name">>,
                     <<"path", "mode", "id", "id">>}
  BY <1>2
<1>3. CASE \E i \in Instances : args = <<i>>
  BY <1>3, DispatchAssumption
<1>4. CASE \E i \in Instances : args = <<i, "--volumes">> \/ args = <<i, "bad">>
  BY <1>4
<1> QED
  BY <1>1, <1>2, <1>3, <1>4 DEF ArgLists

\* The arguments of a compose call: an instance, and perhaps --volumes.
LEMMA ComposeArgs ==
  ASSUME LetThrough, req.op \in ComposeOps
  PROVE  /\ Len(req.args) \in 1..2 /\ req.args[1] \in Instances
         /\ ("--volumes" \in ToSet(req.args)) <=> Len(req.args) = 2
         /\ Len(req.args) = 2 => req.op = "compose-down"
<1> DEFINE args == req.args
<1>1. Len(args) \in Nat /\ DOMAIN args = 1..Len(args)
  BY ArgListFacts DEF LetThrough
<1>2. Valid(req.op, args)
  BY DEF LetThrough, Refused
<1> HIDE DEF args
<1>3. /\ Len(args) \in 1..2 /\ args[1] \in Instances
      /\ Len(args) = 2 => args[2] = "--volumes" /\ req.op = "compose-down"
  <2>1. CASE req.op = "compose-down"
    BY <1>1, <1>2, <2>1 DEF Valid, NullaryOps
  <2>2. CASE req.op = "compose-up" \/ req.op = "compose-ps"
    <3>1. Len(args) = 1 /\ args[1] \in Instances
      BY <1>2, <2>2 DEF Valid, NullaryOps
    <3> QED
      BY <3>1
  <2> QED
    BY <2>1, <2>2 DEF ComposeOps
<1>4. args[1] # "--volumes"
  BY <1>3, DispatchAssumption
<1>5. ("--volumes" \in ToSet(args)) <=> Len(args) = 2
  BY <1>1, <1>3, <1>4 DEF ToSet
<1> QED
  BY <1>3, <1>5 DEF args

\* The one argument of a stream.
LEMMA FwdArgs ==
  ASSUME LetThrough, req.op = "fwd"
  PROVE  Len(req.args) = 1 /\ req.args[1] \in Instances /\ "--volumes" \notin ToSet(req.args)
<1> DEFINE args == req.args
<1>1. Len(args) \in Nat /\ DOMAIN args = 1..Len(args)
  BY ArgListFacts DEF LetThrough
<1>2. Valid("fwd", args)
  BY DEF LetThrough, Refused
<1> HIDE DEF args
<1>3. Len(args) = 1 /\ args[1] \in Instances
  BY <1>2 DEF Valid, NullaryOps
<1>4. args[1] # "--volumes"
  BY <1>3, DispatchAssumption
<1> QED
  BY <1>1, <1>3, <1>4 DEF ToSet, args

\* Of the other calls the dispatcher counts the arguments; none is --volumes.
LEMMA OtherArgs ==
  ASSUME LetThrough, req.op \notin ComposeOps, req.op # "fwd"
  PROVE  "--volumes" \notin ToSet(req.args) /\ \A w : ~GoRejects(req.op, req.args, w)
<1> DEFINE args == req.args
           op == req.op
<1>1. Len(args) \in Nat /\ DOMAIN args = 1..Len(args)
  BY ArgListFacts DEF LetThrough
<1>2. Valid(op, args)
  BY DEF LetThrough, Refused
<1>3. op \in NullaryOps \cup {"docker-info", "docker-manifest-inspect", "helper-chown-files",
                              "helper-mkdir-chown-dirs"}
  BY DEF LetThrough, Ops, StreamingOps
<1> HIDE DEF args, op
<1>4. CASE op \in NullaryOps
  <2>1. args = <<>>
    BY <1>2, <1>4 DEF Valid, NullaryOps
  <2>2. "--volumes" \notin ToSet(args)
    BY <2>1 DEF ToSet
  <2>3. \A w : ~GoRejects(op, args, w)
    BY <1>4 DEF GoRejects, NullaryOps, ComposeOps
  <2> QED
    BY <2>2, <2>3 DEF args, op
<1>5. CASE op = "docker-info" \/ op = "docker-manifest-inspect"
  <2>1. IF op = "docker-info" THEN args = <<"preset">> ELSE args = <<"ref">>
    BY <1>2, <1>5 DEF Valid, NullaryOps
  <2>2. /\ Len(args) = 1 /\ args[1] # "--volumes"
        /\ op = "docker-info" => args[1] = "preset"
    BY <2>1
  <2>3. "--volumes" \notin ToSet(args)
    BY <1>1, <2>2 DEF ToSet
  <2>4. \A w : ~GoRejects(op, args, w)
    BY <1>5, <2>2 DEF GoRejects, NullaryOps, ComposeOps
  <2> QED
    BY <2>3, <2>4 DEF args, op
<1>6. CASE op = "helper-chown-files"
  <2>1. /\ Len(args) >= 5 /\ args[1] = "path" /\ args[2] = "mode"
        /\ (\A i \in 3..4 : args[i] = "id") /\ (\A i \in 5..Len(args) : args[i] = "name")
    BY <1>2, <1>6 DEF Valid, NullaryOps, ArgsAre
  <2>2. \A i \in 1..Len(args) : args[i] # "--volumes"
    BY <1>1, <2>1
  <2>3. "--volumes" \notin ToSet(args)
    BY <1>1, <2>2 DEF ToSet
  <2>4. \A w : ~GoRejects(op, args, w)
    BY <1>1, <1>6, <2>1 DEF GoRejects, NullaryOps, ComposeOps
  <2> QED
    BY <2>3, <2>4 DEF args, op
<1>7. CASE op = "helper-mkdir-chown-dirs"
  <2>1. /\ Len(args) >= 4 /\ args[1] = "path"
        /\ (\A i \in 2..3 : args[i] = "id") /\ (\A i \in 4..Len(args) : args[i] = "name")
    BY <1>2, <1>7 DEF Valid, NullaryOps, ArgsAre
  <2>2. \A i \in 1..Len(args) : args[i] # "--volumes"
    BY <1>1, <2>1
  <2>3. "--volumes" \notin ToSet(args)
    BY <1>1, <2>2 DEF ToSet
  <2>4. \A w : ~GoRejects(op, args, w)
    BY <1>1, <1>7, <2>1 DEF GoRejects, NullaryOps, ComposeOps
  <2> QED
    BY <2>3, <2>4 DEF args, op
<1> QED
  BY <1>3, <1>4, <1>5, <1>6, <1>7

\* The address of a stream is that of the core of its slot, inside the superblock.
LEMMA CoreAddress ==
  ASSUME NEW slot \in 0..(MAX_SLOTS - 1)
  PROVE  /\ ValidFwdIp(CoreIpcIp(slot)) /\ CoreIpcIp(slot) # <<>>
         /\ ((CoreIpcIp(slot)[1] - 100) * 256 + CoreIpcIp(slot)[2]) \div 5 = slot
<1> DEFINE n == slot * 5 + 4
<1>1. n \in Nat /\ n <= 39934 /\ n \div 5 = slot
  BY Z3 DEF MAX_SLOTS
<1>2. CoreIpcIp(slot) = <<100 + (n \div 256), n % 256, 3>>
  BY DEF CoreIpcIp, StaticIp, Subnet, Ipc
<1> HIDE DEF n
<1>3. n \div 256 \in Nat /\ n \div 256 <= 155 /\ n % 256 \in Nat
      /\ ((100 + (n \div 256)) - 100) * 256 + (n % 256) = n
  BY <1>1, Z3
<1> QED
  BY <1>1, <1>2, <1>3 DEF ValidFwdIp

\* The project of an instance passes the rules of --project.
LEMMA ProjectFits ==
  ASSUME NEW inst \in Instances
  PROVE  Project(inst) # <<>> /\ ProjectOf(inst, Project(inst))
<1>1. inst # "bad"
  BY DispatchAssumption
<1>2. ToSet(Project(inst)) = {"operator", inst} /\ Project(inst)[Len(Project(inst))] = inst
  BY DEF Project, ToSet
<1> QED
  BY <1>1, <1>2 DEF Project, ProjectOf

\* What the dispatcher reads off the wire of a compose call, and accepts.
LEMMA ComposeAccepted ==
  ASSUME LetThrough, req.op \in ComposeOps
  PROVE  LET w == ParseWire(wire)
             inst == req.args[1]
         IN  /\ w.project = Project(inst) /\ w.env = EnvFile(inst) /\ w.ip = <<>>
             /\ w.files = ComposeFiles(inst, site.extras)
             /\ w.volumes = ("--volumes" \in ToSet(req.args))
             /\ ~GoRejects(req.op, req.args, w)
             /\ ToSet(w.files) \cup {w.env} \subseteq FilesOf(inst) \cup {EnvFile(inst)}
<1> DEFINE w == ParseWire(wire)
           inst == req.args[1]
           files == ComposeFiles(inst, site.extras)
           W == Parsed("none", Project(inst), EnvFile(inst), <<>>, files)
<1>1. Len(req.args) \in 1..2 /\ (("--volumes" \in ToSet(req.args)) <=> Len(req.args) = 2)
      /\ (Len(req.args) = 2 => req.op = "compose-down")
  BY ComposeArgs
<1>2. wire = ComposeWire(req.args, site.extras)
  BY DEF LetThrough, Expand, ComposeOps
<1>3. w = IF Len(req.args) = 2 THEN WithVolumes(W) ELSE W
  BY <1>1, <1>2, ComposeRoundTrip, Zenon
<1> HIDE DEF w
<1>4. /\ w.project = Project(inst) /\ w.env = EnvFile(inst) /\ w.ip = <<>> /\ w.files = files
      /\ w.volumes = (Len(req.args) = 2) /\ w.want = "none" /\ w.ok
  BY <1>3 DEF Parsed, WithVolumes
<1>5. files \in Seq(FilesOf(inst)) /\ files # <<>>
  BY ComposeFilesFacts
<1> HIDE DEF files, inst, W
<1>6. ToSet(files) \cup {EnvFile(inst)} \subseteq FilesOf(inst) \cup {EnvFile(inst)}
  BY <1>5 DEF ToSet
<1>7. Project(inst) # <<>> /\ ProjectOf(inst, Project(inst))
  BY ComposeArgs, ProjectFits DEF inst
<1>8. EnvFile(inst) # <<>>
  BY InTree
<1>9. Complete(req.op, w)
  BY <1>1, <1>4, <1>5, <1>7, <1>8 DEF Complete, ComposeOps
<1>10. \A f \in ToSet(w.files) \cup {w.env} : Boundary(f, inst) # 0
  BY <1>4, <1>6, BoundaryIsThird
<1>11. ~GoRejects(req.op, req.args, w)
  BY <1>4, <1>7, <1>9, <1>10 DEF GoRejects, ComposeOps, NullaryOps, inst
<1> QED
  BY <1>1, <1>4, <1>6, <1>11 DEF w, inst, files

\* The same of a stream.
LEMMA FwdAccepted ==
  ASSUME LetThrough, req.op = "fwd"
  PROVE  LET w == ParseWire(wire)
         IN  /\ w.project = Project(req.args[1]) /\ w.env = <<>> /\ w.ip = CoreIpcIp(site.slot)
             /\ w.files = <<>> /\ w.volumes = FALSE
             /\ ~GoRejects("fwd", req.args, w)
<1> DEFINE w == ParseWire(wire)
           inst == req.args[1]
<1>1. wire = FwdWire(req.args, site.slot)
  BY DEF LetThrough, Expand, ComposeOps
<1>2. w = Parsed("none", Project(inst), <<>>, CoreIpcIp(site.slot), <<>>)
  BY <1>1, FwdRoundTrip
<1> HIDE DEF w
<1>3. /\ w.project = Project(inst) /\ w.env = <<>> /\ w.ip = CoreIpcIp(site.slot)
      /\ w.files = <<>> /\ w.volumes = FALSE /\ w.want = "none" /\ w.ok
  BY <1>2 DEF Parsed
<1>4. Project(inst) # <<>> /\ ProjectOf(inst, Project(inst))
  BY FwdArgs, ProjectFits DEF inst
<1>5. ValidFwdIp(w.ip) /\ w.ip # <<>>
  BY <1>3, CoreAddress DEF LetThrough
<1>6. Complete("fwd", w)
  BY <1>3, <1>4, <1>5 DEF Complete
<1>7. ~GoRejects("fwd", req.args, w)
  BY <1>3, <1>4, <1>5, <1>6 DEF GoRejects, ComposeOps, NullaryOps
<1> QED
  BY <1>3, <1>7 DEF w

\* The dispatcher refuses nothing that the validators let through.
LEMMA NotRejected ==
  ASSUME LetThrough
  PROVE  ~GoRejects(req.op, req.args, ParseWire(wire))
  BY ComposeAccepted, FwdAccepted, OtherArgs

\* The command the dispatcher makes of the wire is the one the caller asked for.
LEMMA CommandIsAsked ==
  ASSUME LetThrough
  PROVE  Command(req.op, req.args, ParseWire(wire)) = Asked
<1> DEFINE w == ParseWire(wire)
<1>1. CASE req.op \in ComposeOps
  <2>1. /\ w.project = Project(req.args[1]) /\ w.env = EnvFile(req.args[1]) /\ w.ip = <<>>
        /\ w.files = ComposeFiles(req.args[1], site.extras)
        /\ w.volumes = ("--volumes" \in ToSet(req.args))
    BY <1>1, ComposeAccepted
  <2>2. req.op # "fwd"
    BY <1>1 DEF ComposeOps
  <2> QED
    BY <1>1, <2>1, <2>2 DEF Command, Asked
<1>2. CASE req.op = "fwd"
  <2>1. /\ w.project = Project(req.args[1]) /\ w.env = <<>> /\ w.ip = CoreIpcIp(site.slot)
        /\ w.files = <<>> /\ w.volumes = FALSE
    BY <1>2, FwdAccepted
  <2>2. ("--volumes" \in ToSet(req.args)) = FALSE
    BY <1>2, FwdArgs
  <2>3. req.op \notin ComposeOps /\ req.op \in StreamingOps
    BY <1>2 DEF ComposeOps, StreamingOps
  <2> QED
    BY <1>2, <2>1, <2>2, <2>3 DEF Command, Asked
<1>3. CASE req.op \notin ComposeOps /\ req.op # "fwd"
  <2>1. wire = <<>>
    BY <1>3 DEF LetThrough, Expand
  <2>2. w = NoWire
    <3>1. Len(<<>>) = 0
      OBVIOUS
    <3>2. PICK f : f[0] = NoWire /\ ParseWire(<<>>) = f[Len(<<>>)]
      BY <3>1, ParseStates
    <3> QED
      BY <2>1, <3>1, <3>2
  <2>3. ("--volumes" \in ToSet(req.args)) = FALSE
    BY <1>3, OtherArgs
  <2>4. req.op \notin ComposeOps \cup StreamingOps
    BY <1>3 DEF StreamingOps
  <2>5. /\ w.project = <<>> /\ w.env = <<>> /\ w.ip = <<>> /\ w.files = <<>>
        /\ w.volumes = FALSE
    BY <2>2 DEF NoWire
  <2> HIDE DEF w
  <2>6. Command(req.op, req.args, w) = Asked
    BY <1>3, <2>3, <2>4, <2>5 DEF Command, Asked
  <2> QED
    BY <2>6 DEF w
<1> QED
  BY <1>1, <1>2, <1>3

\* A compose call that is rejected meets a link in the tree of its instance.
LEMMA RejectedForLink ==
  ASSUME LetThrough, LinkInTheWay(ParseWire(wire))
  PROVE  \E l \in site.links : IsPrefix(InstanceDir(req.args[1]), l)
  BY ComposeAccepted, LinkIsInTree DEF LinkInTheWay

-----------------------------------------------------------------------------
(* The lines of the pipe *)

Names == {"none", "auth-probe", "docker-version", "security-options", "runtimes", "compose-ls"}
Lines == [k : {"begin", "exit", "q", "rc", "data", "text", "error"}, n : Nat, of : Names,
          val : {-1, 0, 1, 126}, nl : BOOLEAN]

\* What is in the pipe may look like the dispatcher's lines, with another nonce.
LEMMA NoiseFacts ==
  ASSUME nonce \in Nat, nonce > 0, NEW line \in Noise(nonce)
  PROVE  line \in Lines /\ line.n < nonce /\ line.k \notin {"q", "data"}
<1>1. CASE \E nl \in BOOLEAN : line = Line("text", 0, "none", 0, nl)
  BY <1>1 DEF Line, Lines, Names
<1>2. CASE \E m \in 0..(nonce - 1) : line = BeginLine(m)
  BY <1>2 DEF BeginLine, Line, Lines, Names
<1>3. CASE \E m \in 0..(nonce - 1) : line = ExitLine(m, 0)
  BY <1>3 DEF ExitLine, Line, Lines, Names
<1>4. CASE \E m \in 0..(nonce - 1) : line = RcLine(m, "docker-version", 0)
  BY <1>4 DEF RcLine, Line, Lines, Names
<1> QED
  BY <1>1, <1>2, <1>3, <1>4 DEF Noise

-----------------------------------------------------------------------------
(* The crossing *)

States == {"idle", "sudo", "dispatcher", "bash", "query", "trailer", "eof", "returned"}
Going == {"sudo", "dispatcher", "bash", "query", "trailer"}
Framed == req.mode = SU /\ ~IsStream

Typed ==
  /\ calls \in Nat /\ (pc # "idle" => calls > 0)
  /\ pc \in States
  /\ req.via \in Vias /\ req.mode \in {SU, OR} /\ req.op \in Ops
  /\ out \in Seq(Lines)
  /\ answers \in Seq({0, 1}) /\ Len(answers) <= 5
  /\ inner \in {-1, 0, 1}

\* Before a call there is nothing left of the last one.
Fresh == pc = "idle" => /\ out = <<>> /\ answers = <<>> /\ inner = -1 /\ harm = "none"
                        /\ cmd = NoCommand /\ wire = <<>> /\ result = NoResult

\* A --check is told from the other calls by its argument.
Checks == /\ req.via = "check" <=> IsCheck
          /\ req.via = "check" => req.mode = SU /\ pc \notin {"bash", "query", "trailer"}
                                  /\ cmd = NoCommand /\ answers = <<>>
                                  /\ (out # <<>> => site.rule)

\* What is crossed with was let through; only the wire of a call in flight is needed.
CallIsValid ==
  pc \in Going \cup {"eof"} => result = NoResult /\ (req.via # "check" => LetThrough)

\* Where a call is, as its other variables tell.
InPlace ==
  /\ pc \in Going => harm = "none"
  /\ pc \in {"sudo", "dispatcher"} => req.mode = SU /\ cmd = NoCommand /\ answers = <<>>
  /\ pc \in {"sudo", "dispatcher", "bash", "query"} => inner = -1
  /\ pc = "sudo" => out = <<>>
  /\ pc = "dispatcher" => ~IsStream
  /\ pc = "query" => req.op = "preflight" /\ Len(answers) < 5
  /\ pc = "trailer" => Framed /\ inner # -1
  /\ (pc \in {"bash", "query", "trailer"} \/ (pc = "eof" /\ inner # -1)) =>
       cmd = Command(req.op, req.args, ParseWire(wire))

\* The pipe of a framed crossing begins with the dispatcher's line.
BeginsFramed ==
  (pc # "idle" /\ Framed) => /\ pc \in Going \ {"sudo"} => out # <<>>
                             /\ out # <<>> => out[1] = BeginLine(nonce)

IsTrailer(i) == out[i].k = "exit" /\ out[i].n = nonce

\* Only the last line of a framed crossing that has come to its end can be the trailer.
TrailerLast ==
  \A i \in DOMAIN out : IsTrailer(i) => i = Len(out) /\ pc \in {"eof", "returned"} /\ Framed

\* In a stream the dispatcher writes nothing.
Raw == IsStream => \A i \in DOMAIN out : out[i].n # nonce

HasTrailer == out # <<>> /\ IsTrailer(Len(out))

\* What the trailer says happened.
TrailerSays ==
  (pc = "eof" /\ HasTrailer) =>
    LET code == out[Len(out)].val
    IN  \/ req.via = "check" /\ code = 0
        \/ req.via # "check" /\ code = 1 /\ LinkInTheWay(ParseWire(wire))
        \/ code = 126 /\ harm = "exec"
        \/ req.via # "check" /\ code = inner /\ inner # -1

\* A pipe that nobody cut short has its trailer, or the op's own end.
NotCutShort ==
  pc = "eof" => /\ (Framed /\ harm \in {"none", "exec"}) => HasTrailer
                /\ (~Framed /\ harm = "none") => inner # -1

USE DEF nonce

\* The steps between the beginning of a call and its answer, by what they add to the pipe.
Silent == \/ SudoRefuses \/ NonceFails \/ OpenStream \/ GoExec
          \/ (\E code \in 0..1 : OpEnds(code)) \/ PreflightEnds \/ Dies
Trailing == GoCheck \/ GoReject \/ GoExecFails \/ WriteTrailer
Printing == \E line \in Noise(nonce) : Prints(line)
Answering == \E code \in 0..1 : AnswerQuery(code)

\* One step is of one of these kinds.
LEMMA StepKinds ==
  [Next]_vars => \/ NewCall \/ Forget \/ Announce \/ Silent \/ Trailing \/ Printing
                 \/ AskQuery \/ Answering \/ Return \/ TimesOut \/ UNCHANGED vars
  BY DEF Next, Silent, Trailing, Printing, Answering

\* A call stays what it is until it is forgotten.
LEMMA SameCall ==
  ASSUME UNCHANGED <<calls, req, wire, site>>
  PROVE  /\ IsStream' = IsStream /\ IsCheck' = IsCheck /\ Framed' = Framed
         /\ LetThrough' = LetThrough
         /\ Command(req.op, req.args, ParseWire(wire))' = Command(req.op, req.args, ParseWire(wire))
         /\ LinkInTheWay(ParseWire(wire))' = LinkInTheWay(ParseWire(wire))
         /\ \A name : Says(name)' = Says(name)
<1>1. IsStream' = IsStream /\ IsCheck' = IsCheck /\ Framed' = Framed
  BY DEF IsStream, IsCheck, Framed
<1>2. LetThrough' = LetThrough
  BY DEF LetThrough, Refused, Expand
<1>3. Command(req.op, req.args, ParseWire(wire))' = Command(req.op, req.args, ParseWire(wire))
  OBVIOUS
<1>4. LinkInTheWay(ParseWire(wire))' = LinkInTheWay(ParseWire(wire))
  BY DEF LinkInTheWay
<1>5. \A name : Says(name)' = Says(name)
  BY DEF Says
<1> QED
  BY <1>1, <1>2, <1>3, <1>4, <1>5

\* One more line.
LEMMA OneMore ==
  ASSUME NEW lines \in Seq(Lines), NEW line \in Lines
  PROVE  LET longer == Append(lines, line)
         IN  /\ Len(lines) \in Nat /\ DOMAIN lines = 1..Len(lines)
             /\ longer \in Seq(Lines) /\ longer # <<>>
             /\ Len(longer) = Len(lines) + 1 /\ DOMAIN longer = 1..(Len(lines) + 1)
             /\ (\A i \in 1..Len(lines) : longer[i] = lines[i])
             /\ longer[Len(lines) + 1] = line
  BY AppendProperties, LenProperties

\* A call begins: it is refused, or it is a valid one, or a --check.
LEMMA NewCallFacts ==
  ASSUME NewCall
  PROVE  /\ pc = "idle" /\ calls' = calls + 1 /\ UNCHANGED <<out, inner, answers, harm>>
         /\ req'.op \in Ops /\ req'.via \in Vias /\ req'.mode \in {SU, OR}
         /\ \/ /\ req'.via # "check" /\ req'.args \in ArgLists
               /\ pc' = "returned" /\ result' = [status |-> "refused", nonce |-> 0]
            \/ /\ req'.via # "check" /\ req'.args \in ArgLists /\ LetThrough'
               /\ result' = result
               /\ \/ /\ pc' = "bash" /\ req'.mode = OR
                     /\ cmd' = Command(req.op, req.args, ParseWire(wire))'
                  \/ pc' = "sudo" /\ req'.mode = SU /\ cmd' = cmd
            \/ /\ req'.via = "check" /\ req'.args = <<"--check">> /\ req'.mode = SU
               /\ pc' = "sudo" /\ UNCHANGED <<wire, cmd, result>>
<1>1. pc = "idle"
  BY DEF NewCall
<1>2. CASE \E op \in Ops, rule \in BOOLEAN : CallCheck(op, [AnySite EXCEPT !.rule = rule])
  BY <1>1, <1>2 DEF CallCheck, Vias
<1>3. CASE \E via \in {"invoke", "probe", "proxy"}, mode \in {SU, OR}, op \in Ops, args \in ArgLists :
             \E s \in Sites(op, args), rule \in {TRUE, mode = OR} :
               Call([via |-> via, mode |-> mode, op |-> op, args |-> args],
                    [s EXCEPT !.rule = rule])
  <2>1. PICK via \in {"invoke", "probe", "proxy"}, mode \in {SU, OR}, op \in Ops, args \in ArgLists :
             \E s \in Sites(op, args), rule \in {TRUE, mode = OR} :
               Call([via |-> via, mode |-> mode, op |-> op, args |-> args],
                    [s EXCEPT !.rule = rule])
    BY <1>3
  <2>2. PICK s \in Sites(op, args), rule \in {TRUE, mode = OR} :
               Call([via |-> via, mode |-> mode, op |-> op, args |-> args],
                    [s EXCEPT !.rule = rule])
    BY <2>1
  <2> DEFINE r == [via |-> via, mode |-> mode, op |-> op, args |-> args]
             t == [s EXCEPT !.rule = rule]
  <2>3. r.via = via /\ r.mode = mode /\ r.op = op /\ r.args = args
    OBVIOUS
  <2>4. /\ calls' = calls + 1 /\ req' = r /\ site' = t /\ UNCHANGED <<out, inner, answers, harm>>
        /\ IF Refused(r, t)
           THEN Returns("refused", 0) /\ UNCHANGED <<wire, cmd>>
           ELSE /\ UNCHANGED result
                /\ wire' = Expand(r, t)
                /\ IF r.mode = OR
                   THEN pc' = "bash" /\ cmd' = Command(r.op, r.args, ParseWire(wire'))
                   ELSE pc' = "sudo" /\ UNCHANGED cmd
    BY <2>2 DEF Call
  <2>5. ~Refused(r, t) => t.slot \in 0..(MAX_SLOTS - 1)
    <3> SUFFICES ASSUME Valid(op, args) PROVE t.slot \in 0..(MAX_SLOTS - 1)
      BY <2>3 DEF Refused
    <3>1. CASE op = "fwd"
      <4>1. PICK x \in FwdSlots : s = [AnySite EXCEPT !.slot = x]
        BY <3>1 DEF Sites, ComposeOps
      <4>2. t.slot = x
        BY <4>1 DEF AnySite
      <4> QED
        BY <4>2, DispatchAssumption
    <3>2. CASE op # "fwd"
      <4>1. s.slot = 0 /\ DOMAIN s = DOMAIN AnySite
        <5>1. CASE op \in ComposeOps
          BY <3>2, <5>1 DEF Sites, AnySite, ComposeOps
        <5>2. CASE op \notin ComposeOps
          BY <3>2, <5>2 DEF Sites, AnySite
        <5> QED
          BY <5>1, <5>2
      <4>2. t.slot = s.slot
        BY <4>1 DEF AnySite
      <4> QED
        BY <4>1, <4>2 DEF MAX_SLOTS
    <3> QED
      BY <3>1, <3>2
  <2> HIDE DEF r, t
  <2>6. CASE Refused(r, t)
    BY <1>1, <2>3, <2>4, <2>6 DEF Returns, Vias
  <2>7. CASE ~Refused(r, t)
    <3>1. LetThrough'
      BY <2>3, <2>4, <2>5, <2>7 DEF LetThrough
    <3>2. CASE mode = OR
      BY <1>1, <2>3, <2>4, <2>7, <3>1, <3>2 DEF Vias
    <3>3. CASE mode # OR
      BY <1>1, <2>3, <2>4, <2>7, <3>1, <3>3 DEF Vias
    <3> QED
      BY <3>2, <3>3
  <2> QED
    BY <2>6, <2>7
<1> QED
  BY <1>2, <1>3 DEF NewCall

\* Steps that add nothing to the pipe.
LEMMA SilentFacts ==
  ASSUME Typed, Silent
  PROVE  /\ UNCHANGED <<calls, req, wire, site, out, answers, result>>
         /\ pc \in Going
         /\ \/ pc' = "eof" /\ harm' \in {"sudo", "nonce", "died"} /\ UNCHANGED <<cmd, inner>>
            \/ /\ pc = "sudo" /\ IsStream /\ UNCHANGED <<harm, inner>>
               /\ \/ /\ pc' = "bash" /\ cmd' = Command(req.op, req.args, ParseWire(wire))
                  \/ /\ pc' = "eof" /\ UNCHANGED cmd
                     /\ GoRejects(req.op, req.args, ParseWire(wire))
            \/ /\ pc = "dispatcher" /\ ~IsCheck /\ pc' = "bash" /\ UNCHANGED <<harm, inner>>
               /\ cmd' = Command(req.op, req.args, ParseWire(wire))
            \/ /\ pc = "bash" /\ inner' \in {0, 1} /\ UNCHANGED <<harm, cmd>>
               /\ pc' = IF Framed THEN "trailer" ELSE "eof"
               /\ req.op = "preflight" => Len(answers) = 5
<1>1. CASE SudoRefuses \/ NonceFails \/ Dies
  BY <1>1 DEF SudoRefuses, NonceFails, Dies, Going
<1>2. CASE OpenStream
  BY <1>2 DEF OpenStream, Going
<1>3. CASE GoExec
  BY <1>3 DEF GoExec, Going
<1>4. CASE \E code \in 0..1 : OpEnds(code)
  <2>1. PICK code \in 0..1 : OpEnds(code)
    BY <1>4
  <2>2. code \in {0, 1}
    OBVIOUS
  <2> QED
    BY <2>1, <2>2 DEF OpEnds, Going, Framed
<1>5. CASE PreflightEnds
  <2>1. Len(Queries) = 5
    BY DEF Queries
  <2>2. req.op = "preflight" => ~IsStream
    BY DEF IsStream
  <2> QED
    BY <1>5, <2>1, <2>2 DEF PreflightEnds, Going, Framed
<1> QED
  BY <1>1, <1>2, <1>3, <1>4, <1>5 DEF Silent

\* Steps that write the trailer.
LEMMA TrailingFacts ==
  ASSUME Typed, Trailing
  PROVE  /\ UNCHANGED <<calls, req, wire, site, cmd, inner, answers, result>>
         /\ pc' = "eof"
         /\ \E code \in {-1, 0, 1, 126} :
              /\ out' = Append(out, ExitLine(nonce, code))
              /\ \/ /\ pc = "dispatcher" /\ IsCheck /\ code = 0 /\ harm' = "none"
                 \/ /\ pc = "dispatcher" /\ ~IsCheck /\ code = 1 /\ harm' = "none"
                    /\ \/ GoRejects(req.op, req.args, ParseWire(wire))
                       \/ LinkInTheWay(ParseWire(wire))
                 \/ pc = "dispatcher" /\ ~IsCheck /\ code = 126 /\ harm' = "exec"
                 \/ pc = "trailer" /\ code = inner /\ harm' = harm
<1>1. CASE GoCheck
  BY <1>1 DEF GoCheck, GoReturns
<1>2. CASE GoReject
  BY <1>2 DEF GoReject, GoReturns
<1>3. CASE GoExecFails
  BY <1>3 DEF GoExecFails, GoReturns
<1>4. CASE WriteTrailer
  BY <1>4 DEF WriteTrailer, Typed
<1> QED
  BY <1>1, <1>2, <1>3, <1>4 DEF Trailing

\* The query that is next is one of the five.
LEMMA QueryFacts ==
  ASSUME Typed, Len(answers) < 5
  PROVE  /\ Query \in Names \ {"none"} /\ Len(answers) \in 0..4
         /\ Query = Queries[Len(answers) + 1]
<1>1. PICK n \in Nat : n = Len(answers) /\ n < 5
  BY LenProperties DEF Typed
<1>2. Len(answers) \in 0..4
  BY <1>1
<1>3. Len(answers) + 1 \in 1..5
  BY <1>2
<1>4. \A i \in 1..5 : Queries[i] \in Names \ {"none"}
  BY DEF Queries, Names
<1>5. Query = Queries[Len(answers) + 1]
  BY DEF Query
<1> QED
  BY <1>2, <1>3, <1>4, <1>5

\* A query is announced.
LEMMA AskFacts ==
  ASSUME Typed, AskQuery
  PROVE  /\ UNCHANGED <<calls, req, wire, site, cmd, inner, answers, result, harm>>
         /\ pc = "bash" /\ pc' = "query" /\ req.op = "preflight" /\ Len(answers) < 5
         /\ out' = Append(out, QLine(nonce, Query))
  BY DEF AskQuery, Queries

\* The answer to a query: what the daemon says, and the exit code.
LEMMA AnswerFacts ==
  ASSUME Typed, pc = "query" => Len(answers) < 5, Answering
  PROVE  /\ UNCHANGED <<calls, req, wire, site, cmd, inner, result, harm>>
         /\ pc = "query" /\ pc' = "bash"
         /\ \E code \in {0, 1}, line \in Lines :
              /\ out' = Append(Append(out, line), RcLine(nonce, Query, code))
              /\ answers' = Append(answers, code)
              /\ line.k \in {"data", "error"} /\ line.n = 0
              /\ line.k = "data" => line.of = Query /\ line.val = Says(Query)
              /\ code = 0 => line = DataLine(Query, Says(Query))
              /\ (code = 0 /\ Query # "auth-probe") => site.daemon.up
<1>1. PICK code \in 0..1 : AnswerQuery(code)
  BY DEF Answering
<1>2. code \in {0, 1}
  OBVIOUS
<1> DEFINE line == IF code = 0 THEN DataLine(Query, Says(Query))
                               ELSE Line("error", 0, "none", 0, TRUE)
<1>3. Says(Query) \in {0, 1}
  BY DEF Says
<1>4. Query \in Names
  BY <1>1, QueryFacts DEF AnswerQuery
<1>5. /\ line \in Lines /\ line.k \in {"data", "error"} /\ line.n = 0
      /\ line.k = "data" => line.of = Query /\ line.val = Says(Query)
      /\ code = 0 => line = DataLine(Query, Says(Query))
  BY <1>2, <1>3, <1>4 DEF DataLine, Line, Lines, Names
<1>6. RcLine(nonce, Query, code) \in Lines
  BY <1>2, <1>4 DEF RcLine, Line, Lines, Typed
<1> HIDE DEF line
<1>7. out' = (out \o <<line>>) \o <<RcLine(nonce, Query, code)>>
  BY <1>1 DEF AnswerQuery, line
<1>8. out \o <<line>> = Append(out, line) /\ Append(out, line) \in Seq(Lines)
  BY <1>5 DEF Typed
<1>9. Append(out, line) \o <<RcLine(nonce, Query, code)>>
        = Append(Append(out, line), RcLine(nonce, Query, code))
  BY <1>6, <1>8
<1>10. (code = 0 /\ Query # "auth-probe") => site.daemon.up
  BY <1>1 DEF AnswerQuery
<1> QED
  BY <1>1, <1>2, <1>5, <1>7, <1>8, <1>9, <1>10 DEF AnswerQuery

\* The caller gets its answer, or stops waiting.
LEMMA ReturnFacts ==
  ASSUME Return
  PROVE  /\ UNCHANGED <<calls, req, wire, site, out, cmd, inner, answers, harm>>
         /\ pc = "eof" /\ pc' = "returned"
         /\ \/ IsStream /\ result' = [status |-> "streamed", nonce |-> 0]
            \/ /\ ~IsStream /\ ExitCode = 0
               /\ result'.status = "ok"
               /\ result'.nonce = IF req.mode = SU THEN FrameNonce(out)
                                  ELSE IF req.op = "preflight" THEN nonce ELSE 0
            \/ ~IsStream /\ ExitCode # 0 /\ result' = [status |-> "failed", nonce |-> 0]
  BY DEF Return, Returns

\* The caller stops waiting.
LEMMA TimesOutFacts ==
  ASSUME Typed, TimesOut
  PROVE  /\ UNCHANGED <<calls, req, wire, site, out, cmd, inner, answers>>
         /\ pc \in Going \cup {"eof"} /\ pc' = "returned"
         /\ result' = [status |-> "timed_out", nonce |-> 0]
  BY DEF TimesOut, Returns, Typed, States, Going

\* The op prints a line that is none of the dispatcher's.
LEMMA PrintFacts ==
  ASSUME Typed, Printing
  PROVE  /\ UNCHANGED <<calls, pc, req, wire, site, cmd, inner, answers, result, harm>>
         /\ pc \in {"bash", "query"}
         /\ \E line \in Lines : /\ out' = Append(out, line)
                                /\ line.n < nonce /\ line.k \notin {"q", "data"}
<1>1. PICK line \in Noise(nonce) : Prints(line)
  BY DEF Printing
<1>2. pc # "idle"
  BY <1>1 DEF Prints
<1>3. line \in Lines /\ line.n < nonce /\ line.k \notin {"q", "data"}
  BY <1>2, NoiseFacts DEF Typed
<1> QED
  BY <1>1, <1>3 DEF Prints

\* The first line of the dispatcher.
LEMMA AnnounceFacts ==
  ASSUME Announce
  PROVE  /\ UNCHANGED <<calls, req, wire, site, cmd, inner, answers, result, harm>>
         /\ pc = "sudo" /\ site.rule /\ ~IsStream /\ pc' = "dispatcher"
         /\ out' = <<BeginLine(nonce)>>
  BY DEF Announce

\* Nothing is left of a call but its nonce.
LEMMA ForgetFacts ==
  ASSUME Forget
  PROVE  /\ UNCHANGED calls /\ pc' = "idle" /\ req' = NoReq /\ wire' = <<>> /\ site' = AnySite
         /\ out' = <<>> /\ cmd' = NoCommand /\ inner' = -1 /\ answers' = <<>>
         /\ result' = NoResult /\ harm' = "none"
  BY DEF Forget

\* The pipe after a step that adds to it, line by line.
Kept(n) == /\ Len(out) \in Nat /\ DOMAIN out = 1..Len(out)
           /\ out' \in Seq(Lines) /\ out' # <<>>
           /\ Len(out') = Len(out) + n /\ DOMAIN out' = 1..(Len(out) + n)
           /\ \A i \in 1..Len(out) : out'[i] = out[i]

\* The trailer is the one line added.
LEMMA TrailingPipe ==
  ASSUME Typed, Trailing
  PROVE  /\ Kept(1)
         /\ out'[Len(out) + 1].k = "exit" /\ out'[Len(out) + 1].n = nonce
         /\ out'[Len(out) + 1] \in Lines
         /\ \/ pc = "dispatcher" /\ IsCheck /\ out'[Len(out) + 1].val = 0 /\ harm' = "none"
            \/ /\ pc = "dispatcher" /\ ~IsCheck /\ out'[Len(out) + 1].val = 1 /\ harm' = "none"
               /\ \/ GoRejects(req.op, req.args, ParseWire(wire))
                  \/ LinkInTheWay(ParseWire(wire))
            \/ pc = "dispatcher" /\ ~IsCheck /\ out'[Len(out) + 1].val = 126 /\ harm' = "exec"
            \/ pc = "trailer" /\ out'[Len(out) + 1].val = inner /\ harm' = harm
<1>1. PICK code \in {-1, 0, 1, 126} :
        /\ out' = Append(out, ExitLine(nonce, code))
        /\ \/ pc = "dispatcher" /\ IsCheck /\ code = 0 /\ harm' = "none"
           \/ /\ pc = "dispatcher" /\ ~IsCheck /\ code = 1 /\ harm' = "none"
              /\ \/ GoRejects(req.op, req.args, ParseWire(wire))
                 \/ LinkInTheWay(ParseWire(wire))
           \/ pc = "dispatcher" /\ ~IsCheck /\ code = 126 /\ harm' = "exec"
           \/ pc = "trailer" /\ code = inner /\ harm' = harm
  BY TrailingFacts
<1>2. "none" \in Names /\ calls \in Nat /\ out \in Seq(Lines)
  BY DEF Names, Typed
<1>3. ExitLine(nonce, code) \in Lines /\ ExitLine(nonce, code).k = "exit"
      /\ ExitLine(nonce, code).n = nonce /\ ExitLine(nonce, code).val = code
  BY <1>2 DEF ExitLine, Line, Lines
<1>4. Kept(1) /\ out'[Len(out) + 1] = ExitLine(nonce, code)
  BY <1>1, <1>2, <1>3, OneMore DEF Kept
<1> QED
  BY <1>1, <1>3, <1>4

\* An untrusted line is the one line added.
LEMMA PrintPipe ==
  ASSUME Typed, Printing
  PROVE  /\ Kept(1)
         /\ out'[Len(out) + 1].n # nonce /\ out'[Len(out) + 1].n < nonce
         /\ out'[Len(out) + 1].n <= nonce
         /\ out'[Len(out) + 1].k \notin {"q", "data"}
<1>1. PICK line \in Lines : out' = Append(out, line) /\ line.n < nonce /\ line.k \notin {"q", "data"}
  BY PrintFacts
<1>2. Kept(1) /\ out'[Len(out) + 1] = line
  BY <1>1, OneMore DEF Kept, Typed
<1>3. line.n # nonce /\ line.n <= nonce
  BY <1>1 DEF Lines, Typed
<1> QED
  BY <1>1, <1>2, <1>3

\* The marker of the query is the one line added.
LEMMA AskPipe ==
  ASSUME Typed, AskQuery
  PROVE  /\ Kept(1)
         /\ out'[Len(out) + 1] = QLine(nonce, Query)
         /\ out'[Len(out) + 1].k = "q" /\ out'[Len(out) + 1].n = nonce
         /\ out'[Len(out) + 1].of = Query
<1>1. Query \in Names /\ calls \in Nat /\ 0 \in {-1, 0, 1, 126}
  BY AskFacts, QueryFacts DEF Typed
<1>2. QLine(nonce, Query) \in Lines /\ QLine(nonce, Query).k = "q" /\ QLine(nonce, Query).n = nonce
      /\ QLine(nonce, Query).of = Query
  BY <1>1 DEF QLine, Line, Lines
<1>3. Kept(1) /\ out'[Len(out) + 1] = QLine(nonce, Query)
  <2>1. out' = Append(out, QLine(nonce, Query)) /\ out \in Seq(Lines)
    BY AskFacts DEF Typed
  <2> QED
    BY <1>2, <2>1, OneMore DEF Kept
<1> QED
  BY <1>2, <1>3

\* The answer and the marker of its exit code are added.
LEMMA AnswerPipe ==
  ASSUME Typed, pc = "query" => Len(answers) < 5, Answering
  PROVE  /\ Kept(2)
         /\ LET a == out'[Len(out) + 1]
                b == out'[Len(out) + 2]
            IN  /\ a.k \in {"data", "error"} /\ a.n = 0
                /\ a.k = "data" => a.of = Query /\ a.val = Says(Query)
                /\ b.k = "rc" /\ b.n = nonce /\ b.of = Query
                /\ \E code \in {0, 1} :
                     /\ answers' = Append(answers, code)
                     /\ b.val = code /\ b = RcLine(nonce, Query, code)
                     /\ code = 0 => a = DataLine(Query, Says(Query))
                     /\ (code = 0 /\ Query # "auth-probe") => site.daemon.up
<1>1. PICK code \in {0, 1}, line \in Lines :
        /\ out' = Append(Append(out, line), RcLine(nonce, Query, code))
        /\ answers' = Append(answers, code)
        /\ line.k \in {"data", "error"} /\ line.n = 0
        /\ line.k = "data" => line.of = Query /\ line.val = Says(Query)
        /\ code = 0 => line = DataLine(Query, Says(Query))
        /\ (code = 0 /\ Query # "auth-probe") => site.daemon.up
  BY AnswerFacts
<1>2. Query \in Names /\ calls \in Nat /\ code \in {-1, 0, 1, 126}
  BY AnswerFacts, QueryFacts DEF Typed
<1> DEFINE rc == RcLine(nonce, Query, code)
           mid == Append(out, line)
<1>3. rc \in Lines /\ rc.k = "rc" /\ rc.n = nonce /\ rc.of = Query /\ rc.val = code
  BY <1>2 DEF RcLine, Line, Lines
<1>4. /\ Len(out) \in Nat /\ DOMAIN out = 1..Len(out)
      /\ mid \in Seq(Lines) /\ Len(mid) = Len(out) + 1 /\ DOMAIN mid = 1..(Len(out) + 1)
      /\ (\A i \in 1..Len(out) : mid[i] = out[i])
      /\ mid[Len(out) + 1] = line
  BY OneMore DEF Typed
<1> HIDE DEF rc, mid
<1>5. out' = Append(mid, rc)
  BY <1>1 DEF mid, rc
<1>6. /\ out' \in Seq(Lines) /\ out' # <<>>
      /\ Len(out') = Len(mid) + 1 /\ DOMAIN out' = 1..(Len(mid) + 1)
      /\ (\A i \in 1..Len(mid) : out'[i] = mid[i])
      /\ out'[Len(mid) + 1] = rc
  BY <1>3, <1>4, <1>5, OneMore
<1>7. Len(mid) + 1 = Len(out) + 2 /\ Len(out) + 1 \in 1..Len(mid)
      /\ 1..Len(out) \subseteq 1..Len(mid)
  BY <1>4
<1>8. Kept(2) /\ out'[Len(out) + 1] = line /\ out'[Len(out) + 2] = rc
  BY <1>4, <1>6, <1>7 DEF Kept
<1> QED
  BY <1>1, <1>3, <1>8 DEF rc

\* The pipe begins with the dispatcher's line.
LEMMA AnnouncePipe ==
  ASSUME Typed, Announce
  PROVE  /\ out' \in Seq(Lines) /\ out' # <<>> /\ Len(out') = 1 /\ DOMAIN out' = 1..1
         /\ out'[1] = BeginLine(nonce) /\ out'[1].k = "begin" /\ out'[1].n = nonce
<1>1. "none" \in Names /\ calls \in Nat /\ 0 \in {-1, 0, 1, 126}
  BY DEF Names, Typed
<1>2. BeginLine(nonce) \in Lines /\ BeginLine(nonce).k = "begin" /\ BeginLine(nonce).n = nonce
  BY <1>1 DEF BeginLine, Line, Lines
<1>3. out' = <<BeginLine(nonce)>>
  BY AnnounceFacts
<1> QED
  BY <1>2, <1>3

\* Types are kept.
LEMMA TypedStep ==
  ASSUME Typed, Fresh, InPlace, [Next]_vars
  PROVE  Typed'
<1> USE DEF Typed, States, Going
<1>1. CASE NewCall
  BY <1>1, NewCallFacts DEF SU, OR
<1>2. CASE Forget
  BY <1>2, ForgetFacts DEF NoReq, Vias, Ops, NullaryOps, SU, OR
<1>3. CASE Announce
  BY <1>3, AnnounceFacts, SameCall, AnnouncePipe
<1>4. CASE Silent
  BY <1>4, SilentFacts, SameCall
<1>5. CASE Trailing
  BY <1>5, TrailingFacts, SameCall, TrailingPipe DEF Kept
<1>6. CASE Printing
  BY <1>6, PrintFacts, SameCall, PrintPipe DEF Kept
<1>7. CASE AskQuery
  BY <1>7, AskFacts, SameCall, AskPipe DEF Kept
<1>8. CASE Answering
  <2>1. pc = "query" => Len(answers) < 5
    BY DEF InPlace
  <2>2. PICK code \in {0, 1} : answers' = Append(answers, code)
    BY <1>8, <2>1, AnswerPipe
  <2>3. answers' \in Seq({0, 1}) /\ Len(answers') = Len(answers) + 1 /\ Len(answers) \in Nat
    BY <2>2, AppendProperties, LenProperties
  <2>4. Len(answers) < 5 /\ out' \in Seq(Lines)
        /\ UNCHANGED <<calls, req, wire, site, cmd, inner, result, harm>> /\ pc' = "bash"
        /\ pc = "query"
    BY <1>8, <2>1, AnswerFacts, AnswerPipe DEF Kept
  <2> QED
    BY <2>3, <2>4
<1>9. CASE Return
  BY <1>9, ReturnFacts, SameCall
<1>10. CASE TimesOut
  BY <1>10, TimesOutFacts, SameCall
<1>11. CASE UNCHANGED vars
  BY <1>11, SameCall DEF vars
<1> QED
  BY <1>1, <1>2, <1>3, <1>4, <1>5, <1>6, <1>7, <1>8, <1>9, <1>10, <1>11, StepKinds

\* Nothing is left of a call that was forgotten.
LEMMA FreshStep ==
  ASSUME Typed, Fresh, [Next]_vars
  PROVE  Fresh'
<1> USE DEF Fresh
<1>1. CASE NewCall
  BY <1>1, NewCallFacts
<1>2. CASE Forget
  BY <1>2, ForgetFacts
<1>3. CASE Announce
  BY <1>3, AnnounceFacts, SameCall
<1>4. CASE Silent
  BY <1>4, SilentFacts, SameCall DEF Going
<1>5. CASE Trailing
  BY <1>5, TrailingFacts, SameCall
<1>6. CASE Printing
  BY <1>6, PrintFacts, SameCall
<1>7. CASE AskQuery
  BY <1>7, AskFacts, SameCall
<1>8. CASE Answering
  <2>1. pc' = "bash"
    BY <1>8 DEF Answering, AnswerQuery
  <2> QED
    BY <2>1
<1>9. CASE Return
  BY <1>9, ReturnFacts, SameCall
<1>10. CASE TimesOut
  BY <1>10, TimesOutFacts, SameCall DEF Going
<1>11. CASE UNCHANGED vars
  BY <1>11, SameCall DEF vars
<1> QED
  BY <1>1, <1>2, <1>3, <1>4, <1>5, <1>6, <1>7, <1>8, <1>9, <1>10, <1>11, StepKinds

\* A --check runs nothing and is never mistaken.
LEMMA ChecksStep ==
  ASSUME Typed, Fresh, Checks, InPlace, BeginsFramed, [Next]_vars
  PROVE  Checks'
<1> USE DEF Checks
<1>1. CASE NewCall
  <2>1. req'.args \in ArgLists => req'.args # <<"--check">>
    BY ArgListFacts
  <2>2. req'.via # "check" => ~IsCheck'
    BY <1>1, <2>1, NewCallFacts DEF IsCheck
  <2>3. req'.via = "check" => IsCheck' /\ req'.mode = SU /\ pc' = "sudo" /\ cmd' = cmd
    BY <1>1, NewCallFacts DEF IsCheck
  <2>4. out' = <<>> /\ cmd = NoCommand /\ answers' = <<>>
    BY <1>1, NewCallFacts DEF Fresh
  <2> QED
    BY <2>2, <2>3, <2>4
<1>2. CASE Forget
  <2>1. req'.via = "invoke" /\ req'.args = <<"bad">>
    BY <1>2, ForgetFacts DEF NoReq
  <2> QED
    BY <2>1 DEF IsCheck
<1>3. CASE Announce
  BY <1>3, AnnounceFacts, SameCall
<1>4. CASE Silent
  <2>1. IsStream => ~IsCheck
    BY DEF IsStream
  <2>2. /\ UNCHANGED <<calls, req, wire, site, out, answers>> /\ IsCheck' = IsCheck
        /\ IsCheck => pc \in {"sudo", "dispatcher"} /\ pc' = "eof" /\ UNCHANGED cmd
    BY <1>4, <2>1, SilentFacts, SameCall DEF Going
  <2> QED
    BY <2>2
<1>5. CASE Trailing
  <2>1. /\ UNCHANGED <<calls, req, wire, site, cmd, answers>> /\ IsCheck' = IsCheck /\ pc' = "eof"
        /\ pc \in {"dispatcher", "trailer"}
    BY <1>5, TrailingFacts, SameCall
  <2>2. IsCheck => pc = "dispatcher" /\ Framed
    BY <2>1 DEF InPlace, Framed
  <2>3. IsCheck => out # <<>>
    BY <2>1, <2>2 DEF BeginsFramed, Going
  <2> QED
    BY <2>1, <2>3
<1>6. CASE Printing
  BY <1>6, PrintFacts, SameCall
<1>7. CASE AskQuery
  BY <1>7, AskFacts, SameCall
<1>8. CASE Answering
  <2>1. pc = "query" => Len(answers) < 5
    BY DEF InPlace
  <2> QED
    BY <1>8, <2>1, AnswerFacts, SameCall
<1>9. CASE Return
  BY <1>9, ReturnFacts, SameCall
<1>10. CASE TimesOut
  BY <1>10, TimesOutFacts, SameCall
<1>11. CASE UNCHANGED vars
  BY <1>11, SameCall DEF vars
<1> QED
  BY <1>1, <1>2, <1>3, <1>4, <1>5, <1>6, <1>7, <1>8, <1>9, <1>10, <1>11, StepKinds

\* What is in flight was let through.
LEMMA CallIsValidStep ==
  ASSUME Typed, Fresh, Checks, InPlace, CallIsValid, [Next]_vars
  PROVE  CallIsValid'
<1> USE DEF CallIsValid, Going, Fresh
<1>1. CASE NewCall
  BY <1>1, NewCallFacts
<1>2. CASE Forget
  BY <1>2, ForgetFacts
<1>3. CASE Announce
  BY <1>3, AnnounceFacts, SameCall
<1>4. CASE Silent
  BY <1>4, SilentFacts, SameCall
<1>5. CASE Trailing
  BY <1>5, TrailingFacts, SameCall
<1>6. CASE Printing
  BY <1>6, PrintFacts, SameCall
<1>7. CASE AskQuery
  BY <1>7, AskFacts, SameCall
<1>8. CASE Answering
  <2>1. pc = "query" => Len(answers) < 5
    BY DEF InPlace
  <2> QED
    BY <1>8, <2>1, AnswerFacts, SameCall
<1>9. CASE Return
  BY <1>9, ReturnFacts, SameCall
<1>10. CASE TimesOut
  BY <1>10, TimesOutFacts, SameCall
<1>11. CASE UNCHANGED vars
  BY <1>11, SameCall DEF vars
<1> QED
  BY <1>1, <1>2, <1>3, <1>4, <1>5, <1>6, <1>7, <1>8, <1>9, <1>10, <1>11, StepKinds

\* Where a call is, its other variables tell.
LEMMA InPlaceStep ==
  ASSUME Typed, Fresh, Checks, CallIsValid, InPlace, [Next]_vars
  PROVE  InPlace'
<1> USE DEF InPlace, Going
<1>1. CASE NewCall
  BY <1>1, NewCallFacts DEF Fresh
<1>2. CASE Forget
  BY <1>2, ForgetFacts
<1>3. CASE Announce
  BY <1>3, AnnounceFacts, SameCall DEF Checks
<1>4. CASE Silent
  BY <1>4, SilentFacts, SameCall DEF Checks, Framed
<1>5. CASE Trailing
  BY <1>5, TrailingFacts, SameCall
<1>6. CASE Printing
  BY <1>6, PrintFacts, SameCall
<1>7. CASE AskQuery
  BY <1>7, AskFacts, SameCall
<1>8. CASE Answering
  <2>1. pc = "query" => Len(answers) < 5
    OBVIOUS
  <2> QED
    BY <1>8, <2>1, AnswerFacts, SameCall
<1>9. CASE Return
  BY <1>9, ReturnFacts, SameCall
<1>10. CASE TimesOut
  BY <1>10, TimesOutFacts, SameCall
<1>11. CASE UNCHANGED vars
  BY <1>11, SameCall DEF vars
<1> QED
  BY <1>1, <1>2, <1>3, <1>4, <1>5, <1>6, <1>7, <1>8, <1>9, <1>10, <1>11, StepKinds

\* A pipe with something in it has a first line.
LEMMA NonEmpty ==
  ASSUME Typed, out # <<>>
  PROVE  Len(out) \in Nat /\ Len(out) >= 1 /\ 1 \in 1..Len(out) /\ Len(out) \in 1..Len(out)
<1>1. out \in Seq(Lines) /\ Len(out) \in Nat
  BY LenProperties DEF Typed
<1>2. Len(out) # 0
  BY <1>1, EmptySeq
<1> QED
  BY <1>1, <1>2

\* The first line stays the dispatcher's.
LEMMA BeginsFramedStep ==
  ASSUME Typed, Fresh, InPlace, BeginsFramed, [Next]_vars
  PROVE  BeginsFramed'
<1> USE DEF BeginsFramed, Going
<1>1. CASE NewCall
  BY <1>1, NewCallFacts DEF Fresh, Framed, SU, OR
<1>2. CASE Forget
  BY <1>2, ForgetFacts
<1>3. CASE Announce
  BY <1>3, AnnounceFacts, SameCall, AnnouncePipe
<1>4. CASE Silent
  BY <1>4, SilentFacts, SameCall DEF Framed
<1>5. CASE Trailing
  BY <1>5, TrailingFacts, SameCall, TrailingPipe, NonEmpty DEF Kept, InPlace, Framed
<1>6. CASE Printing
  BY <1>6, PrintFacts, SameCall, PrintPipe, NonEmpty DEF Kept, InPlace
<1>7. CASE AskQuery
  BY <1>7, AskFacts, SameCall, AskPipe, NonEmpty DEF Kept
<1>8. CASE Answering
  <2>1. pc = "query" => Len(answers) < 5
    BY DEF InPlace
  <2>2. pc = "query" /\ pc' = "bash" /\ UNCHANGED <<calls, req, wire, site, cmd, inner, result, harm>>
    BY <1>8, <2>1, AnswerFacts
  <2>3. Kept(2) /\ out'[Len(out) + 1].n = 0 /\ out'[Len(out) + 1].k # "exit"
        /\ out'[Len(out) + 2].k = "rc"
    BY <1>8, <2>1, AnswerPipe
  <2> QED
    BY <2>2, <2>3, NonEmpty, SameCall DEF Kept
<1>9. CASE Return
  BY <1>9, ReturnFacts, SameCall
<1>10. CASE TimesOut
  BY <1>10, TimesOutFacts, SameCall
<1>11. CASE UNCHANGED vars
  BY <1>11, SameCall DEF vars
<1> QED
  BY <1>1, <1>2, <1>3, <1>4, <1>5, <1>6, <1>7, <1>8, <1>9, <1>10, <1>11, StepKinds

\* Nothing comes behind the trailer.
LEMMA TrailerLastStep ==
  ASSUME Typed, Fresh, Checks, InPlace, TrailerLast, [Next]_vars
  PROVE  TrailerLast'
<1> USE DEF TrailerLast, IsTrailer
<1>1. CASE NewCall
  BY <1>1, NewCallFacts DEF Fresh
<1>2. CASE Forget
  BY <1>2, ForgetFacts
<1>3. CASE Announce
  BY <1>3, AnnounceFacts, SameCall, AnnouncePipe
<1>4. CASE Silent
  BY <1>4, SilentFacts, SameCall
<1>5. CASE Trailing
  BY <1>5, TrailingFacts, SameCall, TrailingPipe DEF Kept, InPlace, Framed
<1>6. CASE Printing
  BY <1>6, PrintFacts, SameCall, PrintPipe DEF Kept
<1>7. CASE AskQuery
  BY <1>7, AskFacts, SameCall, AskPipe DEF Kept
<1>8. CASE Answering
  <2>1. pc = "query" => Len(answers) < 5
    BY DEF InPlace
  <2>2. pc = "query" /\ pc' = "bash" /\ UNCHANGED <<calls, req, wire, site, cmd, inner, result, harm>>
    BY <1>8, <2>1, AnswerFacts
  <2>3. Kept(2) /\ out'[Len(out) + 1].n = 0 /\ out'[Len(out) + 1].k # "exit"
        /\ out'[Len(out) + 2].k = "rc"
    BY <1>8, <2>1, AnswerPipe
  <2> QED
    BY <2>2, <2>3, SameCall DEF Kept
<1>9. CASE Return
  BY <1>9, ReturnFacts, SameCall
<1>10. CASE TimesOut
  BY <1>10, TimesOutFacts, SameCall
<1>11. CASE UNCHANGED vars
  BY <1>11, SameCall DEF vars
<1> QED
  BY <1>1, <1>2, <1>3, <1>4, <1>5, <1>6, <1>7, <1>8, <1>9, <1>10, <1>11, StepKinds

\* A stream stays raw.
LEMMA RawStep ==
  ASSUME Typed, Fresh, InPlace, Raw, [Next]_vars
  PROVE  Raw'
<1> USE DEF Raw
<1>1. CASE NewCall
  BY <1>1, NewCallFacts DEF Fresh
<1>2. CASE Forget
  BY <1>2, ForgetFacts
<1>3. CASE Announce
  BY <1>3, AnnounceFacts, SameCall, AnnouncePipe
<1>4. CASE Silent
  BY <1>4, SilentFacts, SameCall
<1>5. CASE Trailing
  BY <1>5, TrailingFacts, SameCall, TrailingPipe DEF Kept, InPlace, Framed, IsStream
<1>6. CASE Printing
  <2>1. Kept(1) /\ out'[Len(out) + 1].n # nonce
    BY <1>6, PrintPipe
  <2>2. UNCHANGED <<calls, req, wire, site>>
    BY <1>6, PrintFacts
  <2>3. \A i \in DOMAIN out' : i \in 1..Len(out) \/ i = Len(out) + 1
    BY <2>1 DEF Kept
  <2> QED
    BY <2>1, <2>2, <2>3, SameCall DEF Kept
<1>7. CASE AskQuery
  BY <1>7, AskFacts, SameCall, AskPipe DEF Kept, IsStream
<1>8. CASE Answering
  BY <1>8, AnswerFacts, SameCall DEF InPlace, IsStream
<1>9. CASE Return
  BY <1>9, ReturnFacts, SameCall
<1>10. CASE TimesOut
  BY <1>10, TimesOutFacts, SameCall
<1>11. CASE UNCHANGED vars
  BY <1>11, SameCall DEF vars
<1> QED
  BY <1>1, <1>2, <1>3, <1>4, <1>5, <1>6, <1>7, <1>8, <1>9, <1>10, <1>11, StepKinds

\* The trailer says what happened.
LEMMA TrailerSaysStep ==
  ASSUME Typed, Fresh, Checks, CallIsValid, InPlace, TrailerLast, TrailerSays, [Next]_vars
  PROVE  TrailerSays'
<1> USE DEF TrailerSays, HasTrailer, IsTrailer
<1>1. CASE NewCall
  BY <1>1, NewCallFacts DEF Fresh
<1>2. CASE Forget
  BY <1>2, ForgetFacts
<1>3. CASE Announce
  BY <1>3, AnnounceFacts, SameCall, AnnouncePipe
<1>4. CASE Silent
  <2>1. UNCHANGED <<calls, out>> /\ pc # "eof" /\ pc # "returned"
    BY <1>4, SilentFacts DEF Going
  <2>2. ~HasTrailer
    BY <2>1, NonEmpty DEF TrailerLast, Typed
  <2> QED
    BY <2>1, <2>2 DEF IsTrailer
<1>5. CASE Trailing
  <2>1. Kept(1) /\ out'[Len(out) + 1].k = "exit"
    BY <1>5, TrailingPipe
  <2>2. Len(out') = Len(out) + 1
    BY <2>1 DEF Kept
  <2>3. pc = "dispatcher" /\ ~IsCheck => ~GoRejects(req.op, req.args, ParseWire(wire))
    BY NotRejected DEF CallIsValid, Going, Checks
  <2>4. UNCHANGED <<calls, req, wire, site, cmd, inner, answers, result>>
    BY <1>5, TrailingFacts
  <2> QED
    BY <1>5, <2>2, <2>3, <2>4, TrailingPipe, SameCall DEF Checks, InPlace
<1>6. CASE Printing
  BY <1>6, PrintFacts, SameCall, PrintPipe DEF Kept
<1>7. CASE AskQuery
  BY <1>7, AskFacts, SameCall, AskPipe DEF Kept
<1>8. CASE Answering
  BY <1>8, AnswerFacts DEF InPlace
<1>9. CASE Return
  BY <1>9, ReturnFacts, SameCall
<1>10. CASE TimesOut
  BY <1>10, TimesOutFacts, SameCall
<1>11. CASE UNCHANGED vars
  BY <1>11, SameCall DEF vars
<1> QED
  BY <1>1, <1>2, <1>3, <1>4, <1>5, <1>6, <1>7, <1>8, <1>9, <1>10, <1>11, StepKinds

\* A pipe that nobody cut short is complete.
LEMMA NotCutShortStep ==
  ASSUME Typed, Fresh, Checks, CallIsValid, InPlace, NotCutShort, [Next]_vars
  PROVE  NotCutShort'
<1> USE DEF NotCutShort
<1>1. CASE NewCall
  BY <1>1, NewCallFacts
<1>2. CASE Forget
  BY <1>2, ForgetFacts
<1>3. CASE Announce
  BY <1>3, AnnounceFacts, SameCall, AnnouncePipe
<1>4. CASE Silent
  <2>1. pc = "sudo" /\ IsStream => ~GoRejects(req.op, req.args, ParseWire(wire))
    BY NotRejected DEF CallIsValid, Going, Checks, IsStream
  <2> QED
    BY <1>4, <2>1, SilentFacts, SameCall DEF Framed, Checks
<1>5. CASE Trailing
  <2>1. Kept(1) /\ out'[Len(out) + 1].k = "exit" /\ out'[Len(out) + 1].n = nonce
    BY <1>5, TrailingPipe
  <2>2. out' # <<>> /\ Len(out') = Len(out) + 1
    BY <2>1 DEF Kept
  <2>3. UNCHANGED <<calls, req, wire, site, cmd, inner, answers, result>> /\ pc \in {"dispatcher", "trailer"}
    BY <1>5, TrailingFacts
  <2>4. HasTrailer' /\ Framed' = Framed /\ Framed
    BY <2>1, <2>2, <2>3, SameCall DEF HasTrailer, IsTrailer, InPlace, Framed
  <2> QED
    BY <2>4
<1>6. CASE Printing
  BY <1>6, PrintFacts, SameCall, PrintPipe DEF Kept
<1>7. CASE AskQuery
  BY <1>7, AskFacts, SameCall, AskPipe DEF Kept
<1>8. CASE Answering
  BY <1>8, AnswerFacts DEF InPlace
<1>9. CASE Return
  BY <1>9, ReturnFacts, SameCall
<1>10. CASE TimesOut
  BY <1>10, TimesOutFacts, SameCall
<1>11. CASE UNCHANGED vars
  BY <1>11, SameCall DEF vars, HasTrailer, IsTrailer
<1> QED
  BY <1>1, <1>2, <1>3, <1>4, <1>5, <1>6, <1>7, <1>8, <1>9, <1>10, <1>11, StepKinds

-----------------------------------------------------------------------------
(* The verdict *)

\* What the orchestrator reads off the pipe of a framed crossing: the nonce is
\* the dispatcher's, and an exit code that is found is that of its trailer.
LEMMA FrameFacts ==
  ASSUME Typed, BeginsFramed, TrailerLast, Framed, pc # "idle", out # <<>>
  PROVE  /\ FrameNonce(out) = nonce
         /\ RecoveredExit(out) # -1 => HasTrailer /\ RecoveredExit(out) = out[Len(out)].val
         /\ (HasTrailer /\ \A i \in DOMAIN out : out[i].nl) => RecoveredExit(out) = out[Len(out)].val
<1>1. /\ out \in Seq(Lines) /\ Len(out) \in Nat /\ Len(out) >= 1 /\ 1 \in 1..Len(out)
      /\ Len(out) \in 1..Len(out) /\ DOMAIN out = 1..Len(out) /\ nonce \in Nat /\ nonce # 0
  BY NonEmpty, LenProperties DEF Typed
<1>2. out[1] = BeginLine(nonce) /\ out[1].k = "begin" /\ out[1].n = nonce
  BY DEF BeginsFramed, BeginLine, Line
<1> DEFINE begins == {i \in Places(out, "begin") : AtLineStart(out, i)}
<1>3. begins \subseteq Nat /\ 1 \in begins
  BY <1>1, <1>2 DEF Places, AtLineStart
<1>4. Min(begins) = 1
  <2>1. begins \subseteq 1..Len(out)
    BY <1>1 DEF Places
  <2>2. Min(begins) \in begins /\ Min(begins) <= 1
    BY <1>3, MinFacts
  <2> QED
    BY <2>1, <2>2
<1>5. FrameNonce(out) = nonce
  BY <1>2, <1>3, <1>4 DEF FrameNonce
<1>6. \A i \in Trailers(out) : i = Len(out) /\ IsTrailer(i)
  BY <1>5 DEF Trailers, Places, TrailerLast, IsTrailer
<1>7. Trailers(out) # {} =>
        HasTrailer /\ RecoveredExit(out) = out[Len(out)].val
  <2> SUFFICES ASSUME Trailers(out) # {} PROVE HasTrailer /\ RecoveredExit(out) = out[Len(out)].val
    OBVIOUS
  <2>1. Trailers(out) = {Len(out)} /\ HasTrailer
    BY <1>6 DEF HasTrailer
  <2>2. PICK last \in Nat : last = Len(out)
    BY <1>1
  <2>3. Max({last}) = last
    BY <2>2, OnlyElement
  <2>4. Max(Trailers(out)) = last
    BY <2>1, <2>2, <2>3
  <2> QED
    BY <1>1, <1>5, <2>1, <2>2, <2>4 DEF RecoveredExit
<1>8. Trailers(out) = {} => RecoveredExit(out) = -1
  BY DEF RecoveredExit
<1>9. (HasTrailer /\ \A i \in DOMAIN out : out[i].nl) => Trailers(out) # {}
  <2> SUFFICES ASSUME HasTrailer, \A i \in DOMAIN out : out[i].nl PROVE Len(out) \in Trailers(out)
    OBVIOUS
  <2>1. Len(out) = 1 \/ Len(out) - 1 \in DOMAIN out
    BY <1>1
  <2>2. AtLineStart(out, Len(out))
    BY <2>1 DEF AtLineStart
  <2> QED
    BY <1>1, <1>5, <2>2 DEF Trailers, Places, HasTrailer, IsTrailer
<1> QED
  BY <1>5, <1>7, <1>8, <1>9

\* An empty pipe says nothing.
LEMMA NothingRecovered == RecoveredExit(<<>>) = -1
<1>1. Places(<<>>, "begin") = {}
  BY DEF Places
<1>2. FrameNonce(<<>>) = 0
  BY <1>1 DEF FrameNonce
<1> QED
  BY <1>2 DEF RecoveredExit

\* A crossing that was recovered as a success did succeed.
LEMMA SuccessFacts ==
  ASSUME Typed, Checks, CallIsValid, InPlace, BeginsFramed, TrailerLast, TrailerSays,
         pc = "eof", ~IsStream, ExitCode = 0
  PROVE  /\ req.via = "check" => site.rule /\ cmd = NoCommand
         /\ req.via # "check" => cmd = Asked /\ inner = 0
         /\ req.mode = SU => FrameNonce(out) = nonce
<1>1. req.via # "check" => LetThrough
  BY DEF CallIsValid
<1>2. (req.via # "check" /\ inner # -1) => cmd = Asked
  BY <1>1, CommandIsAsked DEF InPlace
<1>3. CASE req.mode = SU
  <2>1. Framed /\ RecoveredExit(out) = 0
    BY <1>3 DEF Framed, ExitCode
  <2>2. out # <<>>
    BY <2>1, NothingRecovered
  <2>3. FrameNonce(out) = nonce /\ HasTrailer /\ out[Len(out)].val = 0
    BY <2>1, <2>2, FrameFacts
  <2>4. req.via = "check" \/ (req.via # "check" /\ inner = 0)
    BY <2>3 DEF TrailerSays
  <2> QED
    BY <1>2, <2>2, <2>3, <2>4 DEF Checks
<1>4. CASE req.mode # SU
  BY <1>2, <1>4 DEF ExitCode, Checks
<1> QED
  BY <1>3, <1>4

\* A crossing that failed and that nothing disturbed failed for the op or for a link.
LEMMA FailureFacts ==
  ASSUME Typed, Checks, CallIsValid, BeginsFramed, TrailerLast, TrailerSays, NotCutShort,
         pc = "eof", ~IsStream, ExitCode # 0, harm = "none", \A i \in DOMAIN out : out[i].nl
  PROVE  inner = 1 \/ \E l \in site.links : IsPrefix(InstanceDir(req.args[1]), l)
<1>1. CASE req.mode = SU
  <2>1. Framed /\ HasTrailer /\ out # <<>> /\ RecoveredExit(out) # 0
    BY <1>1 DEF Framed, ExitCode, NotCutShort, HasTrailer
  <2>2. out[Len(out)].val # 0
    BY <2>1, FrameFacts
  <2>3. \/ req.via # "check" /\ LinkInTheWay(ParseWire(wire))
        \/ out[Len(out)].val = inner /\ inner # -1
    BY <2>1, <2>2 DEF TrailerSays
  <2>4. req.via # "check" => LetThrough
    BY DEF CallIsValid
  <2> QED
    BY <2>2, <2>3, <2>4, RejectedForLink DEF Typed
<1>2. CASE req.mode # SU
  BY <1>2 DEF Framed, ExitCode, NotCutShort, Typed
<1> QED
  BY <1>1, <1>2

\* A verdict is given by Return, or is one of these, or is the one given before.
LEMMA VerdictStep ==
  ASSUME Typed, Fresh, CallIsValid, InPlace, [Next]_vars
  PROVE  \/ Return
         \/ UNCHANGED vars
         \/ result'.status \in {"none", "refused", "timed_out"} /\ result'.nonce = 0
<1>1. pc # "returned" => result.status = "none" /\ result.nonce = 0
  BY DEF Typed, States, Fresh, CallIsValid, Going, NoResult
<1>2. CASE NewCall
  BY <1>1, <1>2, NewCallFacts
<1>3. CASE Forget
  BY <1>3, ForgetFacts DEF NoResult
<1>4. CASE TimesOut
  BY <1>4, TimesOutFacts
<1>5. CASE Announce
  BY <1>1, <1>5, AnnounceFacts
<1>6. CASE Silent
  BY <1>1, <1>6, SilentFacts DEF Going
<1>7. CASE Trailing
  BY <1>1, <1>7, TrailingFacts
<1>8. CASE Printing
  BY <1>1, <1>8, PrintFacts
<1>9. CASE AskQuery
  BY <1>1, <1>9, AskFacts
<1>10. CASE Answering
  BY <1>1, <1>10, AnswerFacts DEF InPlace
<1> QED
  BY <1>2, <1>3, <1>4, <1>5, <1>6, <1>7, <1>8, <1>9, <1>10, StepKinds

\* The verdict and what it is about stay as they are.
LEMMA AskedKept ==
  ASSUME UNCHANGED <<req, site>>
  PROVE  Asked' = Asked
  BY DEF Asked

\* A step keeps OkMeansDone: only Return says "ok".
LEMMA OkStep ==
  ASSUME Typed, Fresh, Checks, CallIsValid, InPlace, BeginsFramed, TrailerLast, TrailerSays,
         OkMeansDone, [Next]_vars
  PROVE  OkMeansDone'
<1>1. CASE Return
  BY <1>1, ReturnFacts, SuccessFacts, AskedKept DEF OkMeansDone
<1>2. CASE UNCHANGED vars
  BY <1>2, AskedKept DEF OkMeansDone, vars
<1> QED
  BY <1>1, <1>2, VerdictStep DEF OkMeansDone

\* A step keeps UnharmedCallSucceeds.
LEMMA UnharmedStep ==
  ASSUME Typed, Fresh, Checks, CallIsValid, InPlace, BeginsFramed, TrailerLast, TrailerSays,
         NotCutShort, UnharmedCallSucceeds, [Next]_vars
  PROVE  UnharmedCallSucceeds'
<1>1. CASE Return
  BY <1>1, ReturnFacts, FailureFacts DEF UnharmedCallSucceeds
<1>2. CASE UNCHANGED vars
  BY <1>2 DEF UnharmedCallSucceeds, vars
<1> QED
  BY <1>1, <1>2, VerdictStep DEF UnharmedCallSucceeds

\* A step keeps StreamReachesItsCore: a stream runs what was asked for.
LEMMA StreamStep ==
  ASSUME Typed, Fresh, Checks, CallIsValid, InPlace, NotCutShort, StreamReachesItsCore, [Next]_vars
  PROVE  StreamReachesItsCore'
<1>1. CASE Return
  <2>1. UNCHANGED <<req, site, cmd, harm>> /\ pc = "eof"
    BY <1>1, ReturnFacts
  <2>2. SUFFICES ASSUME IsStream, harm = "none"
                 PROVE  cmd = Asked /\ ((cmd.ip[1] - 100) * 256 + cmd.ip[2]) \div 5 = site.slot
    BY <1>1, <2>1, ReturnFacts, AskedKept DEF StreamReachesItsCore
  <2>3. LetThrough /\ req.op = "fwd"
    BY <2>1, <2>2 DEF CallIsValid, Checks, IsStream
  <2>4. cmd = Asked
    BY <2>1, <2>2, <2>3, CommandIsAsked DEF InPlace, NotCutShort, Framed
  <2>5. cmd.ip = CoreIpcIp(site.slot)
    BY <2>3, <2>4 DEF Asked
  <2> QED
    BY <2>3, <2>4, <2>5, CoreAddress DEF LetThrough
<1>2. CASE UNCHANGED vars
  BY <1>2, AskedKept DEF StreamReachesItsCore, vars
<1> QED
  BY <1>1, <1>2, VerdictStep DEF StreamReachesItsCore

\* A framed crossing that was answered and not cut short has its trailer.
Answered ==
  (/\ result.status \in {"ok", "failed"} /\ req.mode = SU
   /\ harm \in {"none", "exec"})
  => HasTrailer

\* A step keeps Answered.
LEMMA AnsweredStep ==
  ASSUME Typed, Fresh, Checks, CallIsValid, InPlace, NotCutShort, Answered, [Next]_vars
  PROVE  Answered'
<1>1. CASE Return
  <2>1. HasTrailer' = HasTrailer
    BY <1>1, ReturnFacts DEF HasTrailer, IsTrailer
  <2> QED
    BY <1>1, <2>1, ReturnFacts DEF Answered, NotCutShort, Framed
<1>2. CASE UNCHANGED vars
  BY <1>2 DEF Answered, HasTrailer, IsTrailer, vars
<1> QED
  BY <1>1, <1>2, VerdictStep DEF Answered

\* The trailer is the last line, so there is one at most.
LEMMA OnceFollows ==
  ASSUME Typed, TrailerLast, Answered
  PROVE  TrailerOnce
<1> DEFINE own == {i \in Places(out, "exit") : out[i].n = nonce}
<1>1. own \subseteq {Len(out)}
  BY DEF Places, TrailerLast, IsTrailer
<1>2. IsFiniteSet({Len(out)}) /\ Cardinality({Len(out)}) = 1 /\ Cardinality({}) = 0
  BY FS_Singleton, FS_EmptySet
<1>3. own = {} \/ own = {Len(out)}
  BY <1>1
<1>4. HasTrailer => Len(out) \in own
  BY NonEmpty, LenProperties DEF HasTrailer, IsTrailer, Places, Typed
<1> HIDE DEF own
<1>5. Cardinality(own) \in {0, 1} /\ (own # {} => Cardinality(own) = 1)
  BY <1>2, <1>3
<1>6. Cardinality(own) <= 1 /\ (HasTrailer => Cardinality(own) = 1)
  BY <1>4, <1>5
<1> QED
  BY <1>6 DEF TrailerOnce, Answered, own

\* A proxied fwd is a stream.
LEMMA RawFollows ==
  ASSUME Checks, Raw
  PROVE  StreamIsRaw
  BY DEF Checks, Raw, StreamIsRaw, IsStream

-----------------------------------------------------------------------------
(* Bounds *)

InBounds ==
  /\ calls <= MaxCalls
  /\ \A i \in DOMAIN out : out[i].n <= nonce
  /\ result.status \in {"none", "ok", "failed", "timed_out", "refused", "streamed"}
  /\ result.nonce \in {0, nonce}

-----------------------------------------------------------------------------
(* The markers of preflight *)

QAt(i, j) == /\ i \in DOMAIN out
             /\ out[i].k = "q" /\ out[i].n = nonce /\ out[i].of = Queries[j]
RcAt(i, j) == /\ i \in DOMAIN out
              /\ out[i].k = "rc" /\ out[i].n = nonce /\ out[i].of = Queries[j]

\* What the daemon is quoted with, it said.
Quoted == \A i \in DOMAIN out : out[i].k = "data" => out[i].val = Says(out[i].of)

\* A marker is that of a query that was asked, and an exit code the query's.
Marked ==
  \A i \in DOMAIN out, j \in 1..5 :
    /\ QAt(i, j) => j <= Len(answers) + 1 /\ (pc \in {"sudo", "dispatcher", "bash"} => j <= Len(answers))
    /\ RcAt(i, j) => j <= Len(answers) /\ out[i].val = answers[j]

\* Each marker comes once, those of a query in their order and before the next query's.
Ordered ==
  \A a, b \in DOMAIN out, j \in 1..5 :
    /\ QAt(a, j) /\ QAt(b, j) => a = b
    /\ RcAt(a, j) /\ RcAt(b, j) => a = b
    /\ QAt(a, j) /\ RcAt(b, j) => a < b
    /\ \A l \in 1..5 : RcAt(a, j) /\ QAt(b, l) /\ j < l => a < b

\* A query that was answered has its markers, and one that succeeded its data before them.
Present ==
  /\ \A j \in 1..Len(answers) :
       /\ \E i \in DOMAIN out : QAt(i, j)
       /\ \E i \in DOMAIN out :
            /\ RcAt(i, j)
            /\ answers[j] = 0 =>
                 i - 1 \in DOMAIN out /\ out[i - 1] = DataLine(Queries[j], Says(Queries[j]))
  /\ pc = "query" => \E i \in DOMAIN out : QAt(i, Len(answers) + 1)

\* Only a daemon that is up lets a query of it succeed.
Answers ==
  /\ \A j \in 2..Len(answers) : answers[j] = 0 => site.daemon.up
  /\ (req.op = "preflight" /\ inner # -1) => Len(answers) = 5

\* No line has the nonce of a later call.
LEMMA InBoundsStep ==
  ASSUME Typed, Fresh, Checks, CallIsValid, InPlace, BeginsFramed, TrailerLast, TrailerSays, InBounds, [Next]_vars
  PROVE  InBounds'
<1> USE DEF InBounds
<1>1. CASE NewCall
  <2>1. calls < MaxCalls
    BY <1>1 DEF NewCall
  <2>2. out' = <<>> /\ calls' = calls + 1 /\ result.nonce = 0 /\ result.status = "none"
    BY <1>1, NewCallFacts DEF Fresh, NoResult
  <2>3. \/ result' = result \/ result' = [status |-> "refused", nonce |-> 0]
    BY <1>1, NewCallFacts
  <2>4. calls \in Nat /\ MaxCalls \in Nat
    BY DispatchAssumption DEF Typed
  <2>5. calls' <= MaxCalls
    BY <2>1, <2>2, <2>4
  <2>6. \A i \in DOMAIN out' : out'[i].n <= calls'
    BY <2>2
  <2> QED
    BY <2>2, <2>3, <2>5, <2>6
<1>2. CASE Forget
  BY <1>2, ForgetFacts DEF NoResult
<1>3. CASE Announce
  BY <1>3, AnnounceFacts, SameCall, AnnouncePipe DEF Typed
<1>4. CASE Silent
  BY <1>4, SilentFacts, SameCall
<1>5. CASE Trailing
  BY <1>5, TrailingFacts, SameCall, TrailingPipe DEF Kept, Typed
<1>6. CASE Printing
  BY <1>6, PrintFacts, SameCall, PrintPipe DEF Kept, Typed
<1>7. CASE AskQuery
  BY <1>7, AskFacts, SameCall, AskPipe DEF Kept, Typed
<1>8. CASE Answering
  <2>1. pc = "query" => Len(answers) < 5
    BY DEF InPlace
  <2>2. UNCHANGED <<calls, result>> /\ calls \in Nat
    BY <1>8, <2>1, AnswerFacts DEF Typed
  <2>3. Kept(2) /\ out'[Len(out) + 1].n <= calls /\ out'[Len(out) + 2].n <= calls
    BY <1>8, <2>1, <2>2, AnswerPipe
  <2>4. \A i \in DOMAIN out' : i \in 1..Len(out) \/ i = Len(out) + 1 \/ i = Len(out) + 2
    BY <2>3 DEF Kept
  <2> QED
    BY <2>2, <2>3, <2>4 DEF Kept
<1>9. CASE Return
  <2>1. UNCHANGED <<calls, out>> /\ pc = "eof"
    BY <1>9, ReturnFacts
  <2>2. (~IsStream /\ ExitCode = 0 /\ req.mode = SU) => FrameNonce(out) = nonce
    BY <2>1, SuccessFacts
  <2> QED
    BY <1>9, <2>1, <2>2, ReturnFacts
<1>10. CASE TimesOut
  BY <1>10, TimesOutFacts, SameCall
<1>11. CASE UNCHANGED vars
  BY <1>11, SameCall DEF vars
<1> QED
  BY <1>1, <1>2, <1>3, <1>4, <1>5, <1>6, <1>7, <1>8, <1>9, <1>10, <1>11, StepKinds

\* The five queries are different ones.
LEMMA QueriesFacts ==
  /\ Len(Queries) = 5
  /\ Queries[1] = "auth-probe" /\ Queries[2] = "docker-version"
  /\ Queries[3] = "security-options" /\ Queries[4] = "runtimes" /\ Queries[5] = "compose-ls"
  /\ \A j \in 1..5, l \in 1..5 : Queries[j] = Queries[l] => j = l
<1>1. /\ Len(Queries) = 5
      /\ Queries[1] = "auth-probe" /\ Queries[2] = "docker-version"
      /\ Queries[3] = "security-options" /\ Queries[4] = "runtimes" /\ Queries[5] = "compose-ls"
  BY DEF Queries
<1>2. \A j \in 1..5 : j = 1 \/ j = 2 \/ j = 3 \/ j = 4 \/ j = 5
  OBVIOUS
<1> QED
  BY <1>1, <1>2

\* Steps that leave nothing of a query in the pipe, and steps that add nothing of one.
Restarts == /\ answers' = <<>> /\ inner' = -1
            /\ pc' # "query"
            /\ \A i \in DOMAIN out' : out'[i].k \notin {"q", "rc", "data"}
Quiet == /\ UNCHANGED <<calls, req, wire, site, answers>>
         /\ pc' = "query" => pc = "query"
         /\ pc' \in {"sudo", "dispatcher", "bash"} => pc \in {"sudo", "dispatcher", "bash"}
         /\ (req.op = "preflight" /\ inner' # -1) => inner # -1 \/ Len(answers) = 5
         /\ \A i \in DOMAIN out : i \in DOMAIN out' /\ out'[i] = out[i]
         /\ \A i \in DOMAIN out' :
              i \in DOMAIN out \/ (out'[i].k \notin {"q", "data"} /\ (out'[i].k = "rc" => out'[i].n # nonce))

\* One step is of one of these classes, or asks a query, or answers it.
LEMMA StepClasses ==
  ASSUME Typed, Fresh, InPlace, [Next]_vars
  PROVE  Restarts \/ Quiet \/ AskQuery \/ Answering
<1>1. CASE NewCall
  BY <1>1, NewCallFacts DEF Fresh, Restarts
<1>2. CASE Forget
  BY <1>2, ForgetFacts DEF Restarts
<1>3. CASE Announce
  <2>1. answers' = <<>> /\ inner' = -1 /\ pc' = "dispatcher"
    BY <1>3, AnnounceFacts DEF InPlace
  <2> QED
    BY <1>3, <2>1, AnnouncePipe DEF Restarts
<1>4. CASE Silent
  BY <1>4, SilentFacts DEF Quiet
<1>5. CASE Trailing
  <2>1. UNCHANGED <<calls, req, wire, site, inner, answers>> /\ pc' = "eof"
    BY <1>5, TrailingFacts
  <2>2. Kept(1) /\ out'[Len(out) + 1].k = "exit"
    BY <1>5, TrailingPipe
  <2> QED
    BY <2>1, <2>2 DEF Kept, Quiet
<1>6. CASE Printing
  <2>1. UNCHANGED <<calls, req, wire, site, inner, answers, pc>>
    BY <1>6, PrintFacts
  <2>2. Kept(1) /\ out'[Len(out) + 1].k \notin {"q", "data"} /\ out'[Len(out) + 1].n # nonce
    BY <1>6, PrintPipe
  <2> QED
    BY <2>1, <2>2 DEF Kept, Quiet
<1>7. CASE Return
  BY <1>7, ReturnFacts DEF Quiet
<1>8. CASE TimesOut
  BY <1>8, TimesOutFacts DEF Quiet
<1>9. CASE UNCHANGED vars
  BY <1>9 DEF Quiet, vars
<1> QED
  BY <1>1, <1>2, <1>3, <1>4, <1>5, <1>6, <1>7, <1>8, <1>9, StepKinds

\* Where the markers are after a step.
LEMMA QuietMarks ==
  ASSUME Quiet
  PROVE  \A i, j : QAt(i, j)' = QAt(i, j) /\ RcAt(i, j)' = RcAt(i, j)
  BY DEF Quiet, QAt, RcAt

\* A new pipe has no markers.
LEMMA NoMarks ==
  ASSUME Restarts
  PROVE  \A i, j : ~QAt(i, j)' /\ ~RcAt(i, j)'
  BY DEF Restarts, QAt, RcAt

\* Asking adds the first marker of the query.
LEMMA AskMarks ==
  ASSUME Typed, AskQuery
  PROVE  /\ \A i, j : RcAt(i, j)' = RcAt(i, j)
         /\ \A i, j : QAt(i, j) => QAt(i, j)'
         /\ \A i, j : QAt(i, j)' => QAt(i, j) \/ (i = Len(out) + 1 /\ Queries[j] = Query)
         /\ \A i, j : i = Len(out) + 1 /\ Queries[j] = Query => QAt(i, j)'
         /\ \A j \in 1..5 : Queries[j] = Query => j = Len(answers) + 1
<1>1. /\ Kept(1) /\ out'[Len(out) + 1].k = "q" /\ out'[Len(out) + 1].n = nonce
      /\ out'[Len(out) + 1].of = Query
  BY AskPipe
<1>2. calls' = calls /\ Len(answers) < 5
  BY AskFacts
<1>3. Len(answers) \in 0..4 /\ Query = Queries[Len(answers) + 1]
  BY <1>2, QueryFacts
<1>4. \A i \in DOMAIN out' : i \in DOMAIN out \/ i = Len(out) + 1
  BY <1>1 DEF Kept
<1>5. \A i \in DOMAIN out : i \in DOMAIN out' /\ out'[i] = out[i]
  BY <1>1 DEF Kept
<1>6. Len(out) + 1 \in DOMAIN out'
  BY <1>1 DEF Kept
<1>7. \A j \in 1..5 : Queries[j] = Query => j = Len(answers) + 1
  <2>1. PICK n \in 0..4 : n = Len(answers)
    BY <1>3
  <2>2. n + 1 \in 1..5
    OBVIOUS
  <2>3. Query = Queries[n + 1]
    BY <1>3, <2>1
  <2>4. \A j \in 1..5 : Queries[j] = Queries[n + 1] => j = n + 1
    BY <2>2, QueriesFacts
  <2> QED
    BY <2>1, <2>3, <2>4
<1>8. Len(out) + 1 \notin DOMAIN out
  BY <1>1 DEF Kept
<1>9. \A i, j : RcAt(i, j)' = RcAt(i, j)
  BY <1>1, <1>2, <1>4, <1>5 DEF RcAt
<1>10. \A i, j : (QAt(i, j) => QAt(i, j)') /\ (QAt(i, j)' => QAt(i, j) \/ (i = Len(out) + 1 /\ Queries[j] = Query))
  BY <1>1, <1>2, <1>4, <1>5 DEF QAt
<1>11. \A i, j : i = Len(out) + 1 /\ Queries[j] = Query => QAt(i, j)'
  BY <1>1, <1>2, <1>6 DEF QAt
<1> QED
  BY <1>7, <1>9, <1>10, <1>11

\* Answering adds its second marker.
LEMMA AnswerMarks ==
  ASSUME Typed, InPlace, Answering
  PROVE  /\ \A i, j : QAt(i, j)' = QAt(i, j)
         /\ \A i, j : RcAt(i, j) => RcAt(i, j)'
         /\ \A i, j : RcAt(i, j)' => RcAt(i, j) \/ (i = Len(out) + 2 /\ Queries[j] = Query)
         /\ \A j \in 1..5 : Queries[j] = Query => j = Len(answers) + 1
         /\ Len(answers) \in 0..4 /\ Query = Queries[Len(answers) + 1]
         /\ \A i, j : i = Len(out) + 2 /\ Queries[j] = Query => RcAt(i, j)'
<1>1. pc = "query" => Len(answers) < 5
  BY DEF InPlace
<1>2. /\ Kept(2) /\ out'[Len(out) + 1].k \in {"data", "error"}
      /\ out'[Len(out) + 2].k = "rc" /\ out'[Len(out) + 2].n = nonce
      /\ out'[Len(out) + 2].of = Query
  BY <1>1, AnswerPipe
<1>3. calls' = calls /\ Len(answers) < 5
  BY <1>1, AnswerFacts
<1>4. Len(answers) \in 0..4 /\ Query = Queries[Len(answers) + 1]
  BY <1>3, QueryFacts
<1>5. \A i \in DOMAIN out' : i \in DOMAIN out \/ i = Len(out) + 1 \/ i = Len(out) + 2
  BY <1>2 DEF Kept
<1>6. \A i \in DOMAIN out : i \in DOMAIN out' /\ out'[i] = out[i]
  BY <1>2 DEF Kept
<1>7. Len(out) + 2 \in DOMAIN out'
  BY <1>2 DEF Kept
<1>8. \A j \in 1..5 : Queries[j] = Query => j = Len(answers) + 1
  <2>1. PICK n \in 0..4 : n = Len(answers)
    BY <1>4
  <2>2. n + 1 \in 1..5
    OBVIOUS
  <2>3. Query = Queries[n + 1]
    BY <1>4, <2>1
  <2>4. \A j \in 1..5 : Queries[j] = Queries[n + 1] => j = n + 1
    BY <2>2, QueriesFacts
  <2> QED
    BY <2>1, <2>3, <2>4
<1>9. \A i, j : QAt(i, j)' = QAt(i, j)
  BY <1>2, <1>3, <1>5, <1>6 DEF QAt
<1>10. \A i, j : (RcAt(i, j) => RcAt(i, j)') /\ (RcAt(i, j)' => RcAt(i, j) \/ (i = Len(out) + 2 /\ Queries[j] = Query))
  BY <1>2, <1>3, <1>5, <1>6 DEF RcAt
<1>11. \A i, j : i = Len(out) + 2 /\ Queries[j] = Query => RcAt(i, j)'
  BY <1>2, <1>3, <1>7 DEF RcAt
<1> QED
  BY <1>4, <1>8, <1>9, <1>10, <1>11

\* The answers keep what they have, and get the exit code that was printed.
LEMMA AnswersGrow ==
  ASSUME Typed, InPlace, Answering
  PROVE  /\ Len(answers) \in Nat /\ Len(answers') = Len(answers) + 1
         /\ \A j \in 1..Len(answers) : answers'[j] = answers[j]
         /\ answers'[Len(answers) + 1] = out'[Len(out) + 2].val
         /\ answers'[Len(answers) + 1] = 0 =>
              /\ out'[Len(out) + 1] = DataLine(Query, Says(Query))
              /\ Query # "auth-probe" => site.daemon.up
<1>1. pc = "query" => Len(answers) < 5
  BY DEF InPlace
<1>2. PICK code \in {0, 1} :
        /\ answers' = Append(answers, code)
        /\ out'[Len(out) + 2].val = code
        /\ code = 0 => out'[Len(out) + 1] = DataLine(Query, Says(Query))
        /\ (code = 0 /\ Query # "auth-probe") => site.daemon.up
  BY <1>1, AnswerPipe
<1>3. /\ Len(answers) \in Nat /\ Len(answers') = Len(answers) + 1
      /\ \A j \in 1..Len(answers) : answers'[j] = answers[j]
      /\ answers'[Len(answers) + 1] = code
  BY <1>2, AppendProperties, LenProperties DEF Typed
<1> QED
  BY <1>2, <1>3

\* The daemon is quoted with what it said.
LEMMA QuotedStep ==
  ASSUME Typed, Fresh, InPlace, Quoted, [Next]_vars
  PROVE  Quoted'
<1>1. CASE Restarts
  BY <1>1 DEF Restarts, Quoted
<1>2. CASE Quiet
  <2>1. UNCHANGED <<calls, req, wire, site>>
    BY <1>2 DEF Quiet
  <2> QED
    BY <1>2, <2>1, SameCall DEF Quiet, Quoted
<1>3. CASE AskQuery
  <2>1. UNCHANGED <<calls, req, wire, site>>
    BY <1>3, AskFacts
  <2>2. Kept(1) /\ out'[Len(out) + 1].k = "q"
    BY <1>3, AskPipe
  <2>3. \A i \in DOMAIN out' : i \in DOMAIN out \/ i = Len(out) + 1
    BY <2>2 DEF Kept
  <2> QED
    BY <2>1, <2>2, <2>3, SameCall DEF Kept, Quoted
<1>4. CASE Answering
  <2>1. pc = "query" => Len(answers) < 5
    BY DEF InPlace
  <2>2. UNCHANGED <<calls, req, wire, site>>
    BY <1>4, <2>1, AnswerFacts
  <2>3. /\ Kept(2) /\ out'[Len(out) + 2].k = "rc"
        /\ out'[Len(out) + 1].k = "data" =>
             out'[Len(out) + 1].val = Says(out'[Len(out) + 1].of)
    BY <1>4, <2>1, AnswerPipe
  <2>4. \A i \in DOMAIN out' : i \in DOMAIN out \/ i = Len(out) + 1 \/ i = Len(out) + 2
    BY <2>3 DEF Kept
  <2> QED
    BY <2>2, <2>3, <2>4, SameCall DEF Kept, Quoted
<1> QED
  BY <1>1, <1>2, <1>3, <1>4, StepClasses

\* The markers are those of the queries that were asked.
LEMMA MarkedStep ==
  ASSUME Typed, Fresh, InPlace, Marked, [Next]_vars
  PROVE  Marked'
<1>1. CASE Restarts
  BY <1>1, NoMarks DEF Marked
<1>2. CASE Quiet
  <2>1. \A i, j : (QAt(i, j)' \/ RcAt(i, j)') => i \in DOMAIN out /\ out'[i] = out[i]
    BY <1>2, QuietMarks DEF Quiet, QAt, RcAt
  <2>2. answers' = answers
        /\ (pc' \in {"sudo", "dispatcher", "bash"} => pc \in {"sudo", "dispatcher", "bash"})
    BY <1>2 DEF Quiet
  <2> QED
    BY <1>2, <2>1, <2>2, QuietMarks DEF Marked
<1>3. CASE AskQuery
  <2>1. answers' = answers /\ pc = "bash" /\ pc' = "query"
    BY <1>3, AskFacts
  <2>2. Len(answers) \in Nat
    BY LenProperties DEF Typed
  <2>3. ASSUME NEW i, NEW j \in 1..5, QAt(i, j)'
        PROVE  j <= Len(answers) + 1
    <3>1. CASE QAt(i, j)
      BY <3>1 DEF Marked, QAt
    <3>2. CASE ~QAt(i, j)
      BY <1>3, <2>2, <2>3, <3>2, AskMarks
    <3> QED
      BY <3>1, <3>2
  <2>4. ASSUME NEW i, NEW j \in 1..5, RcAt(i, j)'
        PROVE  j <= Len(answers) /\ out'[i].val = answers[j]
    <3>1. RcAt(i, j) /\ i \in DOMAIN out
      BY <1>3, <2>4, AskMarks DEF RcAt
    <3>2. out'[i] = out[i]
      BY <1>3, <3>1, AskPipe DEF Kept
    <3> QED
      BY <3>1, <3>2 DEF Marked
  <2> QED
    BY <2>1, <2>3, <2>4 DEF Marked
<1>4. CASE Answering
  <2>1. pc' = "bash" /\ Kept(2)
    BY <1>4, AnswerFacts, AnswerPipe DEF InPlace
  <2>2. PICK m \in 0..4 : m = Len(answers)
    BY <1>4, AnswerMarks
  <2>3. /\ Len(answers') = m + 1
        /\ \A j \in 1..m : answers'[j] = answers[j]
        /\ answers'[m + 1] = out'[Len(out) + 2].val
    BY <1>4, <2>2, AnswersGrow
  <2>4. ASSUME NEW i, NEW j \in 1..5, QAt(i, j)'
        PROVE  j <= m + 1
    BY <1>4, <2>2, <2>4, AnswerMarks DEF Marked, QAt
  <2>5. ASSUME NEW i, NEW j \in 1..5, RcAt(i, j)'
        PROVE  j <= m + 1 /\ out'[i].val = answers'[j]
    <3>1. CASE RcAt(i, j)
      <4>1. i \in DOMAIN out /\ out'[i] = out[i]
        BY <2>1, <3>1 DEF Kept, RcAt
      <4>2. j <= m /\ out[i].val = answers[j]
        BY <2>2, <3>1, <4>1 DEF Marked
      <4>3. j \in 1..m
        BY <4>2
      <4> QED
        BY <2>3, <4>1, <4>2, <4>3
    <3>2. CASE ~RcAt(i, j)
      <4>1. i = Len(out) + 2 /\ j = m + 1
        BY <1>4, <2>2, <2>5, <3>2, AnswerMarks
      <4> QED
        BY <2>3, <4>1
    <3> QED
      BY <3>1, <3>2
  <2> QED
    <3>1. \A i \in DOMAIN out', j \in 1..5 : QAt(i, j)' => j <= m + 1 /\ j <= (m + 1) + 1
      BY <2>4
    <3> QED
      BY <2>1, <2>3, <2>5, <3>1 DEF Marked
<1> QED
  BY <1>1, <1>2, <1>3, <1>4, StepClasses

\* The markers come in their order.
LEMMA OrderedStep ==
  ASSUME Typed, Fresh, InPlace, Marked, Ordered, [Next]_vars
  PROVE  Ordered'
<1>1. CASE Restarts
  BY <1>1, NoMarks DEF Ordered
<1>2. CASE Quiet
  <2>1. \A i, j : (QAt(i, j) \/ RcAt(i, j)) => i \in DOMAIN out
    BY DEF QAt, RcAt
  <2> QED
    BY <1>2, <2>1, QuietMarks DEF Ordered
<1>3. CASE AskQuery
  <2>1. pc = "bash" /\ Kept(1)
    BY <1>3, AskFacts, AskPipe
  <2>2. PICK m \in 0..4 : m = Len(answers)
    BY <1>3, AskFacts, QueryFacts
  <2>3. \A i : \A j \in 1..5 : QAt(i, j) => i \in DOMAIN out /\ i < Len(out) + 1 /\ j <= m
    BY <2>1, <2>2 DEF Marked, QAt, Kept
  <2>4. \A i : \A j \in 1..5 : RcAt(i, j)' => RcAt(i, j) /\ i \in DOMAIN out /\ i < Len(out) + 1 /\ j <= m
    <3>1. \A i : \A j \in 1..5 : RcAt(i, j) => i \in DOMAIN out /\ i < Len(out) + 1 /\ j <= m
      BY <2>1, <2>2 DEF Marked, RcAt, Kept
    <3> QED
      BY <1>3, <3>1, AskMarks
  <2>5. \A i : \A j \in 1..5 : QAt(i, j)' => QAt(i, j) \/ (i = Len(out) + 1 /\ j = m + 1)
    BY <1>3, <2>2, AskMarks
  <2> QED
    BY <2>3, <2>4, <2>5 DEF Ordered
<1>4. CASE Answering
  <2>1. Kept(2)
    BY <1>4, AnswerFacts, AnswerPipe DEF InPlace
  <2>2. PICK m \in 0..4 : m = Len(answers)
    BY <1>4, AnswerMarks
  <2>3. \A i : \A j \in 1..5 : QAt(i, j)' => QAt(i, j) /\ i \in DOMAIN out /\ i < Len(out) + 2 /\ j <= m + 1
    <3>1. \A i : \A j \in 1..5 : QAt(i, j) => i \in DOMAIN out /\ i < Len(out) + 2 /\ j <= m + 1
      BY <2>1, <2>2 DEF Marked, QAt, Kept
    <3> QED
      BY <1>4, <3>1, AnswerMarks
  <2>4. \A i : \A j \in 1..5 : RcAt(i, j) => i \in DOMAIN out /\ i < Len(out) + 2 /\ j <= m
    BY <2>1, <2>2 DEF Marked, RcAt, Kept
  <2>5. \A i : \A j \in 1..5 : RcAt(i, j)' => RcAt(i, j) \/ (i = Len(out) + 2 /\ j = m + 1)
    BY <1>4, <2>2, AnswerMarks
  <2> QED
    BY <2>3, <2>4, <2>5 DEF Ordered
<1> QED
  BY <1>1, <1>2, <1>3, <1>4, StepClasses

\* An answered query has its markers.
LEMMA PresentStep ==
  ASSUME Typed, Fresh, InPlace, Present, [Next]_vars
  PROVE  Present'
<1>1. CASE Restarts
  <2>1. Len(answers') = 0 /\ pc' # "query"
    BY <1>1 DEF Restarts
  <2> QED
    BY <2>1 DEF Present
<1>2. CASE Quiet
  <2>1. UNCHANGED <<calls, req, wire, site>> /\ answers' = answers /\ (pc' = "query" => pc = "query")
        /\ \A i \in DOMAIN out : i \in DOMAIN out' /\ out'[i] = out[i]
    BY <1>2 DEF Quiet
  <2>2. \A i : \A j : (QAt(i, j) => QAt(i, j)') /\ (RcAt(i, j) => RcAt(i, j)')
    BY <1>2, QuietMarks
  <2>3. \A name : Says(name)' = Says(name)
    BY <2>1, SameCall
  <2> QED
    BY <2>1, <2>2, <2>3 DEF Present
<1>3. CASE AskQuery
  <2>1. UNCHANGED <<calls, req, wire, site>> /\ answers' = answers /\ Kept(1)
    BY <1>3, AskFacts, AskPipe
  <2>2. \A i \in DOMAIN out : i \in DOMAIN out' /\ out'[i] = out[i]
    BY <2>1 DEF Kept
  <2>3. \A i : \A j : (QAt(i, j) => QAt(i, j)') /\ (RcAt(i, j) => RcAt(i, j)')
    BY <1>3, AskMarks
  <2>4. \A name : Says(name)' = Says(name)
    BY <2>1, SameCall
  <2>5. PICK m \in 0..4 : m = Len(answers) /\ Queries[m + 1] = Query
    BY <1>3, AskFacts, QueryFacts
  <2>6. PICK i \in DOMAIN out' : i = Len(out) + 1
    BY <2>1 DEF Kept
  <2>7. QAt(i, m + 1)'
    BY <1>3, <2>5, <2>6, AskMarks
  <2>8. \A j \in 1..m :
          /\ \E x \in DOMAIN out' : QAt(x, j)'
          /\ \E x \in DOMAIN out' :
               /\ RcAt(x, j)'
               /\ answers[j] = 0 =>
                    x - 1 \in DOMAIN out' /\ out'[x - 1] = DataLine(Queries[j], Says(Queries[j]))
    BY <2>2, <2>3, <2>5 DEF Present
  <2> QED
    BY <2>1, <2>4, <2>5, <2>7, <2>8 DEF Present
<1>4. CASE Answering
  <2>1. UNCHANGED <<calls, req, wire, site>> /\ Kept(2) /\ pc' = "bash" /\ pc = "query"
    BY <1>4, AnswerFacts, AnswerPipe DEF InPlace
  <2>2. \A i \in DOMAIN out : i \in DOMAIN out' /\ out'[i] = out[i]
    BY <2>1 DEF Kept
  <2>3. \A i : \A j : (QAt(i, j) => QAt(i, j)') /\ (RcAt(i, j) => RcAt(i, j)')
    BY <1>4, AnswerMarks
  <2>4. \A name : Says(name)' = Says(name)
    BY <2>1, SameCall
  <2>5. PICK m \in 0..4 : m = Len(answers) /\ Queries[m + 1] = Query
    BY <1>4, AnswerMarks
  <2>6. /\ Len(answers') = m + 1
        /\ \A j \in 1..m : answers'[j] = answers[j]
        /\ answers'[m + 1] = 0 => out'[Len(out) + 1] = DataLine(Query, Says(Query))
    BY <1>4, <2>5, AnswersGrow
  <2>7. PICK i \in DOMAIN out' : i = Len(out) + 2 /\ i - 1 = Len(out) + 1 /\ i - 1 \in DOMAIN out'
    BY <2>1 DEF Kept
  <2>8. RcAt(i, m + 1)'
    BY <1>4, <2>5, <2>7, AnswerMarks
  <2>9. \E x \in DOMAIN out' : QAt(x, m + 1)'
    BY <2>1, <2>2, <2>3, <2>5 DEF Present
  <2>10. \A j \in 1..m :
          /\ \E x \in DOMAIN out' : QAt(x, j)'
          /\ \E x \in DOMAIN out' :
               /\ RcAt(x, j)'
               /\ answers'[j] = 0 =>
                    x - 1 \in DOMAIN out' /\ out'[x - 1] = DataLine(Queries[j], Says(Queries[j]))
    BY <2>2, <2>3, <2>5, <2>6 DEF Present
  <2>11. answers'[m + 1] = 0 => out'[i - 1] = DataLine(Queries[m + 1], Says(Queries[m + 1]))
    BY <2>5, <2>6, <2>7
  <2>12. \A j \in 1..(m + 1) :
          /\ \E x \in DOMAIN out' : QAt(x, j)'
          /\ \E x \in DOMAIN out' :
               /\ RcAt(x, j)'
               /\ answers'[j] = 0 =>
                    x - 1 \in DOMAIN out' /\ out'[x - 1] = DataLine(Queries[j], Says(Queries[j]))
    <3>1. \A j \in 1..(m + 1) : j \in 1..m \/ j = m + 1
      OBVIOUS
    <3> QED
      BY <2>7, <2>8, <2>9, <2>10, <2>11, <3>1
  <2> QED
    BY <2>1, <2>4, <2>6, <2>12 DEF Present
<1> QED
  BY <1>1, <1>2, <1>3, <1>4, StepClasses

\* A query that succeeded had a daemon to ask; a bundle that ended had all five.
LEMMA AnswersStep ==
  ASSUME Typed, Fresh, InPlace, Answers, [Next]_vars
  PROVE  Answers'
<1>1. CASE Restarts
  <2>1. Len(answers') = 0 /\ inner' = -1
    BY <1>1 DEF Restarts
  <2> QED
    BY <2>1 DEF Answers
<1>2. CASE Quiet
  BY <1>2 DEF Quiet, Answers
<1>3. CASE AskQuery
  BY <1>3, AskFacts DEF Answers
<1>4. CASE Answering
  <2>1. UNCHANGED <<site, inner>> /\ inner = -1
    BY <1>4, AnswerFacts DEF InPlace
  <2>2. PICK m \in 0..4 : m = Len(answers) /\ Queries[m + 1] = Query
    BY <1>4, AnswerMarks
  <2>3. /\ Len(answers') = m + 1
        /\ \A j \in 1..m : answers'[j] = answers[j]
        /\ (answers'[m + 1] = 0 /\ Query # "auth-probe") => site.daemon.up
    BY <1>4, <2>2, AnswersGrow
  <2>4. m + 1 \in 2..5 => Query # "auth-probe"
    BY <2>2, QueriesFacts
  <2>5. \A j \in 2..(m + 1) : answers'[j] = 0 => site.daemon.up
    <3>1. \A j \in 2..(m + 1) : j \in 2..m \/ (j = m + 1 /\ m + 1 \in 2..5)
      OBVIOUS
    <3>2. \A j \in 2..m : answers'[j] = 0 => site.daemon.up
      BY <2>2, <2>3 DEF Answers
    <3> QED
      BY <2>3, <2>4, <3>1, <3>2
  <2> QED
    BY <2>1, <2>3, <2>5 DEF Answers
<1> QED
  BY <1>1, <1>2, <1>3, <1>4, StepClasses

-----------------------------------------------------------------------------
(* The parser of preflight *)

Asks == Names \ {"none"}
Parses == [cursor : Nat, ok : SUBSET Asks, segment : [Asks -> Seq(Lines)]]

IsRun(f, lines, n, m) ==
  f = [k \in 0..m |-> IF k = 0 THEN NothingParsed ELSE ParseQuery(lines, n, f[k - 1], Queries[k])]

\* The loop over the queries comes to its end, for any number of them.
LEMMA RunExists == \A lines, n : \A m \in Nat : \E f : IsRun(f, lines, n, m)
<1> TAKE lines, n
<1> DEFINE G == {m \in Nat : \E f : IsRun(f, lines, n, m)}
<1>1. 0 \in G
  <2> DEFINE f == [k \in 0..0 |-> NothingParsed]
  <2>1. IsRun(f, lines, n, 0)
    BY DEF IsRun
  <2> QED
    BY <2>1
<1>2. \A m \in Nat : m \in G => m + 1 \in G
  <2> SUFFICES ASSUME NEW m \in Nat, NEW f, IsRun(f, lines, n, m) PROVE m + 1 \in G
    OBVIOUS
  <2> DEFINE g == [k \in 0..(m + 1) |->
                     IF k = m + 1 THEN ParseQuery(lines, n, f[m], Queries[k]) ELSE f[k]]
  <2>1. \A k \in 0..(m + 1) :
          g[k] = IF k = 0 THEN NothingParsed ELSE ParseQuery(lines, n, g[k - 1], Queries[k])
    BY DEF IsRun
  <2>2. IsRun(g, lines, n, m + 1)
    BY <2>1, Zenon DEF IsRun
  <2> QED
    BY <2>2
<1> HIDE DEF G
<1>3. Nat \subseteq G
  BY <1>1, <1>2, Induction
<1> QED
  BY <1>3 DEF G

\* The result of the loop, with the states it goes through.
LEMMA RunStates ==
  ASSUME NEW lines, NEW n
  PROVE  \E f : /\ f[0] = NothingParsed
                /\ \A k \in 1..5 : f[k] = ParseQuery(lines, n, f[k - 1], Queries[k])
                /\ PerOp(lines, n) = f[5]
<1> DEFINE f == CHOOSE g : IsRun(g, lines, n, 5)
<1>1. \E g : IsRun(g, lines, n, 5)
  BY RunExists
<1>2. IsRun(f, lines, n, 5)
  BY <1>1
<1>3. Len(Queries) = 5
  BY QueriesFacts
<1>4. PerOp(lines, n) = f[5]
  BY <1>3 DEF PerOp, IsRun
<1> HIDE DEF f
<1>5. f[0] = NothingParsed
  BY <1>2 DEF IsRun
<1>6. \A k \in 1..5 : f[k] = ParseQuery(lines, n, f[k - 1], Queries[k])
  BY <1>2 DEF IsRun
<1> QED
  BY <1>4, <1>5, <1>6

\* A query is asked for by its name.
LEMMA AsksFacts ==
  /\ ToSet(Queries) = Asks
  /\ \A j \in 1..5 : Queries[j] \in Asks
  /\ NothingParsed \in Parses
<1>1. \A j \in 1..5 : Queries[j] \in Asks
  BY DEF Queries, Asks, Names
<1>2. \A name \in Asks : \E j \in 1..5 : Queries[j] = name
  BY QueriesFacts DEF Asks, Names
<1>3. DOMAIN Queries = 1..5
  BY DEF Queries
<1>4. ToSet(Queries) = Asks
  BY <1>1, <1>2, <1>3 DEF ToSet
<1>5. <<>> \in Seq(Lines)
  OBVIOUS
<1>6. NothingParsed \in Parses
  BY <1>4, <1>5 DEF NothingParsed, Parses
<1> QED
  BY <1>1, <1>4, <1>6

\* What is parsed was in the pipe: a query that is ok has an exit code of 0
\* with the nonce, and the lines of a segment are lines of the pipe.
Backed(lines, n, st) ==
  /\ \A name \in st.ok : \E i \in DOMAIN lines :
       lines[i].k = "rc" /\ lines[i].n = n /\ lines[i].of = name /\ lines[i].val = 0
  /\ \A name \in Asks : \A x \in DOMAIN st.segment[name] :
       \E i \in DOMAIN lines : st.segment[name][x] = lines[i]

\* One turn of the loop, when the query is found.
LEMMA FoundFacts ==
  ASSUME NEW lines \in Seq(Lines), NEW n, NEW name, NEW cursor, Found(lines, n, name, cursor)
  PROVE  LET from == Min(QPlaces(lines, n, name, cursor))
             to == Min(RcPlaces(lines, n, name, cursor))
         IN  /\ from \in Marks(lines, n, "q", name) /\ from \in 1..Len(lines) /\ from > cursor
             /\ to \in Marks(lines, n, "rc", name) /\ to \in 1..Len(lines) /\ to > from
<1>1. DOMAIN lines = 1..Len(lines) /\ Len(lines) \in Nat
  BY LenProperties
<1>2. QPlaces(lines, n, name, cursor) \subseteq Nat /\ RcPlaces(lines, n, name, cursor) \subseteq Nat
  BY <1>1 DEF QPlaces, RcPlaces, After, Marks, Places
<1>3. QPlaces(lines, n, name, cursor) # {} /\ RcPlaces(lines, n, name, cursor) # {}
  BY DEF Found
<1>4. /\ Min(QPlaces(lines, n, name, cursor)) \in QPlaces(lines, n, name, cursor)
      /\ Min(RcPlaces(lines, n, name, cursor)) \in RcPlaces(lines, n, name, cursor)
  BY <1>2, <1>3, MinFacts
<1>5. \A i \in QPlaces(lines, n, name, cursor) :
        i \in Marks(lines, n, "q", name) /\ i \in 1..Len(lines) /\ i > cursor
  BY <1>1 DEF QPlaces, After, Marks, Places
<1>6. \A i \in RcPlaces(lines, n, name, cursor) :
        i \in Marks(lines, n, "rc", name) /\ i \in 1..Len(lines)
        /\ i > Min(QPlaces(lines, n, name, cursor))
  BY <1>1 DEF RcPlaces, After, Marks, Places
<1> QED
  BY <1>4, <1>5, <1>6

\* The lines between two places.
LEMMA Between ==
  ASSUME NEW lines \in Seq(Lines), NEW from \in 1..Len(lines), NEW to \in 1..Len(lines), from < to
  PROVE  LET part == SubSeq(lines, from + 1, to - 1)
         IN  /\ part \in Seq(Lines) /\ Len(part) = to - from - 1
             /\ DOMAIN part = 1..(to - from - 1)
             /\ \A x \in 1..(to - from - 1) : part[x] = lines[from + x]
<1>1. Len(lines) \in Nat
  BY LenProperties
<1>2. from \in Nat /\ to \in Nat /\ from + 1 \in 1..(Len(lines) + 1) /\ to - 1 \in (from + 1) - 1..Len(lines)
  BY <1>1
<1> QED
  BY <1>1, <1>2, SubSeqProperties

\* One turn of the loop loses nothing and believes nothing that was not printed.
LEMMA ParseQueryFacts ==
  ASSUME NEW lines \in Seq(Lines), NEW n, NEW st \in Parses, NEW name \in Asks
  PROVE  LET next == ParseQuery(lines, n, st, name)
         IN  /\ next \in Parses
             /\ st.ok \subseteq next.ok
             /\ Backed(lines, n, st) => Backed(lines, n, next)
<1> DEFINE next == ParseQuery(lines, n, st, name)
           from == Min(QPlaces(lines, n, name, st.cursor))
           to == Min(RcPlaces(lines, n, name, st.cursor))
           part == SubSeq(lines, from + 1, to - 1)
<1>1. CASE n = 0 \/ ~Found(lines, n, name, st.cursor)
  BY <1>1 DEF ParseQuery
<1>2. CASE n # 0 /\ Found(lines, n, name, st.cursor) /\ ~QueryOk(lines[to])
  <2>1. next = [st EXCEPT !.cursor = to]
    BY <1>2 DEF ParseQuery
  <2>2. to \in Nat
    <3>1. to \in 1..Len(lines)
      BY <1>2, FoundFacts
    <3> QED
      BY <3>1
  <2> HIDE DEF next, to
  <2>3. next \in Parses /\ next.ok = st.ok /\ next.segment = st.segment
    BY <2>1, <2>2 DEF Parses
  <2> QED
    BY <2>3 DEF Backed, next
<1>3. CASE n # 0 /\ Found(lines, n, name, st.cursor) /\ QueryOk(lines[to])
  <2>1. next = [cursor |-> to, ok |-> st.ok \cup {name},
                segment |-> [st.segment EXCEPT ![name] = part]]
    BY <1>3 DEF ParseQuery
  <2>2. /\ from \in 1..Len(lines) /\ to \in 1..Len(lines) /\ from < to
        /\ to \in Marks(lines, n, "rc", name)
    BY <1>3, FoundFacts
  <2>3. /\ to \in DOMAIN lines /\ lines[to].k = "rc" /\ lines[to].n = n /\ lines[to].of = name
        /\ lines[to].val = 0
    BY <1>3, <2>2 DEF Marks, Places, QueryOk
  <2> HIDE DEF next, to, from
  <2>4. /\ part \in Seq(Lines) /\ DOMAIN part = 1..(to - from - 1)
        /\ \A x \in 1..(to - from - 1) : part[x] = lines[from + x]
    BY <2>2, Between
  <2>5. \A x \in DOMAIN part : \E i \in DOMAIN lines : part[x] = lines[i]
    <3>1. \A x \in 1..(to - from - 1) : from + x \in DOMAIN lines
      BY <2>2
    <3> QED
      BY <2>4, <3>1
  <2> HIDE DEF part
  <2>6. to \in Nat
    BY <2>2
  <2>7. /\ next.ok = st.ok \cup {name} /\ next.cursor = to
        /\ next.segment = [st.segment EXCEPT ![name] = part]
    BY <2>1
  <2>8. st.segment \in [Asks -> Seq(Lines)] /\ st.ok \in SUBSET Asks
    BY DEF Parses
  <2>9. next \in Parses
    BY <2>1, <2>4, <2>6, <2>8 DEF Parses
  <2>10. next.segment[name] = part
         /\ \A other \in Asks : other # name => next.segment[other] = st.segment[other]
    BY <2>7, <2>8
  <2>11. Backed(lines, n, st) => Backed(lines, n, next)
    BY <2>3, <2>5, <2>7, <2>10 DEF Backed
  <2> QED
    BY <2>7, <2>9, <2>10, <2>11 DEF next
<1> QED
  BY <1>1, <1>2, <1>3

\* A query leaves the segments of the others alone.
LEMMA OtherSegments ==
  ASSUME NEW lines, NEW n, NEW st \in Parses, NEW name \in Asks, NEW other \in Asks, other # name
  PROVE  ParseQuery(lines, n, st, name).segment[other] = st.segment[other]
<1> DEFINE from == Min(QPlaces(lines, n, name, st.cursor))
           to == Min(RcPlaces(lines, n, name, st.cursor))
<1>1. CASE n = 0 \/ ~Found(lines, n, name, st.cursor)
  BY <1>1 DEF ParseQuery
<1>2. CASE n # 0 /\ Found(lines, n, name, st.cursor) /\ ~QueryOk(lines[to])
  <2>1. ParseQuery(lines, n, st, name) = [st EXCEPT !.cursor = to]
    BY <1>2 DEF ParseQuery
  <2> HIDE DEF to
  <2> QED
    BY <2>1 DEF Parses
<1>3. CASE n # 0 /\ Found(lines, n, name, st.cursor) /\ QueryOk(lines[to])
  <2>1. ParseQuery(lines, n, st, name) =
          [cursor |-> to, ok |-> st.ok \cup {name},
           segment |-> [st.segment EXCEPT ![name] = SubSeq(lines, from + 1, to - 1)]]
    BY <1>3 DEF ParseQuery
  <2>2. st.segment \in [Asks -> Seq(Lines)]
    BY DEF Parses
  <2> HIDE DEF to, from
  <2> QED
    BY <2>1, <2>2
<1> QED
  BY <1>1, <1>2, <1>3

\* A query whose markers come once, in order, behind the cursor, is found.
LEMMA ParseQueryFinds ==
  ASSUME NEW lines \in Seq(Lines), NEW n \in Nat, n # 0, NEW st \in Parses, NEW name \in Asks,
         NEW q \in 1..Len(lines), NEW r \in 1..Len(lines), st.cursor < q, q < r,
         Marks(lines, n, "q", name) = {q}, Marks(lines, n, "rc", name) = {r}, lines[r].val = 0
  PROVE  LET next == ParseQuery(lines, n, st, name)
         IN  /\ next.cursor = r /\ name \in next.ok
             /\ next.segment[name] = SubSeq(lines, q + 1, r - 1)
<1> DEFINE next == ParseQuery(lines, n, st, name)
<1>1. q \in Nat /\ r \in Nat
  OBVIOUS
<1>2. QPlaces(lines, n, name, st.cursor) = {q} /\ Min({q}) = q
  BY <1>1, OnlyElement DEF QPlaces, After
<1>3. RcPlaces(lines, n, name, st.cursor) = {r} /\ Min({r}) = r
  BY <1>1, <1>2, OnlyElement DEF RcPlaces, After
<1>4. \A k \in {"q", "rc"} : Cardinality(Marks(lines, n, k, name)) <= 1
  <2>1. Cardinality({q}) = 1 /\ Cardinality({r}) = 1
    BY FS_Singleton
  <2>2. /\ Cardinality(Marks(lines, n, "q", name)) = 1
        /\ Cardinality(Marks(lines, n, "rc", name)) = 1
    BY <2>1, Zenon
  <2> QED
    BY <2>2
<1>5. Found(lines, n, name, st.cursor)
  BY <1>2, <1>3, <1>4 DEF Found
<1>6. next = [cursor |-> r, ok |-> st.ok \cup {name},
              segment |-> [st.segment EXCEPT ![name] = SubSeq(lines, q + 1, r - 1)]]
  BY <1>2, <1>3, <1>5 DEF ParseQuery, QueryOk
<1>7. st.segment \in [Asks -> Seq(Lines)]
  BY DEF Parses
<1> HIDE DEF next
<1>8. next.cursor = r /\ name \in next.ok /\ next.segment[name] = SubSeq(lines, q + 1, r - 1)
  BY <1>6, <1>7
<1> QED
  BY <1>8 DEF next

\* What parse_preflight_outcome reports was in the pipe.
LEMMA PerOpBacked ==
  ASSUME NEW lines \in Seq(Lines), NEW n
  PROVE  PerOp(lines, n) \in Parses /\ Backed(lines, n, PerOp(lines, n))
<1>1. PICK f : /\ f[0] = NothingParsed
               /\ \A k \in 1..5 : f[k] = ParseQuery(lines, n, f[k - 1], Queries[k])
               /\ PerOp(lines, n) = f[5]
  BY RunStates
<1>2. f[0] \in Parses /\ Backed(lines, n, f[0])
  BY <1>1, AsksFacts DEF Backed, NothingParsed
<1>3. \A k \in 1..5 : (f[k - 1] \in Parses /\ Backed(lines, n, f[k - 1])) =>
                      (f[k] \in Parses /\ Backed(lines, n, f[k]))
  BY <1>1, AsksFacts, ParseQueryFacts
<1>4. \A k \in 0..4 : (f[k] \in Parses /\ Backed(lines, n, f[k])) =>
                      (f[k + 1] \in Parses /\ Backed(lines, n, f[k + 1]))
  <2> SUFFICES ASSUME NEW k \in 0..4, f[k] \in Parses /\ Backed(lines, n, f[k])
               PROVE  f[k + 1] \in Parses /\ Backed(lines, n, f[k + 1])
    OBVIOUS
  <2>1. k + 1 \in 1..5 /\ (k + 1) - 1 = k
    OBVIOUS
  <2> QED
    BY <1>3, <2>1
<1>5. f[1] \in Parses /\ Backed(lines, n, f[1])
  BY <1>2, <1>4
<1>6. f[2] \in Parses /\ Backed(lines, n, f[2])
  BY <1>4, <1>5
<1>7. f[3] \in Parses /\ Backed(lines, n, f[3])
  BY <1>4, <1>6
<1>8. f[4] \in Parses /\ Backed(lines, n, f[4])
  BY <1>4, <1>7
<1>9. f[5] \in Parses /\ Backed(lines, n, f[5])
  BY <1>4, <1>8
<1> QED
  BY <1>1, <1>9

-----------------------------------------------------------------------------
(* The gate *)

\* A gate that opens on the pipe of this crossing has healthy answers to show.
LEMMA OpenGateFacts ==
  ASSUME Typed, Quoted, Marked, Answers, GateOpens("ok", out, nonce)
  PROVE  /\ site.daemon.up /\ site.daemon.rootless /\ site.daemon.runsc
         /\ answers # <<>> /\ \A i \in 1..4 : answers[i] = 0
<1> DEFINE p == PerOp(out, nonce)
<1>1. out \in Seq(Lines) /\ answers \in Seq({0, 1}) /\ Len(answers) \in Nat
  BY LenProperties DEF Typed
<1>2. p \in Parses /\ Backed(out, nonce, p)
  BY <1>1, PerOpBacked
<1>3. /\ "auth-probe" \in p.ok /\ "docker-version" \in p.ok
      /\ "security-options" \in p.ok /\ "runtimes" \in p.ok
      /\ DataLine("security-options", 1) \in ToSet(p.segment["security-options"])
      /\ p.segment["runtimes"] = <<DataLine("runtimes", 1)>>
  BY DEF GateOpens, Available, Rootless, RunscRegistered
<1> HIDE DEF p
<1>4. \A j \in 1..4 : Queries[j] \in p.ok
  <2>1. \A j \in 1..4 : j = 1 \/ j = 2 \/ j = 3 \/ j = 4
    OBVIOUS
  <2> QED
    BY <1>3, <2>1, QueriesFacts
<1>5. \A j \in 1..4 : j <= Len(answers) /\ answers[j] = 0
  <2> TAKE j \in 1..4
  <2>1. PICK i \in DOMAIN out : /\ out[i].k = "rc" /\ out[i].n = nonce /\ out[i].of = Queries[j]
                                /\ out[i].val = 0
    BY <1>2, <1>4 DEF Backed
  <2>2. RcAt(i, j) /\ j \in 1..5
    BY <2>1 DEF RcAt
  <2> QED
    BY <2>1, <2>2 DEF Marked
<1>6. site.daemon.up
  <2>1. 2 \in 2..Len(answers) /\ answers[2] = 0
    BY <1>1, <1>5
  <2> QED
    BY <2>1 DEF Answers
<1>7. \E i \in DOMAIN out : out[i] = DataLine("security-options", 1)
  BY <1>2, <1>3 DEF Backed, ToSet, Asks, Names
<1>8. \E i \in DOMAIN out : out[i] = DataLine("runtimes", 1)
  <2>1. 1 \in DOMAIN p.segment["runtimes"] /\ p.segment["runtimes"][1] = DataLine("runtimes", 1)
    BY <1>3
  <2> QED
    BY <1>2, <2>1 DEF Backed, Asks, Names
<1>9. \A name : DataLine(name, 1).k = "data" /\ DataLine(name, 1).of = name /\ DataLine(name, 1).val = 1
  BY DEF DataLine, Line
<1>10. Says("security-options") = 1 /\ Says("runtimes") = 1
  BY <1>7, <1>8, <1>9 DEF Quoted
<1>11. site.daemon.rootless /\ site.daemon.runsc
  BY <1>10 DEF Says
<1> QED
  BY <1>1, <1>5, <1>6, <1>11

\* The places of the markers of a query that succeeded, and its data before the second.
Placed(j, q, r) ==
  /\ q \in 1..Len(out) /\ r \in 1..Len(out) /\ QAt(q, j) /\ RcAt(r, j) /\ q < r - 1
  /\ Marks(out, nonce, "q", Queries[j]) = {q} /\ Marks(out, nonce, "rc", Queries[j]) = {r}
  /\ out[r].val = 0 /\ out[r - 1] = DataLine(Queries[j], Says(Queries[j]))

\* An answered query has its places.
LEMMA PlacesExist ==
  ASSUME Typed, Marked, Ordered, Present, NEW j \in 1..5, j <= Len(answers), answers[j] = 0
  PROVE  \E q, r : Placed(j, q, r)
<1>1. DOMAIN out = 1..Len(out) /\ Len(out) \in Nat /\ j \in 1..Len(answers)
  BY LenProperties DEF Typed
<1>2. PICK q \in 1..Len(out) : QAt(q, j)
  BY <1>1 DEF Present
<1>3. PICK r \in 1..Len(out) :
        /\ RcAt(r, j)
        /\ r - 1 \in DOMAIN out /\ out[r - 1] = DataLine(Queries[j], Says(Queries[j]))
  BY <1>1 DEF Present
<1>4. out[r].val = 0
  BY <1>1, <1>3 DEF Marked
<1>5. q < r
  BY <1>1, <1>2, <1>3 DEF Ordered
<1>6. q # r - 1
  <2>1. out[q].k = "q" /\ out[r - 1].k = "data"
    BY <1>2, <1>3 DEF QAt, DataLine, Line
  <2> QED
    BY <2>1
<1>7. Marks(out, nonce, "q", Queries[j]) = {q}
  <2>1. \A i : i \in Marks(out, nonce, "q", Queries[j]) <=> QAt(i, j)
    BY DEF Marks, Places, QAt
  <2>2. \A i : QAt(i, j) => i \in DOMAIN out
    BY DEF QAt
  <2>3. \A i : QAt(i, j) => i = q
    BY <1>1, <1>2, <2>2 DEF Ordered
  <2> QED
    BY <1>2, <2>1, <2>3
<1>8. Marks(out, nonce, "rc", Queries[j]) = {r}
  <2>1. \A i : i \in Marks(out, nonce, "rc", Queries[j]) <=> RcAt(i, j)
    BY DEF Marks, Places, RcAt
  <2>2. \A i : RcAt(i, j) => i \in DOMAIN out
    BY DEF RcAt
  <2>3. \A i : RcAt(i, j) => i = r
    BY <1>1, <1>3, <2>2 DEF Ordered
  <2> QED
    BY <1>3, <2>1, <2>3
<1>9. q < r - 1
  BY <1>5, <1>6
<1> QED
  BY <1>2, <1>3, <1>4, <1>7, <1>8, <1>9 DEF Placed

\* A query comes behind the ones before it.
LEMMA PlacesInOrder ==
  ASSUME Typed, Ordered, NEW j \in 1..5, NEW l \in 1..5, j < l,
         NEW q, NEW r, Placed(j, q, r), NEW p, NEW s, Placed(l, p, s)
  PROVE  r < p
<1>1. RcAt(r, j) /\ QAt(p, l) /\ r \in DOMAIN out /\ p \in DOMAIN out
  BY DEF Placed, RcAt, QAt
<1> QED
  BY <1>1 DEF Ordered

\* The parser finds it there, when it has come so far.
LEMMA PlaceIsFound ==
  ASSUME Typed, pc # "idle", NEW j \in 1..5, NEW q, NEW r, Placed(j, q, r),
         NEW st \in Parses, st.cursor < q
  PROVE  LET next == ParseQuery(out, nonce, st, Queries[j])
         IN  /\ next \in Parses /\ next.cursor = r /\ st.ok \subseteq next.ok
             /\ Queries[j] \in next.ok
             /\ next.segment[Queries[j]] = SubSeq(out, q + 1, r - 1)
             /\ \A other \in Asks : other # Queries[j] => next.segment[other] = st.segment[other]
<1>1. out \in Seq(Lines) /\ nonce \in Nat /\ nonce # 0
  BY DEF Typed
<1>2. PICK name \in Asks : name = Queries[j]
  BY AsksFacts
<1>3. /\ q \in 1..Len(out) /\ r \in 1..Len(out) /\ q < r - 1 /\ out[r].val = 0
      /\ Marks(out, nonce, "q", name) = {q} /\ Marks(out, nonce, "rc", name) = {r}
  BY <1>2 DEF Placed
<1>4. q < r
  BY <1>3
<1> DEFINE next == ParseQuery(out, nonce, st, name)
<1> HIDE DEF nonce
<1>5. /\ next.cursor = r /\ name \in next.ok
      /\ next.segment[name] = SubSeq(out, q + 1, r - 1)
  BY <1>1, <1>2, <1>3, <1>4, ParseQueryFinds
<1>6. next \in Parses /\ st.ok \subseteq next.ok
  BY <1>1, <1>2, ParseQueryFacts
<1>7. \A other \in Asks : other # name => next.segment[other] = st.segment[other]
  BY <1>2, OtherSegments
<1> QED
  BY <1>2, <1>5, <1>6, <1>7

\* Between its markers is what the daemon said.
LEMMA SegmentFacts ==
  ASSUME Typed, NEW j, NEW q, NEW r, Placed(j, q, r)
  PROVE  LET part == SubSeq(out, q + 1, r - 1)
         IN  /\ part # <<>> /\ DataLine(Queries[j], Says(Queries[j])) \in ToSet(part)
             /\ r = q + 2 => part = <<DataLine(Queries[j], Says(Queries[j]))>>
<1> DEFINE part == SubSeq(out, q + 1, r - 1)
           data == DataLine(Queries[j], Says(Queries[j]))
<1>1. q \in 1..Len(out) /\ r \in 1..Len(out) /\ q < r - 1 /\ out[r - 1] = data
  BY DEF Placed
<1>2. q < r /\ out \in Seq(Lines)
  BY <1>1 DEF Typed
<1>3. /\ part \in Seq(Lines) /\ Len(part) = r - q - 1 /\ DOMAIN part = 1..(r - q - 1)
      /\ \A x \in 1..(r - q - 1) : part[x] = out[q + x]
  BY <1>1, <1>2, Between
<1> HIDE DEF part, data
<1>4. r - q - 1 \in 1..(r - q - 1) /\ q + (r - q - 1) = r - 1
  BY <1>1
<1>5. part[r - q - 1] = data /\ r - q - 1 \in DOMAIN part
  BY <1>1, <1>3, <1>4
<1>6. data \in ToSet(part) /\ part # <<>>
  BY <1>5 DEF ToSet
<1>7. ASSUME r = q + 2 PROVE part = <<data>>
  <2>1. r - q - 1 = 1
    BY <1>1, <1>7
  <2>2. Len(part) = 1 /\ part[1] = data
    BY <1>3, <1>5, <2>1
  <2>3. Len(<<data>>) = 1 /\ <<data>>[1] = data /\ <<data>> \in Seq({data}) /\ part \in Seq(Lines)
    BY <1>3
  <2>4. part = [i \in 1..1 |-> part[i]] /\ <<data>> = [i \in 1..1 |-> data]
    BY <1>3, <2>1, <2>2
  <2> QED
    BY <2>2, <2>4
<1> QED
  BY <1>6, <1>7 DEF part, data

\* When the runtimes query has one line, that line is its data.
LEMMA RuntimesPlaces ==
  ASSUME Typed, Ordered, NEW q, NEW r, Placed(4, q, r),
         NEW i \in DOMAIN out, out[i] = QLine(nonce, "runtimes"),
         out[i + 2] = RcLine(nonce, "runtimes", 0)
  PROVE  r = q + 2
<1>1. Queries[4] = "runtimes"
  BY QueriesFacts
<1>2. /\ q \in DOMAIN out /\ r \in DOMAIN out /\ QAt(q, 4) /\ RcAt(r, 4) /\ q < r - 1
      /\ q \in 1..Len(out) /\ r \in 1..Len(out) /\ DOMAIN out = 1..Len(out) /\ Len(out) \in Nat
  BY LenProperties DEF Placed, QAt, RcAt, Typed
<1>3. QAt(i, 4)
  BY <1>1 DEF QAt, QLine, Line
<1>4. i = q
  BY <1>2, <1>3 DEF Ordered
<1>5. i + 2 \in DOMAIN out
  BY <1>2, <1>4
<1>6. RcAt(i + 2, 4)
  <2>1. out[i + 2].k = "rc" /\ out[i + 2].n = nonce /\ out[i + 2].of = "runtimes"
    BY DEF RcLine, Line
  <2> QED
    BY <1>1, <1>5, <2>1 DEF RcAt
<1>7. r = i + 2
  BY <1>2, <1>5, <1>6 DEF Ordered
<1> QED
  BY <1>4, <1>7

\* A bundle whose first four queries passed, in a healthy daemon, opens the gate.
LEMMA HealthyGateFacts ==
  ASSUME Typed, pc # "idle", Marked, Ordered, Present,
         Len(answers) = 5, \A j \in 1..4 : answers[j] = 0,
         site.daemon.rootless, site.daemon.runsc,
         NEW i \in DOMAIN out, out[i] = QLine(nonce, "runtimes"),
         out[i + 2] = RcLine(nonce, "runtimes", 0)
  PROVE  GateOpens("ok", out, nonce)
<1>1. \A j \in 1..4 : j \in 1..5 /\ j <= Len(answers) /\ answers[j] = 0
  OBVIOUS
<1>2. \A j \in 1..4 : \E q, r : Placed(j, q, r)
  BY <1>1, PlacesExist
<1>3. PICK q1, r1 : Placed(1, q1, r1)
  BY <1>2
<1>4. PICK q2, r2 : Placed(2, q2, r2)
  BY <1>2
<1>5. PICK q3, r3 : Placed(3, q3, r3)
  BY <1>2
<1>6. PICK q4, r4 : Placed(4, q4, r4)
  BY <1>2
<1>7. r1 < q2 /\ r2 < q3 /\ r3 < q4
  BY <1>3, <1>4, <1>5, <1>6, PlacesInOrder
<1>8. PICK f : /\ f[0] = NothingParsed
               /\ \A k \in 1..5 : f[k] = ParseQuery(out, nonce, f[k - 1], Queries[k])
               /\ PerOp(out, nonce) = f[5]
  BY RunStates
<1>9. /\ f[1] = ParseQuery(out, nonce, f[0], Queries[1])
      /\ f[2] = ParseQuery(out, nonce, f[1], Queries[2])
      /\ f[3] = ParseQuery(out, nonce, f[2], Queries[3])
      /\ f[4] = ParseQuery(out, nonce, f[3], Queries[4])
      /\ f[5] = ParseQuery(out, nonce, f[4], Queries[5])
  BY <1>8
<1>10. f[0] \in Parses /\ f[0].cursor < q1
  <2>1. f[0] \in Parses /\ f[0].cursor = 0
    BY <1>8, AsksFacts DEF NothingParsed
  <2>2. q1 \in 1..Len(out)
    BY <1>3 DEF Placed
  <2> QED
    BY <2>1, <2>2
<1>11. f[1] \in Parses /\ f[1].cursor < q2 /\ Queries[1] \in f[1].ok
  BY <1>3, <1>7, <1>9, <1>10, PlaceIsFound
<1>12. /\ f[2] \in Parses /\ f[2].cursor < q3 /\ f[1].ok \subseteq f[2].ok /\ Queries[2] \in f[2].ok
       /\ f[2].segment[Queries[2]] = SubSeq(out, q2 + 1, r2 - 1)
  BY <1>4, <1>7, <1>9, <1>11, PlaceIsFound
<1>13. /\ f[3] \in Parses /\ f[3].cursor < q4 /\ f[2].ok \subseteq f[3].ok /\ Queries[3] \in f[3].ok
       /\ f[3].segment[Queries[3]] = SubSeq(out, q3 + 1, r3 - 1)
       /\ \A other \in Asks : other # Queries[3] => f[3].segment[other] = f[2].segment[other]
  BY <1>5, <1>7, <1>9, <1>12, PlaceIsFound
<1>14. /\ f[4] \in Parses /\ f[3].ok \subseteq f[4].ok /\ Queries[4] \in f[4].ok
       /\ f[4].segment[Queries[4]] = SubSeq(out, q4 + 1, r4 - 1)
       /\ \A other \in Asks : other # Queries[4] => f[4].segment[other] = f[3].segment[other]
  BY <1>6, <1>9, <1>13, PlaceIsFound
<1>15. /\ f[4].ok \subseteq f[5].ok
       /\ \A other \in Asks : other # Queries[5] => f[5].segment[other] = f[4].segment[other]
  <2>1. PICK name \in Asks : name = Queries[5]
    BY AsksFacts
  <2> HIDE DEF nonce
  <2>2. f[5] = ParseQuery(out, nonce, f[4], name) /\ f[4] \in Parses /\ out \in Seq(Lines)
    BY <1>9, <1>14, <2>1 DEF Typed
  <2>3. f[4].ok \subseteq f[5].ok
    BY <2>2, ParseQueryFacts
  <2>4. \A other \in Asks : other # name => f[5].segment[other] = f[4].segment[other]
    BY <2>2, OtherSegments
  <2> QED
    BY <2>1, <2>3, <2>4
<1>16. /\ Queries[1] = "auth-probe" /\ Queries[2] = "docker-version" /\ Queries[3] = "security-options"
       /\ Queries[4] = "runtimes" /\ Queries[5] = "compose-ls"
  BY QueriesFacts
<1>17. {"docker-version", "security-options", "runtimes"} \subseteq Asks
  BY DEF Asks, Names
<1>18. f[5].segment["docker-version"] = SubSeq(out, q2 + 1, r2 - 1)
  BY <1>12, <1>13, <1>14, <1>15, <1>16, <1>17
<1>19. f[5].segment["security-options"] = SubSeq(out, q3 + 1, r3 - 1)
  BY <1>13, <1>14, <1>15, <1>16, <1>17
<1>20. f[5].segment["runtimes"] = SubSeq(out, q4 + 1, r4 - 1)
  BY <1>14, <1>15, <1>16, <1>17
<1>21. Says("security-options") = 1 /\ Says("runtimes") = 1
  BY DEF Says
<1>22. r4 = q4 + 2
  BY <1>6, RuntimesPlaces
<1>23. f[5].segment["docker-version"] # <<>>
  BY <1>4, <1>18, SegmentFacts
<1>24. DataLine("security-options", 1) \in ToSet(f[5].segment["security-options"])
  BY <1>5, <1>16, <1>19, <1>21, SegmentFacts
<1>25. f[5].segment["runtimes"] = <<DataLine("runtimes", 1)>>
  BY <1>6, <1>16, <1>20, <1>21, <1>22, SegmentFacts
<1>26. /\ "auth-probe" \in f[5].ok /\ "docker-version" \in f[5].ok
       /\ "security-options" \in f[5].ok /\ "runtimes" \in f[5].ok
  BY <1>11, <1>12, <1>13, <1>14, <1>15, <1>16
<1> QED
  BY <1>8, <1>23, <1>24, <1>25, <1>26 DEF GateOpens, Available, Rootless, RunscRegistered

\* A step keeps GateMeansHealthy.
LEMMA GateStep ==
  ASSUME Typed, Fresh, Checks, CallIsValid, InPlace, BeginsFramed, TrailerLast, TrailerSays,
         Quoted, Marked, Answers, GateMeansHealthy, [Next]_vars
  PROVE  GateMeansHealthy'
<1>1. CASE Return
  <2>1. UNCHANGED <<calls, req, site, out, answers>> /\ pc = "eof"
    BY <1>1, ReturnFacts
  <2>2. SUFFICES ASSUME req.op = "preflight", GateOpens(result'.status, out, result'.nonce)
                 PROVE  /\ site.daemon.up /\ site.daemon.rootless /\ site.daemon.runsc
                        /\ Len(answers) = Len(Queries) /\ \A i \in 1..4 : answers[i] = 0
    BY <2>1 DEF GateMeansHealthy
  <2>3. result'.status = "ok"
    BY <2>2 DEF GateOpens
  <2>4. ~IsStream /\ ExitCode = 0
    BY <1>1, <2>3, ReturnFacts
  <2>5. result'.nonce = nonce
    BY <1>1, <2>1, <2>2, <2>3, <2>4, ReturnFacts, SuccessFacts
  <2>6. /\ site.daemon.up /\ site.daemon.rootless /\ site.daemon.runsc
        /\ answers # <<>> /\ \A i \in 1..4 : answers[i] = 0
    BY <2>2, <2>3, <2>5, OpenGateFacts
  <2>7. req.via # "check"
    BY <2>6 DEF Checks
  <2>8. inner = 0
    BY <2>1, <2>4, <2>7, SuccessFacts
  <2>9. Len(answers) = Len(Queries)
    BY <2>2, <2>8, QueriesFacts DEF Answers
  <2> QED
    BY <2>6, <2>9
<1>2. CASE UNCHANGED vars
  BY <1>2 DEF GateMeansHealthy, vars
<1>3. CASE result'.status \in {"none", "refused", "timed_out"}
  BY <1>3 DEF GateMeansHealthy, GateOpens
<1> QED
  BY <1>1, <1>2, <1>3, VerdictStep

\* A step keeps HealthyGateOpens.
LEMMA HealthyStep ==
  ASSUME Typed, Fresh, Checks, CallIsValid, InPlace, BeginsFramed, TrailerLast, TrailerSays,
         Marked, Ordered, Present, Answers, HealthyGateOpens, [Next]_vars
  PROVE  HealthyGateOpens'
<1>1. CASE Return
  <2>1. UNCHANGED <<calls, req, site, out, answers>> /\ pc = "eof"
    BY <1>1, ReturnFacts
  <2>2. SUFFICES ASSUME result'.status = "ok", req.op = "preflight", req.via # "check",
                        site.daemon.rootless, site.daemon.runsc,
                        \A j \in 1..4 : answers[j] = 0,
                        NEW i \in DOMAIN out, out[i] = QLine(nonce, "runtimes"),
                        out[i + 2] = RcLine(nonce, "runtimes", 0)
                 PROVE  GateOpens(result'.status, out, result'.nonce)
    BY <2>1 DEF HealthyGateOpens
  <2>3. ~IsStream /\ ExitCode = 0
    BY <1>1, <2>2, ReturnFacts
  <2>4. result'.nonce = nonce
    BY <1>1, <2>1, <2>2, <2>3, ReturnFacts, SuccessFacts
  <2>5. inner = 0
    BY <2>1, <2>2, <2>3, SuccessFacts
  <2>6. Len(answers) = 5
    BY <2>2, <2>5 DEF Answers
  <2>7. GateOpens("ok", out, nonce)
    BY <2>1, <2>2, <2>6, HealthyGateFacts
  <2> QED
    BY <2>2, <2>4, <2>7
<1>2. CASE UNCHANGED vars
  BY <1>2 DEF HealthyGateOpens, vars
<1>3. CASE result'.status \in {"none", "refused", "timed_out"}
  BY <1>3 DEF HealthyGateOpens
<1> QED
  BY <1>1, <1>2, <1>3, VerdictStep

-----------------------------------------------------------------------------
(* The invariant, and what follows from it *)

\* Where a call is.
Crossing == Typed /\ Fresh /\ Checks /\ CallIsValid /\ InPlace /\ InBounds

\* What the dispatcher's own lines are.
Frame == BeginsFramed /\ TrailerLast /\ Raw /\ TrailerSays /\ NotCutShort

\* What the lines of preflight are.
Bundle == Quoted /\ Marked /\ Ordered /\ Present /\ Answers

\* What the caller was told.
Verdict == /\ OkMeansDone /\ UnharmedCallSucceeds /\ Answered /\ StreamReachesItsCore
           /\ GateMeansHealthy /\ HealthyGateOpens

Inv == Crossing /\ Frame /\ Bundle /\ Verdict

\* It holds before the first call.
LEMMA InitInv == Init => Inv
<1> SUFFICES ASSUME Init PROVE Inv
  OBVIOUS
<1> USE DEF Init
<1>1. DOMAIN out = {} /\ Len(answers) = 0 /\ out \in Seq(Lines) /\ answers \in Seq({0, 1})
  OBVIOUS
<1>2. Crossing
  <2>1. Typed
    BY <1>1 DEF Typed, States, NoReq, Vias, Ops, NullaryOps, SU, OR
  <2>2. Fresh
    BY DEF Fresh
  <2>3. Checks
    BY DEF Checks, IsCheck, NoReq
  <2>4. CallIsValid /\ InPlace
    BY DEF CallIsValid, InPlace, Going
  <2>5. InBounds
    BY <1>1, DispatchAssumption DEF InBounds, NoResult
  <2> QED
    BY <2>1, <2>2, <2>3, <2>4, <2>5 DEF Crossing
<1>3. Frame
  BY <1>1 DEF Frame, BeginsFramed, TrailerLast, Raw, TrailerSays, NotCutShort
<1>4. Bundle
  BY <1>1 DEF Bundle, Quoted, Marked, Ordered, Present, Answers
<1>5. Verdict
  <2>1. result.status = "none"
    BY DEF NoResult
  <2> QED
    BY <2>1 DEF Verdict, OkMeansDone, UnharmedCallSucceeds, Answered, StreamReachesItsCore,
                GateMeansHealthy, HealthyGateOpens
<1> QED
  BY <1>2, <1>3, <1>4, <1>5 DEF Inv

\* Each step keeps it.
LEMMA NextInv == Inv /\ [Next]_vars => Inv'
<1> SUFFICES ASSUME Inv, [Next]_vars PROVE Inv'
  OBVIOUS
<1>1. /\ Typed /\ Fresh /\ Checks /\ CallIsValid /\ InPlace /\ InBounds
      /\ BeginsFramed /\ TrailerLast /\ Raw /\ TrailerSays /\ NotCutShort
      /\ Quoted /\ Marked /\ Ordered /\ Present /\ Answers
      /\ OkMeansDone /\ UnharmedCallSucceeds /\ Answered /\ StreamReachesItsCore
      /\ GateMeansHealthy /\ HealthyGateOpens
  BY DEF Inv, Crossing, Frame, Bundle, Verdict
<1>2. Crossing'
  BY <1>1, TypedStep, FreshStep, ChecksStep, CallIsValidStep, InPlaceStep, InBoundsStep DEF Crossing
<1>3. Frame'
  BY <1>1, BeginsFramedStep, TrailerLastStep, RawStep, TrailerSaysStep, NotCutShortStep DEF Frame
<1>4. Bundle'
  BY <1>1, QuotedStep, MarkedStep, OrderedStep, PresentStep, AnswersStep DEF Bundle
<1>5. Verdict'
  BY <1>1, OkStep, UnharmedStep, AnsweredStep, StreamStep, GateStep, HealthyStep DEF Verdict
<1> QED
  BY <1>2, <1>3, <1>4, <1>5 DEF Inv

\* The crossing, its frame, its bundle and its verdict stay as described, whoever
\* dies and whatever is printed.
THEOREM Invariance == Spec => []Inv
<1>1. UNCHANGED vars => [Next]_vars
  OBVIOUS
<1> QED
  BY InitInv, NextInv, PTL DEF Spec

\* It gives the type invariant.
LEMMA InvType == Inv => TypeOK
<1> SUFFICES ASSUME Inv PROVE TypeOK
  OBVIOUS
<1>1. Typed /\ InBounds /\ Len(Queries) = 5
  BY QueriesFacts DEF Inv, Crossing
<1>2. calls \in 0..MaxCalls /\ inner \in -1..1
  BY <1>1, DispatchAssumption DEF Typed, InBounds
<1>3. \A i \in DOMAIN out : out[i].n \in 0..nonce
  <2> TAKE i \in DOMAIN out
  <2>1. out[i] \in Lines
    BY <1>1, ElementOfSeq, LenProperties DEF Typed
  <2>2. out[i].n \in Nat /\ out[i].n <= nonce /\ nonce \in Nat
    BY <1>1, <2>1 DEF InBounds, Typed, Lines
  <2> QED
    BY <2>2
<1> QED
  BY <1>1, <1>2, <1>3 DEF TypeOK, Typed, InBounds, States

\* Every variable has its type.
THEOREM TypeCorrect == Spec => []TypeOK
  BY Invariance, InvType, PTL

\* A call that succeeds has run exactly the command that was asked for, and it
\* exited with 0, whatever was printed (recover_inner_exit, dispatch()).
THEOREM SuccessIsReal == Spec => []OkMeansDone
<1>1. Inv => OkMeansDone
  BY DEF Inv, Verdict
<1> QED
  BY <1>1, Invariance, PTL

\* A call fails only because the op failed, a path in the instance's tree is a
\* link, or something went wrong around it: the dispatcher refuses nothing that
\* the validators let through (buildTargetArgv, validate_args).
THEOREM FailureHasReason == Spec => []UnharmedCallSucceeds
<1>1. Inv => UnharmedCallSucceeds
  BY DEF Inv, Verdict
<1> QED
  BY <1>1, Invariance, PTL

\* The trailer is written at most once, and once on every path of a framed
\* crossing that is not cut short (wrapSentinel, dispatch()).
THEOREM OneTrailer == Spec => []TrailerOnce
<1>1. Inv => TrailerOnce
  BY OnceFollows DEF Inv, Crossing, Frame, Verdict
<1> QED
  BY <1>1, Invariance, PTL

\* In a stream the dispatcher writes nothing (runStream).
THEOREM StreamStaysRaw == Spec => []StreamIsRaw
<1>1. Inv => StreamIsRaw
  BY RawFollows DEF Inv, Crossing, Frame
<1> QED
  BY <1>1, Invariance, PTL

\* A stream leads to the core of the attached instance, for every slot of the
\* ledger (proxy_argv, parseFwdWire, validateFwdIP).
THEOREM StreamArrives == Spec => []StreamReachesItsCore
<1>1. Inv => StreamReachesItsCore
  BY DEF Inv, Verdict
<1> QED
  BY <1>1, Invariance, PTL

\* The gate of start and init opens only on a healthy daemon
\* (parse_preflight_outcome, evaluate_preflight_gate).
THEOREM OpenGateIsHealthy == Spec => []GateMeansHealthy
<1>1. Inv => GateMeansHealthy
  BY DEF Inv, Verdict
<1> QED
  BY <1>1, Invariance, PTL

\* And it does open on one, however much the queries print around their markers.
THEOREM HealthyOpensGate == Spec => []HealthyGateOpens
<1>1. Inv => HealthyGateOpens
  BY DEF Inv, Verdict
<1> QED
  BY <1>1, Invariance, PTL

-----------------------------------------------------------------------------
(* The crossing as one call *)

\* What was executed is what was asked for, as long as the call is open.
RanIsAsked ==
  (pc \in Going \cup {"eof"} /\ inner # -1) \/ pc \in {"bash", "query", "trailer"} => cmd = Asked

\* By the round trip of the wire.
LEMMA RanFollows ==
  ASSUME Inv
  PROVE  RanIsAsked
<1> SUFFICES ASSUME (pc \in Going \cup {"eof"} /\ inner # -1) \/ pc \in {"bash", "query", "trailer"}
             PROVE  cmd = Asked
  BY DEF RanIsAsked
<1>1. pc \in {"bash", "query", "trailer"} \/ (pc = "eof" /\ inner # -1)
  BY DEF Inv, Crossing, InPlace, Going
<1>2. cmd = Command(req.op, req.args, ParseWire(wire)) /\ cmd # NoCommand
  <2>1. cmd = Command(req.op, req.args, ParseWire(wire))
    BY <1>1 DEF Inv, Crossing, InPlace
  <2>2. cmd.op = req.op /\ NoCommand.op = "none" /\ req.op # "none"
    BY <2>1 DEF Command, NoCommand, Inv, Crossing, Typed, Ops, NullaryOps, ComposeOps, StreamingOps
  <2> QED
    BY <2>1, <2>2
<1>3. req.via # "check"
  BY <1>2 DEF Inv, Crossing, Checks
<1>4. LetThrough
  BY <1>1, <1>3 DEF Inv, Crossing, CallIsValid, Going
<1> QED
  BY <1>2, <1>4, CommandIsAsked

\* What is asked for is a command.
LEMMA AskedIsCommand ==
  ASSUME Typed
  PROVE  Asked # NoCommand
<1>1. Asked.op = req.op /\ NoCommand.op = "none" /\ req.op # "none"
  BY DEF Asked, NoCommand, Command, Typed, Ops, NullaryOps, ComposeOps, StreamingOps
<1> QED
  BY <1>1

\* A call that is refused executes nothing.
LEMMA RefusedRunsNothing ==
  ASSUME NewCall, pc' = "returned"
  PROVE  cmd' = cmd
<1>1. CASE \E op \in Ops, rule \in BOOLEAN : CallCheck(op, [AnySite EXCEPT !.rule = rule])
  BY <1>1 DEF CallCheck
<1>2. CASE \E r, s : Call(r, s)
  BY <1>2, SMTT(30) DEF Call
<1> QED
  BY <1>1, <1>2, Zenon DEF NewCall

\* Every step is a step of the call, or none of its business.
LEMMA CallStep ==
  ASSUME Inv, Inv', RanIsAsked', [Next]_vars
  PROVE  Remote!Next \/ UNCHANGED <<CallStage, CallAsked, cmd, inner, result.status>>
<1> USE DEF Inv, Crossing
<1>c. Typed /\ Fresh /\ Checks /\ CallIsValid /\ InPlace
  OBVIOUS
<1>o. ASSUME pc \in Going \cup {"eof"}
      PROVE  /\ CallStage = "open" /\ result.status = "none"
             /\ CallAsked = IF req.via = "check" THEN NoCommand ELSE Asked
  BY <1>o DEF CallStage, CallAsked, CallIsValid, NoResult, Going
<1>p. ASSUME pc' \in Going \cup {"eof"}
      PROVE  /\ CallStage' = "open" /\ result'.status = "none"
             /\ CallAsked' = IF req'.via = "check" THEN NoCommand ELSE Asked'
  BY <1>p DEF CallStage, CallAsked, CallIsValid, NoResult, Going
<1>g. ASSUME pc \in Going \cup {"eof"}, pc' \in Going \cup {"eof"}, UNCHANGED <<req, site>>
      PROVE  UNCHANGED <<CallStage, CallAsked, result.status>>
  BY <1>o, <1>p, <1>g, AskedKept
<1>1. CASE NewCall
  <2>1. /\ CallStage = "idle" /\ CallAsked = NoCommand /\ cmd = NoCommand /\ inner = -1
        /\ result.status = "none" /\ inner' = inner
    BY <1>1, NewCallFacts DEF Fresh, CallStage, CallAsked, NoResult
  <2>2. CASE pc' = "returned" /\ result' = [status |-> "refused", nonce |-> 0]
    <3>1. CallStage' = "answered" /\ CallAsked' = NoCommand /\ result'.status = "refused"
      BY <2>2 DEF CallStage, CallAsked
    <3>2. cmd' = cmd
      BY <1>1, <2>2, RefusedRunsNothing
    <3> QED
      BY <2>1, <3>1, <3>2 DEF Remote!Next, Remote!Refuse, Remote!Moves
  <2>3. CASE pc' \in {"bash", "sudo"}
    <3>1. CallStage' = "open" /\ result'.status = "none"
      BY <2>3, <1>p DEF Going
    <3>2. cmd' \in {NoCommand, CallAsked'}
      BY <1>1, <2>1, <2>3, <1>p, NewCallFacts DEF Going, RanIsAsked
    <3> QED
      BY <2>1, <3>1, <3>2 DEF Remote!Next, Remote!Submit, Remote!Moves
  <2> QED
    BY <1>1, <2>2, <2>3, NewCallFacts
<1>2. CASE Forget
  <2>1. CallStage = "answered"
    BY <1>2 DEF Forget, CallStage
  <2>2. /\ CallStage' = "idle" /\ CallAsked' = NoCommand /\ result'.status = "none"
        /\ cmd' = NoCommand /\ inner' = -1
    BY <1>2, ForgetFacts DEF CallStage, CallAsked, NoResult
  <2> QED
    BY <2>1, <2>2 DEF Remote!Next, Remote!Forget, Remote!Moves
<1>3. CASE Announce \/ Trailing \/ AskQuery \/ Answering
  <2>1. UNCHANGED <<req, site, cmd, inner>> /\ pc \in Going /\ pc' \in Going \cup {"eof"}
    BY <1>3, AnnounceFacts, TrailingFacts, AskFacts, AnswerFacts DEF Going, InPlace
  <2> QED
    BY <2>1, <1>g
<1>4. CASE Printing
  <2>1. UNCHANGED <<req, site, cmd, inner, pc>> /\ pc \in {"bash", "query"}
    BY <1>4, PrintFacts
  <2> QED
    BY <2>1, <1>g DEF Going
<1>5. CASE Silent
  <2>1. /\ UNCHANGED <<req, site>> /\ pc \in Going /\ pc' \in Going \cup {"eof"}
        /\ \/ UNCHANGED <<cmd, inner>>
           \/ /\ pc \in {"sudo", "dispatcher"} /\ ~IsCheck /\ pc' = "bash" /\ inner' = inner
           \/ /\ pc = "bash" /\ inner' \in {0, 1} /\ cmd' = cmd /\ pc' \in {"trailer", "eof"}
    BY <1>5, SilentFacts DEF Going, IsStream
  <2>2. UNCHANGED <<CallStage, CallAsked, result.status>> /\ CallStage = "open"
    BY <2>1, <1>g, <1>o
  <2>3. CASE UNCHANGED <<cmd, inner>>
    BY <2>2, <2>3
  <2>4. CASE pc \in {"sudo", "dispatcher"} /\ ~IsCheck /\ pc' = "bash" /\ inner' = inner
    <3>1. cmd = NoCommand /\ CallAsked = Asked
      BY <2>1, <2>4, <1>o DEF InPlace, Checks
    <3>2. cmd' = Asked
      BY <2>1, <2>4, AskedKept DEF RanIsAsked
    <3> QED
      BY <2>2, <2>4, <3>1, <3>2, AskedIsCommand DEF Remote!Next, Remote!Execute, Remote!Moves
  <2>5. CASE pc = "bash" /\ inner' \in {0, 1} /\ cmd' = cmd /\ pc' \in {"trailer", "eof"}
    <3>1. inner = -1
      BY <2>5 DEF InPlace
    <3>2. cmd # NoCommand
      BY <2>5, RanFollows, AskedIsCommand DEF RanIsAsked
    <3> QED
      BY <2>2, <2>5, <3>1, <3>2 DEF Remote!Next, Remote!Finish, Remote!Moves
  <2> QED
    BY <2>1, <2>3, <2>4, <2>5
<1>6. CASE Return \/ TimesOut
  <2>1. /\ UNCHANGED <<req, site, cmd, inner>> /\ pc \in Going \cup {"eof"} /\ pc' = "returned"
        /\ result'.status \in {"ok", "failed", "timed_out", "streamed"}
        /\ result'.status = "ok" => Return /\ pc = "eof" /\ ~IsStream /\ ExitCode = 0
    BY <1>6, ReturnFacts, TimesOutFacts
  <2>2. CallStage = "open" /\ CallStage' = "answered" /\ CallAsked' = CallAsked
    BY <2>1, <1>o, AskedKept DEF CallStage, CallAsked
  <2>3. ASSUME result'.status = "ok" PROVE CallAsked = NoCommand \/ (cmd = CallAsked /\ inner = 0)
    BY <2>1, <2>3, <1>o, SuccessFacts DEF Frame
  <2> QED
    BY <2>1, <2>2, <2>3 DEF Remote!Next, Remote!Answer, Remote!Done, Remote!Moves
<1>7. CASE UNCHANGED vars
  BY <1>7, AskedKept DEF vars, CallStage, CallAsked
<1> QED
  BY <1>1, <1>2, <1>3, <1>4, <1>5, <1>6, <1>7, StepKinds

\* The crossing is one call: for any instances, arguments, output and deaths,
\* nothing but the command asked for runs, at most once, and "ok" is said only of
\* one that exited with 0 (invoke, probe, proxy_argv, and main.go behind them).
THEOREM Refinement == Spec => ImplementsCall
<1>1. Init => Remote!Init
  BY DEF Init, Remote!Init, CallStage, CallAsked, NoResult
<1>2. Inv => RanIsAsked
  BY RanFollows
<1>3. Inv /\ Inv' /\ RanIsAsked' /\ [Next]_vars
        => [Remote!Next]_<<CallStage, CallAsked, cmd, inner, result.status>>
  BY CallStep
<1> QED
  BY Invariance, <1>1, <1>2, <1>3, PTL DEF Spec, ImplementsCall, Remote!Spec
================================================================================
