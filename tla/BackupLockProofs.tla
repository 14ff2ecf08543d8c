--------------------------- MODULE BackupLockProofs ---------------------------
(***************************************************************************)
(* Proofs about BackupLock, for any set of processes, any grace period and *)
(* any number of deaths.  The inductive invariant is the conjunction of    *)
(* the type invariant, the agreement between the kernel's flock and the    *)
(* control points, and what the agreement buys for the lock file: since    *)
(* only the holder writes a record, the record is the insider's.           *)
(***************************************************************************)
EXTENDS BackupLock, TLAPS

Inv == TypeOK /\ FlockMatchesControl /\ MetadataIsTheInsiders

\* No process holds the lock, and nobody is inside, when the lock file does not exist yet.
LEMMA InitInv == Init => Inv
  BY LockAssumption
  DEF Init, Inv, TypeOK, FlockMatchesControl, MetadataIsTheInsiders, HoldingPCs,
      Absent, Metas, PCs, AcquirePCs, InsidePCs, QueryPCs, Outcomes

\* Every system call, every death and every tick of the clock keeps the types.
LEMMA TypeStep == TypeOK /\ [Next]_vars => TypeOK'
<1> SUFFICES ASSUME TypeOK, [Next]_vars PROVE TypeOK'
  OBVIOUS
<1> USE LockAssumption DEF TypeOK, Goto, End, Truncate, Empty, Full, Metas, PCs,
        AcquirePCs, InsidePCs, QueryPCs, Outcomes
<1>1. CASE UNCHANGED vars
  BY <1>1 DEF vars
<1>2. CASE Tick
  BY <1>2 DEF Tick
<1>3. ASSUME NEW p \in Procs, AcquireOpen(p) \/ Acquiring(p) PROVE TypeOK'
  BY <1>3 DEF AcquireOpen, Acquiring, AcquireFlock, AcquireJudge, AcquireTakeover,
              AcquireRetry, AcquireClear, AcquireWrite
<1>4. ASSUME NEW p \in Procs, ReleaseClear(p) \/ ReleaseUnlock(p) PROVE TypeOK'
  BY <1>4 DEF ReleaseClear, ReleaseUnlock, Unwitness
<1>5. ASSUME NEW p \in Procs, QueryExists(p) PROVE TypeOK'
  <2>1. Insider \in Procs \cup {NoProc}
    BY DEF Insider
  <2> QED
    BY <1>5, <2>1 DEF QueryExists
<1>6. ASSUME NEW p \in Procs, Querying(p) PROVE TypeOK'
  BY <1>6 DEF Querying, QueryStale, QueryFlock, QueryUnlock
<1>7. ASSUME NEW p \in Procs, Crash(p) PROVE TypeOK'
  BY <1>7 DEF Crash, Unwitness
<1> QED
  BY <1>1, <1>2, <1>3, <1>4, <1>5, <1>6, <1>7 DEF Next, ProcStep

\* The flock changes hands only with the control point of the process that
\* takes, drops or loses it.
LEMMA FlockStep == TypeOK /\ FlockMatchesControl /\ [Next]_vars => FlockMatchesControl'
<1> SUFFICES ASSUME TypeOK, FlockMatchesControl, [Next]_vars
             PROVE FlockMatchesControl'
  OBVIOUS
<1> USE LockAssumption DEF TypeOK, FlockMatchesControl, HoldingPCs, Goto, End
<1>1. CASE UNCHANGED vars
  BY <1>1 DEF vars
<1>2. CASE Tick
  BY <1>2 DEF Tick
<1>3. ASSUME NEW p \in Procs, AcquireOpen(p) \/ Acquiring(p)
      PROVE FlockMatchesControl'
  BY <1>3 DEF AcquireOpen, Acquiring, AcquireFlock, AcquireJudge, AcquireTakeover,
              AcquireRetry, AcquireClear, AcquireWrite
<1>4. ASSUME NEW p \in Procs, ReleaseClear(p) \/ ReleaseUnlock(p)
      PROVE FlockMatchesControl'
  BY <1>4 DEF ReleaseClear, ReleaseUnlock
<1>5. ASSUME NEW p \in Procs, QueryExists(p) \/ Querying(p)
      PROVE FlockMatchesControl'
  BY <1>5 DEF QueryExists, Querying, QueryStale, QueryFlock, QueryUnlock
<1>6. ASSUME NEW p \in Procs, Crash(p) PROVE FlockMatchesControl'
  BY <1>6 DEF Crash
<1> QED
  BY <1>1, <1>2, <1>3, <1>4, <1>5, <1>6 DEF Next, ProcStep

\* Truncation is harmless to the record's ownership, and a write is the holder's.
LEMMA MetadataStep == Inv /\ [Next]_vars => MetadataIsTheInsiders'
<1> SUFFICES ASSUME Inv, [Next]_vars PROVE MetadataIsTheInsiders'
  OBVIOUS
<1> USE LockAssumption DEF Inv, TypeOK, FlockMatchesControl, MetadataIsTheInsiders,
        HoldingPCs, Goto, End, Truncate, Empty, Full
<1>1. CASE UNCHANGED vars
  BY <1>1 DEF vars
<1>2. CASE Tick
  BY <1>2 DEF Tick
<1>3. ASSUME NEW p \in Procs, AcquireOpen(p) PROVE MetadataIsTheInsiders'
  BY <1>3 DEF AcquireOpen, Metas
<1>4. ASSUME NEW p \in Procs, Acquiring(p) PROVE MetadataIsTheInsiders'
  BY <1>4 DEF Acquiring, AcquireFlock, AcquireJudge, AcquireTakeover,
              AcquireRetry, AcquireClear, AcquireWrite
<1>5. ASSUME NEW p \in Procs, ReleaseClear(p) \/ ReleaseUnlock(p)
      PROVE MetadataIsTheInsiders'
  BY <1>5 DEF ReleaseClear, ReleaseUnlock
<1>6. ASSUME NEW p \in Procs, QueryExists(p) \/ Querying(p)
      PROVE MetadataIsTheInsiders'
  BY <1>6 DEF QueryExists, Querying, QueryStale, QueryFlock, QueryUnlock
<1>7. ASSUME NEW p \in Procs, Crash(p) PROVE MetadataIsTheInsiders'
  BY <1>7 DEF Crash
<1> QED
  BY <1>1, <1>2, <1>3, <1>4, <1>5, <1>6, <1>7 DEF Next, ProcStep

\* The three parts together hold in every reachable state.
THEOREM Invariance == Spec => []Inv
<1>1. Inv /\ [Next]_vars => Inv'
  BY TypeStep, FlockStep, MetadataStep DEF Inv
<1> QED
  BY InitInv, <1>1, PTL DEF Spec

\* The model's variables keep their types.
THEOREM TypeCorrect == Spec => []TypeOK
  BY Invariance, PTL DEF Inv

\* Control points and the kernel's flock always agree.
THEOREM FlockAgreement == Spec => []FlockMatchesControl
  BY Invariance, PTL DEF Inv

\* Two backups of one instance never overlap.
THEOREM BackupsExclude == Spec => []MutualExclusion
<1>1. Inv => MutualExclusion
  BY DEF Inv, FlockMatchesControl, MutualExclusion, HoldingPCs, InsidePCs
<1> QED
  BY Invariance, <1>1, PTL

\* The lock file only ever describes the backup that is running.
THEOREM MetadataOwnership == Spec => []MetadataIsTheInsiders
  BY Invariance, PTL DEF Inv

-----------------------------------------------------------------------------
(* BackupLock implements BackupMutex. *)

\* Under the invariant, the insider is the one process at "inside".
LEMMA InsiderIsUnique ==
  ASSUME Inv, NEW p \in Procs, pc[p] = "inside"
  PROVE  Insider = p
  BY DEF Inv, FlockMatchesControl, HoldingPCs, Insider

\* Nobody at "inside" means no insider.
LEMMA NoInsider ==
  ASSUME \A p \in Procs : pc[p] # "inside"
  PROVE  Insider = NoProc
  BY DEF Insider

\* A step that moves no process into or out of "inside" is a stutter of the mutex.
LEMMA InsiderStutter ==
  ASSUME Inv, Inv', \A p \in Procs : pc'[p] = "inside" <=> pc[p] = "inside"
  PROVE  Insider' = Insider
<1>1. CASE \E p \in Procs : pc[p] = "inside"
  <2>1. PICK p \in Procs : pc[p] = "inside"
    BY <1>1
  <2>2. Insider = p
    BY <2>1, InsiderIsUnique
  <2>3. Insider' = p
    BY <2>1 DEF Inv, FlockMatchesControl, HoldingPCs, Insider
  <2> QED
    BY <2>2, <2>3
<1>2. CASE ~ \E p \in Procs : pc[p] = "inside"
  BY <1>2 DEF Insider
<1> QED
  BY <1>1, <1>2

\* Only AcquireWrite enters, only ReleaseClear and a death leave.
LEMMA MutexStep == Inv /\ Inv' /\ [Next]_vars => [Mutex!Next]_Insider
<1> SUFFICES ASSUME Inv, Inv', [Next]_vars PROVE Mutex!Next \/ Insider' = Insider
  OBVIOUS
<1> USE DEF Goto, End
<1>a. /\ pc \in [Procs -> PCs]
      /\ \A p, q \in Procs : pc[p] \in HoldingPCs /\ pc[q] \in HoldingPCs => p = q
      /\ \A p, q \in Procs : pc'[p] \in HoldingPCs /\ pc'[q] \in HoldingPCs => p = q
  BY DEF Inv, TypeOK, FlockMatchesControl
<1>1. CASE UNCHANGED vars \/ Tick
  BY <1>1, InsiderStutter DEF vars, Tick
<1>2. ASSUME NEW p \in Procs,
             \/ AcquireOpen(p) \/ AcquireFlock(p) \/ AcquireJudge(p)
             \/ AcquireTakeover(p) \/ AcquireRetry(p) \/ AcquireClear(p)
      PROVE Insider' = Insider
  BY <1>2, <1>a, InsiderStutter
  DEF AcquireOpen, AcquireFlock, AcquireJudge, AcquireTakeover, AcquireRetry, AcquireClear
<1>3. ASSUME NEW p \in Procs, ReleaseUnlock(p) \/ QueryExists(p) \/ Querying(p)
      PROVE Insider' = Insider
  BY <1>3, <1>a, InsiderStutter
  DEF ReleaseUnlock, QueryExists, Querying, QueryStale, QueryFlock, QueryUnlock
<1>4. ASSUME NEW p \in Procs, AcquireWrite(p) PROVE Mutex!Enter(p)
  <2>1. pc[p] = "cleared" /\ pc'[p] = "inside"
    BY <1>4, <1>a DEF AcquireWrite
  <2>2. Insider = NoProc
    BY <2>1, <1>a, NoInsider DEF HoldingPCs
  <2>3. Insider' = p
    BY <2>1, <1>a DEF HoldingPCs, Insider
  <2> QED
    BY <2>2, <2>3 DEF Mutex!Enter
<1>5. ASSUME NEW p \in Procs, pc[p] = "inside", pc'[p] # "inside",
             \A q \in Procs \ {p} : pc'[q] = pc[q]
      PROVE Mutex!Leave(p)
  <2>1. Insider = p
    BY <1>5, InsiderIsUnique
  <2>2. \A q \in Procs : pc'[q] # "inside"
    BY <1>5, <1>a DEF HoldingPCs
  <2>3. Insider' = NoProc
    BY <2>2 DEF Insider
  <2> QED
    BY <2>1, <2>3 DEF Mutex!Leave
<1>6. ASSUME NEW p \in Procs, ReleaseClear(p) PROVE Mutex!Leave(p)
  BY <1>6, <1>5, <1>a DEF ReleaseClear
<1>7. ASSUME NEW p \in Procs, Crash(p) PROVE Mutex!Leave(p) \/ Insider' = Insider
  <2>1. CASE pc[p] = "inside"
    BY <1>7, <2>1, <1>5, <1>a DEF Crash
  <2>2. CASE pc[p] # "inside"
    BY <1>7, <2>2, <1>a, InsiderStutter DEF Crash
  <2> QED
    BY <2>1, <2>2
<1> QED
  BY <1>1, <1>2, <1>3, <1>4, <1>6, <1>7 DEF Next, ProcStep, Acquiring, Mutex!Next

\* locks.py is a mutual-exclusion lock that a death releases.
THEOREM Refinement == Spec => ImplementsMutex
<1>1. Init => Mutex!Init
  BY NoInsider DEF Init, Mutex!Init
<1> QED
  BY Invariance, <1>1, MutexStep, PTL DEF Spec, ImplementsMutex, Mutex!Spec

-----------------------------------------------------------------------------
(* What a query may answer. *)

\* Who a query has witnessed is still inside; the file exists once anybody is
\* in a call; a file without a record is empty.
Witness ==
  /\ \A p \in Procs : seen[p] # NoProc => seen[p] \in Procs /\ pc[seen[p]] = "inside"
  /\ \A p \in Procs : pc[p] # "idle" => meta.state # "absent"
  /\ meta.state = "empty" => meta = Empty

\* Whoever leaves the with-block is struck from every query's history, and no
\* step removes the file.
LEMMA WitnessStep == Inv /\ Witness /\ [Next]_vars => Witness'
<1> SUFFICES ASSUME Inv, Witness, [Next]_vars PROVE Witness'
  OBVIOUS
<1> USE LockAssumption DEF Inv, TypeOK, Witness, Goto, End, Truncate, Empty, Full
<1>1. CASE UNCHANGED vars \/ Tick
  BY <1>1 DEF vars, Tick
<1>2. ASSUME NEW p \in Procs, AcquireOpen(p) PROVE Witness'
  BY <1>2 DEF AcquireOpen
<1>3. ASSUME NEW p \in Procs, Acquiring(p) PROVE Witness'
  BY <1>3 DEF Acquiring, AcquireFlock, AcquireJudge, AcquireTakeover,
              AcquireRetry, AcquireClear, AcquireWrite
<1>4. ASSUME NEW p \in Procs, ReleaseClear(p) \/ ReleaseUnlock(p) PROVE Witness'
  BY <1>4 DEF ReleaseClear, ReleaseUnlock, Unwitness
<1>5. ASSUME NEW p \in Procs, QueryExists(p) PROVE Witness'
  <2>1. Insider # NoProc => Insider \in Procs /\ pc[Insider] = "inside"
    BY DEF Insider
  <2> QED
    BY <1>5, <2>1 DEF QueryExists
<1>6. ASSUME NEW p \in Procs, Querying(p) PROVE Witness'
  BY <1>6 DEF Querying, QueryStale, QueryFlock, QueryUnlock
<1>7. ASSUME NEW p \in Procs, Crash(p) PROVE Witness'
  BY <1>7 DEF Crash, Unwitness
<1> QED
  BY <1>1, <1>2, <1>3, <1>4, <1>5, <1>6, <1>7 DEF Next, ProcStep

\* A query that overlaps one backup from start to end answers False only by
\* judging the record stale or finding it cleared by a contender, never by
\* finding the flock free or the file missing.
THEOREM FalseNeedsStaleRecord == Spec => FalseOnlyByStaleRecord
<1> DEFINE Answers(p) == /\ outcome[p] # "answered_false" /\ outcome'[p] = "answered_false"
                         /\ seen'[p] # NoProc
           ByRecord(p) == /\ pc[p] = "exists"
                          /\ \/ meta = Empty
                             \/ meta.pid = seen[p] /\ now - meta.at > Grace
           Justified == \A p \in Procs : Answers(p) => ByRecord(p)
<1>1. Init => Witness
  BY DEF Init, Witness, Absent
<1>2. Inv /\ Witness /\ [Next]_vars => Justified
  <2> SUFFICES ASSUME Inv, Witness, [Next]_vars, NEW p \in Procs, Answers(p)
               PROVE  ByRecord(p)
    OBVIOUS
  <2> USE DEF Goto, End, Inv, TypeOK
  <2>1. CASE UNCHANGED vars \/ Tick
    BY <2>1 DEF vars, Tick
  <2>2. ASSUME NEW q \in Procs,
               \/ AcquireOpen(q) \/ Acquiring(q) \/ ReleaseClear(q) \/ ReleaseUnlock(q)
               \/ QueryFlock(q) \/ Crash(q)
        PROVE FALSE
    BY <2>2 DEF AcquireOpen, Acquiring, AcquireFlock, AcquireJudge, AcquireTakeover,
       AcquireRetry, AcquireClear, AcquireWrite, ReleaseClear, ReleaseUnlock, QueryFlock, Crash
  <2>3. ASSUME NEW q \in Procs, QueryExists(q) PROVE FALSE
    <3>1. q = p /\ meta.state = "absent" /\ Insider # NoProc
      BY <2>3 DEF QueryExists
    <3>2. \E r \in Procs : pc[r] = "inside"
      BY <3>1 DEF Insider
    <3> QED
      BY <3>1, <3>2 DEF Witness
  <2>4. ASSUME NEW q \in Procs, QueryUnlock(q) PROVE FALSE
    <3>1. pc[p] = "probing" /\ seen[p] # NoProc
      BY <2>4 DEF QueryUnlock
    <3> QED
      BY <3>1 DEF Witness, FlockMatchesControl, HoldingPCs
  <2>5. ASSUME NEW q \in Procs, QueryStale(q) PROVE ByRecord(p)
    <3>1. pc[p] = "exists" /\ IsLockStale /\ seen[p] # NoProc
      BY <2>5 DEF QueryStale
    <3>2. meta.state # "absent" /\ pc[seen[p]] = "inside" /\ seen[p] \in Procs
      BY <3>1 DEF Witness
    <3>3. CASE meta.state = "full"
      BY <3>1, <3>2, <3>3 DEF MetadataIsTheInsiders, IsLockStale
    <3>4. CASE meta.state = "empty"
      BY <3>1, <3>4 DEF Witness
    <3> QED
      BY <3>2, <3>3, <3>4 DEF Metas
  <2> QED
    BY <2>1, <2>2, <2>3, <2>4, <2>5 DEF Next, ProcStep, Querying
<1>3. Inv /\ Witness /\ [Next]_vars => [Justified]_vars
  BY <1>2
<1> QED
  BY Invariance, WitnessStep, <1>1, <1>3, PTL DEF Spec, FalseOnlyByStaleRecord

-----------------------------------------------------------------------------
(* Calls are short: the half of CallsEnd that is a safety property *)

\* An upper bound on the system calls left of an acquire, of its exit, of a query.
CallsLeft(c) == CASE c = "idle" -> 0
                  [] c \in {"leaving", "probing"} -> 1
                  [] c \in {"inside", "fresh"} -> 2
                  [] c \in {"cleared", "exists"} -> 3
                  [] c = "locked" -> 4
                  [] c = "retry" -> 5
                  [] c = "takeover" -> 6
                  [] c = "contended" -> 7
                  [] c = "open" -> 8

\* Once in a call a process only gets closer to its end, whatever the others do.
NeverBack == [][\A p \in Procs : pc[p] # "idle" /\ pc'[p] # pc[p]
                               => CallsLeft(pc'[p]) < CallsLeft(pc[p])]_vars

\* A stale lock is taken over once and the flock tried twice at most: locks.py has
\* no way back from the retry to the contention before it, however often other
\* processes take the lock meanwhile.
THEOREM CallsAreShort == Spec => NeverBack
<1> DEFINE Closer == \A p \in Procs : pc[p] # "idle" /\ pc'[p] # pc[p]
                                     => CallsLeft(pc'[p]) < CallsLeft(pc[p])
<1>1. ASSUME TypeOK, [Next]_vars PROVE Closer
  <2> USE <1>1 DEF TypeOK, Goto, End, CallsLeft
  <2>1. CASE UNCHANGED vars \/ Tick
    BY <2>1 DEF vars, Tick
  <2>2. ASSUME NEW p \in Procs, AcquireOpen(p) \/ Acquiring(p) PROVE Closer
    BY <2>2 DEF AcquireOpen, Acquiring, AcquireFlock, AcquireJudge, AcquireTakeover,
                AcquireRetry, AcquireClear, AcquireWrite
  <2>3. ASSUME NEW p \in Procs, ReleaseClear(p) \/ ReleaseUnlock(p) PROVE Closer
    BY <2>3 DEF ReleaseClear, ReleaseUnlock
  <2>4. ASSUME NEW p \in Procs, QueryExists(p) \/ Querying(p) PROVE Closer
    BY <2>4 DEF QueryExists, Querying, QueryStale, QueryFlock, QueryUnlock
  <2>5. ASSUME NEW p \in Procs, Crash(p) PROVE Closer
    BY <2>5 DEF Crash, PCs, AcquirePCs, InsidePCs, QueryPCs
  <2> QED
    BY <2>1, <2>2, <2>3, <2>4, <2>5 DEF Next, ProcStep
<1>2. TypeOK /\ [Next]_vars => [Closer]_vars
  BY <1>1
<1> QED
  BY TypeCorrect, <1>2, PTL DEF Spec, NeverBack
=============================================================================
