----------------------------- MODULE SetupProofs ------------------------------
(***************************************************************************)
(* What Setup and Doctor promise, for any number of setups, faults and     *)
(* wheel upgrades.                                                         *)
(*                                                                         *)
(* The first part is about the operators: what Keep keeps, that the order  *)
(* of the phases is topological, what each act and the batch consist of,   *)
(* what a probe's verdict says.  The second is the inductive invariant     *)
(* IInv and its preservation: a phase that went through stays sound until  *)
(* the end of the setup, an effect is missing only until its own step, and *)
(* a setup that was able to succeed remains so.  The last part has the     *)
(* action properties of Setup, that it always comes to its end among them, *)
(* and the verdict of Doctor, whose dependency graph is shown to be        *)
(* acyclic and its results thereby well defined.                           *)
(***************************************************************************)
EXTENDS Doctor, TLAPS, SequenceTheorems, FiniteSetTheorems, WellFoundedInduction

-----------------------------------------------------------------------------
(* Induction, with the property as the set of the numbers that have it *)

\* What holds of 0 and is handed on holds of every number.
LEMMA Induction ==
  ASSUME NEW G, 0 \in G, \A n \in Nat : n \in G => n + 1 \in G
  PROVE  Nat \subseteq G
<1> DEFINE R == {ss \in Nat \X Nat : ss[1] < ss[2]}
<1>1. IsWellFoundedOn(R, Nat)
  BY NatLessThanWellFounded DEF OpToRel
<1> HIDE DEF R
<1>2. SUFFICES ASSUME Nat \ G # {} PROVE FALSE
  OBVIOUS
<1>3. Nat \ G \subseteq Nat
  OBVIOUS
<1>4. PICK x \in Nat \ G : \A y \in Nat \ G : ~(<<y, x>> \in R)
  BY <1>1, <1>2, <1>3, WFMin
<1>5. \A y \in Nat \ G : ~(y < x)
  BY <1>4 DEF R
<1>6. x # 0 /\ x - 1 \in Nat
  OBVIOUS
<1>7. x - 1 \in G
  BY <1>5, <1>6
<1> QED
  BY <1>6, <1>7

-----------------------------------------------------------------------------
(* Keep *)

KeepOne(t, x, S) == IF x \in S THEN Append(t, x) ELSE t

IsKept(f, seq, S, n) ==
  f = [i \in 0..n |-> IF i = 0 THEN <<>> ELSE KeepOne(f[i - 1], seq[i], S)]

\* The loop of Keep goes through any number of elements.
LEMMA KeptExists == \A seq, S : \A n \in Nat : \E f : IsKept(f, seq, S, n)
<1> TAKE seq, S
<1> DEFINE G == {n \in Nat : \E f : IsKept(f, seq, S, n)}
<1>1. 0 \in G
  <2> DEFINE f == [i \in 0..0 |-> <<>>]
  <2>1. IsKept(f, seq, S, 0)
    BY DEF IsKept
  <2> QED
    BY <2>1
<1>2. \A n \in Nat : n \in G => n + 1 \in G
  <2> SUFFICES ASSUME NEW n \in Nat, NEW f, IsKept(f, seq, S, n) PROVE n + 1 \in G
    OBVIOUS
  <2> DEFINE g == [i \in 0..(n + 1) |-> IF i = n + 1 THEN KeepOne(f[n], seq[i], S) ELSE f[i]]
  <2>1. \A i \in 0..(n + 1) : g[i] = IF i = 0 THEN <<>> ELSE KeepOne(g[i - 1], seq[i], S)
    BY DEF IsKept
  <2>2. IsKept(g, seq, S, n + 1)
    BY <2>1, Zenon DEF IsKept
  <2> QED
    BY <2>2
<1> HIDE DEF G
<1>3. Nat \subseteq G
  BY <1>1, <1>2, Induction
<1> QED
  BY <1>3 DEF G

InOrder(t, seq) ==
  \A i, j \in DOMAIN t : i < j =>
    \E a, b \in DOMAIN seq : a < b /\ t[i] = seq[a] /\ t[j] = seq[b]

\* t is what is kept of the first n elements.
KeptOf(t, T, seq, S, n) ==
  /\ t \in Seq(T)
  /\ \A i \in 1..Len(t) : t[i] \in S /\ \E a \in 1..n : t[i] = seq[a]
  /\ \A a \in 1..n : seq[a] \in S => \E i \in 1..Len(t) : t[i] = seq[a]
  /\ \A i, j \in 1..Len(t) : i < j => \E a, b \in 1..n : a < b /\ t[i] = seq[a] /\ t[j] = seq[b]

\* One more element.
LEMMA KeepOneMore ==
  ASSUME NEW T, NEW seq \in Seq(T), NEW S, NEW n \in Nat, n + 1 <= Len(seq),
         NEW t, KeptOf(t, T, seq, S, n)
  PROVE  KeptOf(KeepOne(t, seq[n + 1], S), T, seq, S, n + 1)
<1>1. CASE seq[n + 1] \notin S
  <2>1. KeepOne(t, seq[n + 1], S) = t
    BY <1>1 DEF KeepOne
  <2>2. \A a \in 1..(n + 1) : seq[a] \in S => a \in 1..n
    BY <1>1
  <2>3. \A a \in 1..n : a \in 1..(n + 1)
    OBVIOUS
  <2> QED
    BY <2>1, <2>2, <2>3 DEF KeptOf
<1>2. CASE seq[n + 1] \in S
  <2>1. PICK x \in T : x = seq[n + 1] /\ x \in S
    BY <1>2
  <2>2. PICK u : u = KeepOne(t, seq[n + 1], S)
    OBVIOUS
  <2>3. u = Append(t, x) /\ t \in Seq(T)
    BY <1>2, <2>1, <2>2 DEF KeepOne, KeptOf
  <2>4. /\ u \in Seq(T)
        /\ Len(t) \in Nat /\ Len(u) = Len(t) + 1
        /\ u[Len(t) + 1] = x
        /\ \A i \in 1..Len(t) : u[i] = t[i]
    BY <2>3
  <2>5. \A i \in 1..Len(u) : u[i] \in S /\ \E a \in 1..(n + 1) : u[i] = seq[a]
    <3> SUFFICES ASSUME NEW i \in 1..(Len(t) + 1)
                 PROVE u[i] \in S /\ \E a \in 1..(n + 1) : u[i] = seq[a]
      BY <2>4
    <3>1. CASE i = Len(t) + 1
      BY <2>1, <2>4, <3>1
    <3>2. CASE i \in 1..Len(t)
      <4>1. PICK a \in 1..n : t[i] = seq[a]
        BY <3>2 DEF KeptOf
      <4>2. a \in 1..(n + 1) /\ u[i] = seq[a] /\ u[i] \in S
        BY <2>4, <3>2, <4>1 DEF KeptOf
      <4> QED
        BY <4>2
    <3> QED
      BY <2>4, <3>1, <3>2
  <2>6. \A a \in 1..(n + 1) : seq[a] \in S => \E i \in 1..Len(u) : u[i] = seq[a]
    <3> SUFFICES ASSUME NEW a \in 1..(n + 1), seq[a] \in S
                 PROVE \E i \in 1..Len(u) : u[i] = seq[a]
      OBVIOUS
    <3>1. CASE a = n + 1
      BY <2>1, <2>4, <3>1
    <3>2. CASE a \in 1..n
      <4>1. PICK i \in 1..Len(t) : t[i] = seq[a]
        BY <3>2 DEF KeptOf
      <4>2. i \in 1..Len(u) /\ u[i] = seq[a]
        BY <2>4, <4>1
      <4> QED
        BY <4>2
    <3> QED
      BY <3>1, <3>2
  <2>7. \A i, j \in 1..Len(u) : i < j =>
          \E a, b \in 1..(n + 1) : a < b /\ u[i] = seq[a] /\ u[j] = seq[b]
    <3> SUFFICES ASSUME NEW i \in 1..(Len(t) + 1), NEW j \in 1..(Len(t) + 1), i < j
                 PROVE \E a, b \in 1..(n + 1) : a < b /\ u[i] = seq[a] /\ u[j] = seq[b]
      BY <2>4
    <3>1. CASE j = Len(t) + 1
      <4>1. i \in 1..Len(t)
        BY <2>4, <3>1
      <4>2. PICK a \in 1..n : t[i] = seq[a]
        BY <4>1 DEF KeptOf
      <4>3. a \in 1..(n + 1) /\ n + 1 \in 1..(n + 1) /\ a < n + 1
            /\ u[i] = seq[a] /\ u[j] = seq[n + 1]
        BY <2>1, <2>4, <3>1, <4>1, <4>2
      <4> QED
        BY <4>3
    <3>2. CASE j \in 1..Len(t)
      <4>1. i \in 1..Len(t)
        BY <2>4, <3>2
      <4>2. PICK a \in 1..n, b \in 1..n : a < b /\ t[i] = seq[a] /\ t[j] = seq[b]
        BY <3>2, <4>1 DEF KeptOf
      <4>3. a \in 1..(n + 1) /\ b \in 1..(n + 1) /\ u[i] = seq[a] /\ u[j] = seq[b]
        BY <2>4, <3>2, <4>1, <4>2
      <4> QED
        BY <4>2, <4>3
    <3> QED
      BY <2>4, <3>1, <3>2
  <2> QED
    BY <2>2, <2>4, <2>5, <2>6, <2>7 DEF KeptOf
<1> QED
  BY <1>1, <1>2

\* Keep returns the elements of the sequence that are in the set, in order.
LEMMA KeepFacts ==
  ASSUME NEW T, NEW seq \in Seq(T), NEW S
  PROVE  /\ Keep(seq, S) \in Seq(T)
         /\ FactsOf(Keep(seq, S)) = FactsOf(seq) \cap S
         /\ InOrder(Keep(seq, S), seq)
<1> DEFINE f == CHOOSE g : IsKept(g, seq, S, Len(seq))
<1>0. Len(seq) \in Nat /\ DOMAIN seq = 1..Len(seq)
  OBVIOUS
<1>1. \E g : IsKept(g, seq, S, Len(seq))
  BY <1>0, KeptExists
<1>2. IsKept(f, seq, S, Len(seq))
  BY <1>1
<1>3. Keep(seq, S) = f[Len(seq)]
  BY DEF Keep, IsKept, KeepOne
<1> HIDE DEF f
<1>4. f[0] = <<>> /\ \A i \in 1..Len(seq) : f[i] = KeepOne(f[i - 1], seq[i], S)
  BY <1>0, <1>2 DEF IsKept
<1> DEFINE G == {n \in Nat : n <= Len(seq) => KeptOf(f[n], T, seq, S, n)}
<1>5. 0 \in G
  <2>1. KeptOf(<<>>, T, seq, S, 0)
    BY DEF KeptOf
  <2> QED
    BY <1>4, <2>1
<1>6. \A n \in Nat : n \in G => n + 1 \in G
  <2> SUFFICES ASSUME NEW n \in Nat, n + 1 <= Len(seq), KeptOf(f[n], T, seq, S, n)
               PROVE KeptOf(f[n + 1], T, seq, S, n + 1)
    BY <1>0
  <2>1. f[n + 1] = KeepOne(f[n], seq[n + 1], S)
    BY <1>0, <1>4
  <2>2. KeptOf(KeepOne(f[n], seq[n + 1], S), T, seq, S, n + 1)
    BY KeepOneMore
  <2> QED
    BY <2>1, <2>2
<1> HIDE DEF G
<1>7. Nat \subseteq G
  BY <1>5, <1>6, Induction
<1>8. PICK k : k = Keep(seq, S)
  OBVIOUS
<1>9. KeptOf(k, T, seq, S, Len(seq))
  BY <1>0, <1>3, <1>7, <1>8 DEF G
<1>10. DOMAIN k = 1..Len(k) /\ k \in Seq(T)
  BY <1>9 DEF KeptOf
<1>11. FactsOf(k) = FactsOf(seq) \cap S
  <2>1. \A i \in DOMAIN k : k[i] \in S /\ \E a \in DOMAIN seq : k[i] = seq[a]
    BY <1>0, <1>9, <1>10, Zenon DEF KeptOf
  <2>2. \A a \in DOMAIN seq : seq[a] \in S => \E i \in DOMAIN k : k[i] = seq[a]
    BY <1>0, <1>9, <1>10, Zenon DEF KeptOf
  <2> QED
    BY <2>1, <2>2 DEF FactsOf
<1>12. InOrder(k, seq)
  <2> SUFFICES ASSUME NEW i \in 1..Len(k), NEW j \in 1..Len(k), i < j
               PROVE \E a, b \in DOMAIN seq : a < b /\ k[i] = seq[a] /\ k[j] = seq[b]
    BY <1>10 DEF InOrder
  <2>1. \E a, b \in 1..Len(seq) : a < b /\ k[i] = seq[a] /\ k[j] = seq[b]
    BY <1>9 DEF KeptOf
  <2> QED
    BY <1>0, <2>1, Zenon
<1> QED
  BY <1>8, <1>10, <1>11, <1>12, Zenon

\* Nothing is kept exactly when no element of the sequence is in the set.
LEMMA KeepNone ==
  ASSUME NEW T, NEW seq \in Seq(T), NEW S
  PROVE  Keep(seq, S) = <<>> <=> FactsOf(seq) \cap S = {}
<1>1. PICK k : k = Keep(seq, S)
  OBVIOUS
<1>2. k \in Seq(T) /\ FactsOf(k) = FactsOf(seq) \cap S
  BY <1>1, KeepFacts
<1>3. k = <<>> => FactsOf(k) = {}
  BY DEF FactsOf
<1>4. k # <<>> => k[1] \in FactsOf(k)
  BY <1>2 DEF FactsOf
<1> QED
  BY <1>1, <1>2, <1>3, <1>4

-----------------------------------------------------------------------------
(* order_phases *)

PhaseIds == {"l0", "l1", "l2", "l2a", "l5", "l6", "l6a", "l65", "l7", "l3", "l3a", "l8",
             "aide", "fapolicyd"}

\* The phases, one by one.
LEMMA PhasesAre == Phases = PhaseIds
  BY DEF Phases, DependsOn, PhaseIds

\* What each phase depends on.
LEMMA Dependencies ==
  /\ DependsOn["l0"] = {} /\ DependsOn["l1"] = {"l0"} /\ DependsOn["l2"] = {"l1"}
  /\ DependsOn["l2a"] = {"l2"} /\ DependsOn["l5"] = {"l2a"} /\ DependsOn["l6"] = {"l5"}
  /\ DependsOn["l6a"] = {"l6"} /\ DependsOn["l65"] = {"l6a"} /\ DependsOn["l7"] = {"l65"}
  /\ DependsOn["l3"] = {"l7"} /\ DependsOn["l3a"] = {"l3"} /\ DependsOn["l8"] = {"l3a"}
  /\ DependsOn["aide"] = {"l8"} /\ DependsOn["fapolicyd"] = {"l8"}
  BY DEF DependsOn

\* The sorted ids are the phases.
LEMMA IdsAreSorted == IdOrder \in Seq(Phases) /\ FactsOf(IdOrder) = Phases
<1>1. IdOrder \in Seq(Phases)
  BY PhasesAre DEF IdOrder, PhaseIds
<1>2. Len(IdOrder) = 14 /\ DOMAIN IdOrder = 1..14
  BY DEF IdOrder
<1>3. \A p \in PhaseIds : \E i \in 1..14 : IdOrder[i] = p
  BY DEF IdOrder, PhaseIds
<1>4. \A i \in 1..14 : IdOrder[i] \in PhaseIds
  BY DEF IdOrder, PhaseIds
<1> QED
  BY <1>1, <1>2, <1>3, <1>4, PhasesAre DEF FactsOf

Selections == {(Phases \ Extras) \cup e : e \in SUBSET Extras}

ReadyIn(S, D) == {p \in S \ D : DependsOn[p] \cap S \subseteq D}

\* As long as a phase is missing, one is ready.
LEMMA SomeoneReady ==
  ASSUME NEW S \in Selections, NEW D \in SUBSET S, D # S
  PROVE  ReadyIn(S, D) # {}
<1>1. PICK e \in SUBSET Extras : S = (Phases \ Extras) \cup e
  BY DEF Selections
<1>2. {"l0", "l1", "l2", "l2a", "l5", "l6", "l6a", "l65", "l7", "l3", "l3a", "l8"} \subseteq S
      /\ S \subseteq PhaseIds
  BY <1>1, PhasesAre DEF PhaseIds, Extras
<1>3. \E p \in S \ D : DependsOn[p] \subseteq D
  <2>1. CASE "l0" \notin D
    BY <1>2, <2>1, Dependencies
  <2>2. CASE "l0" \in D /\ "l1" \notin D
    BY <1>2, <2>2, Dependencies
  <2>3. CASE "l1" \in D /\ "l2" \notin D
    BY <1>2, <2>3, Dependencies
  <2>4. CASE "l2" \in D /\ "l2a" \notin D
    BY <1>2, <2>4, Dependencies
  <2>5. CASE "l2a" \in D /\ "l5" \notin D
    BY <1>2, <2>5, Dependencies
  <2>6. CASE "l5" \in D /\ "l6" \notin D
    BY <1>2, <2>6, Dependencies
  <2>7. CASE "l6" \in D /\ "l6a" \notin D
    BY <1>2, <2>7, Dependencies
  <2>8. CASE "l6a" \in D /\ "l65" \notin D
    BY <1>2, <2>8, Dependencies
  <2>9. CASE "l65" \in D /\ "l7" \notin D
    BY <1>2, <2>9, Dependencies
  <2>10. CASE "l7" \in D /\ "l3" \notin D
    BY <1>2, <2>10, Dependencies
  <2>11. CASE "l3" \in D /\ "l3a" \notin D
    BY <1>2, <2>11, Dependencies
  <2>12. CASE "l3a" \in D /\ "l8" \notin D
    BY <1>2, <2>12, Dependencies
  <2>13. CASE "l8" \in D /\ {"l0", "l1", "l2", "l2a", "l5", "l6", "l6a", "l65", "l7", "l3", "l3a"} \subseteq D
    <3>1. PICK p \in S \ D : TRUE
      OBVIOUS
    <3>2. p \in {"aide", "fapolicyd"}
      BY <1>2, <2>13, <3>1 DEF PhaseIds
    <3>3. DependsOn[p] \subseteq D
      BY <2>13, <3>2, Dependencies
    <3> QED
      BY <3>1, <3>3
  <2> QED
    BY <2>1, <2>2, <2>3, <2>4, <2>5, <2>6, <2>7, <2>8, <2>9, <2>10, <2>11, <2>12, <2>13
<1> QED
  BY <1>3 DEF ReadyIn

PlaceOne(t, S) == Append(t, Head(Keep(IdOrder, ReadyIn(S, FactsOf(t)))))

IsPlaced(f, S, n) == f = [i \in 0..n |-> IF i = 0 THEN <<>> ELSE PlaceOne(f[i - 1], S)]

\* The loop of order_phases goes through any number of phases.
LEMMA PlacedExists == \A S : \A n \in Nat : \E f : IsPlaced(f, S, n)
<1> TAKE S
<1> DEFINE G == {n \in Nat : \E f : IsPlaced(f, S, n)}
<1>1. 0 \in G
  <2> DEFINE f == [i \in 0..0 |-> <<>>]
  <2>1. IsPlaced(f, S, 0)
    BY DEF IsPlaced
  <2> QED
    BY <2>1
<1>2. \A n \in Nat : n \in G => n + 1 \in G
  <2> SUFFICES ASSUME NEW n \in Nat, NEW f, IsPlaced(f, S, n) PROVE n + 1 \in G
    OBVIOUS
  <2> DEFINE g == [i \in 0..(n + 1) |-> IF i = n + 1 THEN PlaceOne(f[n], S) ELSE f[i]]
  <2>1. \A i \in 0..(n + 1) : g[i] = IF i = 0 THEN <<>> ELSE PlaceOne(g[i - 1], S)
    BY DEF IsPlaced
  <2>2. IsPlaced(g, S, n + 1)
    BY <2>1, Zenon DEF IsPlaced
  <2> QED
    BY <2>2
<1> HIDE DEF G
<1>3. Nat \subseteq G
  BY <1>1, <1>2, Induction
<1> QED
  BY <1>3 DEF G

\* No phase comes twice, and each after those of S that it depends on.
Topological(t, S) ==
  /\ \A i, j \in 1..Len(t) : i # j => t[i] # t[j]
  /\ \A i \in 1..Len(t) : \A d \in DependsOn[t[i]] \cap S : \E j \in 1..(i - 1) : t[j] = d

\* t is an order of n phases of S.
OrderOf(t, S, n) ==
  /\ t \in Seq(S) /\ Len(t) = n
  /\ Topological(t, S)
  /\ IsFiniteSet(FactsOf(t)) /\ Cardinality(FactsOf(t)) = n

\* One more phase.
LEMMA PlaceOneMore ==
  ASSUME NEW S \in Selections, IsFiniteSet(S), NEW n \in Nat, n + 1 <= Cardinality(S),
         NEW t, OrderOf(t, S, n)
  PROVE  OrderOf(PlaceOne(t, S), S, n + 1)
<1>1. t \in Seq(S) /\ Len(t) = n /\ DOMAIN t = 1..n
  BY DEF OrderOf
<1>2. FactsOf(t) \subseteq S
  BY <1>1 DEF FactsOf
<1>3. FactsOf(t) # S
  BY DEF OrderOf
<1>4. ReadyIn(S, FactsOf(t)) # {} /\ ReadyIn(S, FactsOf(t)) \subseteq Phases
  <2>1. S \subseteq Phases
    BY PhasesAre DEF Selections, Extras, PhaseIds
  <2> QED
    BY <1>2, <1>3, <2>1, SomeoneReady DEF ReadyIn
<1>5. PICK k : k = Keep(IdOrder, ReadyIn(S, FactsOf(t)))
  OBVIOUS
<1>6. k \in Seq(Phases) /\ FactsOf(k) = ReadyIn(S, FactsOf(t))
  <2>1. /\ Keep(IdOrder, ReadyIn(S, FactsOf(t))) \in Seq(Phases)
        /\ FactsOf(Keep(IdOrder, ReadyIn(S, FactsOf(t))))
             = FactsOf(IdOrder) \cap ReadyIn(S, FactsOf(t))
    BY KeepFacts, IdsAreSorted
  <2> QED
    BY <1>4, <1>5, <2>1, IdsAreSorted
<1>7. k # <<>>
  <2>1. FactsOf(<<>>) = {}
    BY DEF FactsOf
  <2> QED
    BY <1>4, <1>6, <2>1
<1>8. PICK p : p = Head(k)
  OBVIOUS
<1>9. p \in FactsOf(k)
  <2>1. 1 \in DOMAIN k /\ p = k[1]
    BY <1>6, <1>7, <1>8
  <2> QED
    BY <2>1 DEF FactsOf
<1>10. p \in S /\ p \notin FactsOf(t) /\ DependsOn[p] \cap S \subseteq FactsOf(t)
  BY <1>6, <1>9 DEF ReadyIn
<1>11. PICK u : u = PlaceOne(t, S)
  OBVIOUS
<1>12. u = Append(t, p)
  BY <1>5, <1>8, <1>11 DEF PlaceOne
<1>13. u \in Seq(S) /\ Len(u) = n + 1 /\ u[n + 1] = p /\ \A i \in 1..n : u[i] = t[i]
  BY <1>1, <1>10, <1>12
<1>14. \A i \in 1..n : t[i] # p
  BY <1>1, <1>10 DEF FactsOf
<1>15. \A i, j \in 1..(n + 1) : i # j => u[i] # u[j]
  <2> SUFFICES ASSUME NEW i \in 1..(n + 1), NEW j \in 1..(n + 1), i # j PROVE u[i] # u[j]
    OBVIOUS
  <2>1. CASE i \in 1..n /\ j \in 1..n
    BY <1>1, <1>13, <2>1 DEF OrderOf, Topological
  <2>2. CASE i = n + 1
    BY <1>13, <1>14, <2>2
  <2>3. CASE j = n + 1
    BY <1>13, <1>14, <2>3
  <2> QED
    BY <2>1, <2>2, <2>3
<1>16. \A i \in 1..(n + 1) : \A d \in DependsOn[u[i]] \cap S : \E j \in 1..(i - 1) : u[j] = d
  <2> SUFFICES ASSUME NEW i \in 1..(n + 1), NEW d \in DependsOn[u[i]] \cap S
               PROVE \E j \in 1..(i - 1) : u[j] = d
    OBVIOUS
  <2>1. CASE i \in 1..n
    <3>1. d \in DependsOn[t[i]] \cap S
      BY <1>13, <2>1
    <3>2. PICK j \in 1..(i - 1) : t[j] = d
      BY <1>1, <2>1, <3>1 DEF OrderOf, Topological
    <3>3. j \in 1..n /\ u[j] = d
      BY <1>13, <2>1, <3>2
    <3> QED
      BY <3>2, <3>3
  <2>2. CASE i = n + 1
    <3>1. d \in FactsOf(t)
      BY <1>10, <1>13, <2>2
    <3>2. PICK j \in 1..n : t[j] = d
      BY <1>1, <3>1 DEF FactsOf
    <3>3. j \in 1..(i - 1) /\ u[j] = d
      BY <1>13, <2>2, <3>2
    <3> QED
      BY <3>3
  <2> QED
    BY <2>1, <2>2
<1>17. FactsOf(u) = FactsOf(t) \cup {p}
  <2>1. DOMAIN u = 1..(n + 1)
    BY <1>13
  <2>2. \A i \in 1..(n + 1) : u[i] = p \/ \E j \in 1..n : u[i] = t[j]
    BY <1>13
  <2>3. \A j \in 1..n : \E i \in 1..(n + 1) : u[i] = t[j]
    BY <1>13
  <2>4. n + 1 \in 1..(n + 1)
    OBVIOUS
  <2> QED
    <3>1. FactsOf(u) \subseteq FactsOf(t) \cup {p}
      BY <1>1, <2>1, <2>2 DEF FactsOf
    <3>2. FactsOf(t) \subseteq FactsOf(u)
      BY <1>1, <2>1, <2>3 DEF FactsOf
    <3>3. p \in FactsOf(u)
      BY <1>13, <2>1, <2>4 DEF FactsOf
    <3> QED
      BY <3>1, <3>2, <3>3
<1>18. IsFiniteSet(FactsOf(u)) /\ Cardinality(FactsOf(u)) = n + 1
  BY <1>10, <1>17, FS_AddElement DEF OrderOf
<1> QED
  BY <1>11, <1>13, <1>15, <1>16, <1>18 DEF OrderOf, Topological

\* order_phases returns the selected phases, each once and after those it
\* depends on.
LEMMA OrderIsTopological ==
  ASSUME NEW S \in Selections
  PROVE  Order(S) \in Seq(S) /\ FactsOf(Order(S)) = S /\ Topological(Order(S), S)
<1>0. IsFiniteSet(S) /\ Cardinality(S) \in Nat
  <2>1. S \subseteq PhaseIds
    BY PhasesAre DEF Selections, Extras, PhaseIds
  <2>2. IsFiniteSet(PhaseIds)
    <3>1. PhaseIds = {"l0"} \cup {"l1"} \cup {"l2"} \cup {"l2a"} \cup {"l5"} \cup {"l6"} \cup {"l6a"}
            \cup {"l65"} \cup {"l7"} \cup {"l3"} \cup {"l3a"} \cup {"l8"} \cup {"aide"} \cup {"fapolicyd"}
      BY DEF PhaseIds
    <3> QED
      BY <3>1, FS_Singleton, FS_Union
  <2> QED
    BY <2>1, <2>2, FS_Subset, FS_CardinalityType
<1> DEFINE f == CHOOSE g : IsPlaced(g, S, Cardinality(S))
<1>1. \E g : IsPlaced(g, S, Cardinality(S))
  BY <1>0, PlacedExists
<1>2. IsPlaced(f, S, Cardinality(S))
  BY <1>1
<1>3. Order(S) = f[Cardinality(S)]
  BY DEF Order, IsPlaced, PlaceOne, ReadyIn
<1> HIDE DEF f
<1>4. f[0] = <<>> /\ \A i \in 1..Cardinality(S) : f[i] = PlaceOne(f[i - 1], S)
  BY <1>0, <1>2 DEF IsPlaced
<1> DEFINE G == {n \in Nat : n <= Cardinality(S) => OrderOf(f[n], S, n)}
<1>5. 0 \in G
  <2>1. FactsOf(<<>>) = {}
    BY DEF FactsOf
  <2>2. OrderOf(<<>>, S, 0)
    BY <2>1, FS_EmptySet DEF OrderOf, Topological
  <2> QED
    BY <1>4, <2>2
<1>6. \A n \in Nat : n \in G => n + 1 \in G
  <2> SUFFICES ASSUME NEW n \in Nat, n + 1 <= Cardinality(S), OrderOf(f[n], S, n)
               PROVE OrderOf(f[n + 1], S, n + 1)
    BY <1>0
  <2>1. f[n + 1] = PlaceOne(f[n], S)
    BY <1>0, <1>4
  <2>2. OrderOf(PlaceOne(f[n], S), S, n + 1)
    BY <1>0, PlaceOneMore
  <2> QED
    BY <2>1, <2>2
<1> HIDE DEF G
<1>7. Nat \subseteq G
  BY <1>5, <1>6, Induction
<1>8. PICK t : t = Order(S)
  OBVIOUS
<1>9. OrderOf(t, S, Cardinality(S))
  BY <1>0, <1>3, <1>7, <1>8 DEF G
<1>10. FactsOf(t) \subseteq S
  BY <1>9 DEF OrderOf, FactsOf
<1>11. FactsOf(t) = S
  BY <1>0, <1>9, <1>10, FS_Subset DEF OrderOf
<1> QED
  BY <1>8, <1>9, <1>11 DEF OrderOf

-----------------------------------------------------------------------------
(* The invariant *)

Base == Phases \ Extras
Done == {p \in Phases : outcome[p] # None}

\* Where the setup is in its list: what is left has no duplicates and is in
\* order, what is done contains what it depends on, and a phase that was not
\* reported as failed did not run after a failed dependency.
Lists ==
  /\ rest \in Seq(Phases)
  /\ \A i, j \in 1..Len(rest) : i # j => rest[i] # rest[j]
  /\ \A i \in 1..Len(rest) : rest[i] \notin Done
  /\ failed \subseteq Done
  /\ pc = "idle" => rest = <<>> /\ failed = {} /\ outcome = NoOutcome
  /\ pc # "idle" => exit = "none"
  /\ pc \in {"plan", "gate", "batch"} => failed = {} /\ outcome = NoOutcome
  /\ pc \in {"gate", "batch", "record"} => ~update
  /\ pc = "batch" => mode = OR
  /\ pc = "record" => rest = <<>> /\ failed = {} /\ mode = SU
  /\ pc # "idle" /\ update => mode = SU /\ FactsOf(rest) \cup Done \subseteq {"l6a"}
  /\ pc # "idle" /\ ~update =>
       /\ Base \subseteq FactsOf(rest) \cup Done
       /\ \A i \in 1..Len(rest) : \A d \in DependsOn[rest[i]] :
            d \in Done \/ \E j \in 1..(i - 1) : rest[j] = d
       /\ \A p \in Done : DependsOn[p] \subseteq Done
  /\ \A p \in Done \ failed : AppliesIn(p, mode) => DependsOn[p] \cap failed = {}
  /\ pc \in {"act", "rollback"} =>
       rest # <<>> /\ AppliesIn(Head(rest), mode) /\ DependsOn[Head(rest)] \cap failed = {}

\* A file or a binary and the effect that follows it in the same act.
Pairs == {<<"sysctlFile", "sysctlLive">>, <<"delegateFile", "delegateLoaded">>,
          <<"runsc", "runscSeal">>, <<"dispatcher", "dispatcherSeal">>}

\* No step comes before one it must follow.
Ordered(t) ==
  \A i, j \in 1..Len(t) : i < j =>
    /\ t[i] # t[j] /\ t[i] # "marker"
    /\ t[j] = "opGroup" => t[i] \notin {"opMember", "sysctlFile", "runsc"}
    /\ \A r \in Pairs \cup {<<"trustFile", "trustLoaded">>} : ~(t[i] = r[2] /\ t[j] = r[1])

\* The steps left are of what is in hand and in its order; with a file, its
\* effect is left to do.
Todos ==
  /\ todo \in Seq(Facts \cup {"marker"})
  /\ pc \notin {"gate", "batch", "act", "rollback"} => todo = <<>>
  /\ pc \in {"gate", "batch"} => /\ FactsOf(todo) \subseteq FactsOf(BatchFacts)
                                 /\ todo # <<>> => mode = OR
  /\ pc = "act" => FactsOf(todo) \subseteq FactsOf(Act(Head(rest), mode))
  /\ pc \in {"gate", "batch", "act"} =>
       /\ Ordered(todo)
       /\ \A r \in Pairs \cup {<<"trustFile", "trustLoaded">>} :
            r[1] \in FactsOf(todo) => r[2] \in FactsOf(todo)

\* What a phase looks for is there, and what it cannot provide.
Sound(p, m, h) ==
  /\ Correct(Act(p, m), h)
  /\ p = "l0" => L0Probe(m, h) = "ALREADY_CORRECT"
  /\ p = "l1" => h["kernel"] = "good"

\* A phase that went through is sound until the end; the rule of L3 unless
\* L3a took it back.
PhasesSound ==
  /\ \A p \in (Done \ failed) \cap Base :
       AppliesIn(p, mode) /\ (p = "l3" => "l3a" \notin failed) => Sound(p, mode, host)
  /\ pc = "act" => Head(rest) # "l0" /\ (Head(rest) = "l1" => host["kernel"] = "good")

BatchProbed == {"opSubuid", "opSubgid", "opMember", "sysctlFile", "nftLoaded", "nftFile",
                "opDelegation", "opLinger", "runsc"}

\* What the batch is for is there or left to do.
BatchSound ==
  mode = OR =>
    /\ pc \in {"gate", "batch"} => \A f \in BatchProbed : host[f] = "good" \/ f \in FactsOf(todo)
    /\ pc \in {"apply", "act", "rollback"} => \A f \in BatchProbed : host[f] = "good"

\* The gate is reached when no phase refuses.
GateClear ==
  pc = "gate" => \A p \in FactsOf(rest) :
    AppliesIn(p, mode) => Probe(p, mode, host) \notin {"CONFLICT", "FAIL"}

\* As long as nothing has gone wrong, an effect is missing only between the
\* step that writes its file and its own.
EffectsFollow ==
  faults = 0 => \A r \in Pairs : host[r[1]] = "good" =>
    \/ host[r[2]] = "good"
    \/ pc \in {"batch", "act"} /\ r[2] \in FactsOf(todo) /\ "opGroup" \notin FactsOf(todo)

\* No phase left will refuse this host.
NoRefusal ==
  \A p \in FactsOf(rest) : AppliesIn(p, mode) => Probe(p, mode, host) \notin {"CONFLICT", "FAIL"}

\* A setup that was able to succeed still is.
StillAble ==
  (able /\ pc # "idle") =>
    /\ pc # "rollback"
    /\ failed = {}
    /\ pc = "plan" => Servable(mode, update, FactsOf(rest), host)
    /\ (~update /\ mode = SU) => /\ NoRefusal
                                 /\ host["subid"] # "stale" /\ host["group"] # "stale"
                                 /\ host["runsc"] # "stale"
    /\ mode = OR =>
         /\ NoRefusal
         /\ host["opSubgid"] = "good"
         /\ \A e \in FactsOf(rest) \cap Extras : Probe(e, mode, host) = "ALREADY_CORRECT"
         /\ pc \in {"gate", "batch"} =>
              /\ "opGroup" \in FactsOf(todo) => host["opGroup"] # "stale"
              /\ "fapolicyd" \in FactsOf(rest) => "runsc" \notin FactsOf(todo)
         /\ pc = "act" => Head(rest) \notin Extras
    /\ pc = "act" => \A f \in FactsOf(Act(Head(rest), mode)) :
                       f \in FactsOf(todo) \/ host[f] = "good"

\* The operator is a member only of a group that is there, and setup makes him
\* one only of a group in range.
GroupFirst ==
  /\ host["opMember"] = "good" => host["opGroup"] \in {"stale", "good"}
  /\ (pc \in {"gate", "batch"} /\ "opMember" \in FactsOf(todo)) =>
       "opGroup" \in FactsOf(todo) \/ host["opGroup"] = "good"

IInv == /\ TypeOK /\ Lists /\ Todos
        /\ PhasesSound /\ BatchSound /\ GateClear /\ EffectsFollow /\ GroupFirst
        /\ FailedSweepRevokes /\ StillAble /\ UnharmedSetupSucceeds

-----------------------------------------------------------------------------
(* The tables *)

\* The elements of short sequences.
LEMMA ElementsOf ==
  /\ FactsOf(<<>>) = {}
  /\ \A a : FactsOf(<<a>>) = {a}
  /\ \A a, b : FactsOf(<<a, b>>) = {a, b}
  /\ \A a, b, c : FactsOf(<<a, b, c>>) = {a, b, c}
  /\ \A a, b, c, d, e : FactsOf(<<a, b, c, d, e>>) = {a, b, c, d, e}
  BY DEF FactsOf

SUActs == [l0 |-> {}, l1 |-> {"sysctlFile", "sysctlLive"},
           l2 |-> {"machined", "user", "subid", "group", "member"},
           l2a |-> {"delegateFile", "delegateLoaded"}, l5 |-> {"linger", "dockerd"},
           l6 |-> {"daemonJson", "runtime"}, l6a |-> {"runsc", "runscSeal"},
           l65 |-> {"dispatcher", "dispatcherSeal", "manifest"}, l7 |-> {"image"},
           l3 |-> {"rule"}, l3a |-> {"swept"}, l8 |-> {"session"},
           aide |-> {"aideFile", "aideValid"}, fapolicyd |-> {"trustFile", "trustLoaded"}]

ORActs == [SUActs EXCEPT !["l5"] = {"opDockerd"}, !["l6"] = {"opDaemonJson", "opRuntime"},
                         !["l7"] = {"opImage"}]

\* The facts of each act.
LEMMA ActsAre ==
  ASSUME NEW p \in PhaseIds
  PROVE  FactsOf(Act(p, SU)) = SUActs[p] /\ FactsOf(Act(p, OR)) = ORActs[p]
<1> USE ElementsOf DEF SU, OR
<1>1. CASE p = "l0"
  BY <1>1 DEF Act, SUActs, ORActs
<1>2. CASE p = "l1"
  BY <1>2 DEF Act, SUActs, ORActs, L1Act
<1>3. CASE p = "l2"
  <2>1. FactsOf(L2Act) = {"machined", "user", "subid", "group", "member"}
    BY DEF L2Act
  <2>2. Act(p, SU) = L2Act /\ Act(p, OR) = L2Act
    BY <1>3 DEF Act
  <2> QED
    BY <1>3, <2>1, <2>2 DEF SUActs, ORActs
<1>4. CASE p = "l2a"
  BY <1>4 DEF Act, SUActs, ORActs, L2aAct
<1>5. CASE p = "l5"
  BY <1>5 DEF Act, SUActs, ORActs, L5Act
<1>6. CASE p = "l6"
  BY <1>6 DEF Act, SUActs, ORActs, L6Act
<1>7. CASE p = "l6a"
  BY <1>7 DEF Act, SUActs, ORActs, L6aAct
<1>8. CASE p = "l65"
  <2>1. FactsOf(L65Act) = {"dispatcher", "dispatcherSeal", "manifest"}
    BY DEF L65Act
  <2>2. Act(p, SU) = L65Act /\ Act(p, OR) = L65Act
    BY <1>8 DEF Act
  <2> QED
    BY <1>8, <2>1, <2>2 DEF SUActs, ORActs
<1>9. CASE p = "l7"
  BY <1>9 DEF Act, SUActs, ORActs, L7Act
<1>10. CASE p = "l3"
  BY <1>10 DEF Act, SUActs, ORActs, L3Act
<1>11. CASE p = "l3a"
  BY <1>11 DEF Act, SUActs, ORActs, L3aAct
<1>12. CASE p = "l8"
  BY <1>12 DEF Act, SUActs, ORActs, L8Act
<1>13. CASE p = "aide"
  BY <1>13 DEF Act, SUActs, ORActs, AideAct
<1>14. CASE p = "fapolicyd"
  BY <1>14 DEF Act, SUActs, ORActs, FapolicydAct
<1> QED
  BY <1>1, <1>2, <1>3, <1>4, <1>5, <1>6, <1>7, <1>8, <1>9, <1>10, <1>11, <1>12, <1>13, <1>14
     DEF PhaseIds

BatchSteps == {"opSubuid", "opSubgid", "opGroup", "opMember", "sysctlFile", "sysctlLive",
               "nftLoaded", "nftFile", "opDelegateFile", "opDelegation", "opLinger",
               "runsc", "runscSeal", "marker"}

\* The steps of the batch.
LEMMA BatchIs == FactsOf(BatchFacts) = BatchSteps
<1>1. Len(BatchFacts) = 14 /\ DOMAIN BatchFacts = 1..14
  BY DEF BatchFacts
<1>2. \A f \in BatchSteps : \E i \in 1..14 : BatchFacts[i] = f
  BY DEF BatchFacts, BatchSteps
<1>3. \A i \in 1..14 : BatchFacts[i] \in BatchSteps
  BY DEF BatchFacts, BatchSteps
<1> QED
  BY <1>1, <1>2, <1>3 DEF FactsOf

\* Every act and the batch are of facts; the facts, one by one.
LEMMA FactsHave ==
  /\ \A p \in PhaseIds : SUActs[p] \subseteq Facts /\ ORActs[p] \subseteq Facts
  /\ BatchSteps \ {"marker"} \subseteq Facts
  /\ Prerequisites \subseteq Facts
  /\ "marker" \notin Facts
<1>1. \A p \in PhaseIds : SUActs[p] \subseteq Facts /\ ORActs[p] \subseteq Facts
  <2> SUFFICES ASSUME NEW p \in PhaseIds PROVE SUActs[p] \subseteq Facts /\ ORActs[p] \subseteq Facts
    OBVIOUS
  <2>1. FactsOf(Act(p, SU)) \subseteq Facts /\ FactsOf(Act(p, OR)) \subseteq Facts
    BY PhasesAre DEF Facts, Modes
  <2> QED
    BY <2>1, ActsAre
<1>2. BatchSteps \ {"marker"} \subseteq Facts /\ Prerequisites \subseteq Facts
  BY BatchIs DEF Facts
<1>3. "marker" \notin Facts
  <2> SUFFICES ASSUME "marker" \in Facts PROVE FALSE
    OBVIOUS
  <2>1. "marker" \notin Prerequisites
    BY DEF Prerequisites
  <2>2. PICK p \in PhaseIds, m \in Modes : "marker" \in FactsOf(Act(p, m))
    BY <2>1, PhasesAre DEF Facts
  <2>3. "marker" \in SUActs[p] \/ "marker" \in ORActs[p]
    BY <2>2, ActsAre DEF Modes
  <2> QED
    BY <2>2, <2>3 DEF PhaseIds, SUActs, ORActs
<1> QED
  BY <1>1, <1>2, <1>3

\* The facts the properties and the actions name.
LEMMA FactNames ==
  {"sysctlFile", "sysctlLive", "machined", "user", "subid", "group", "member",
   "delegateFile", "delegateLoaded", "linger", "dockerd", "daemonJson", "runtime",
   "runsc", "runscSeal", "dispatcher", "dispatcherSeal", "manifest", "image", "rule",
   "swept", "session", "aideFile", "aideValid", "trustFile", "trustLoaded", "opDockerd",
   "opDaemonJson", "opRuntime", "opImage", "opSubuid", "opSubgid", "opGroup", "opMember",
   "nftLoaded", "nftFile", "opDelegateFile", "opDelegation", "opLinger", "prereq",
   "machinectl", "kernel", "aideTool", "fapolicydTool"} \subseteq Facts
<1>1. SUActs["l1"] \subseteq Facts /\ SUActs["l2"] \subseteq Facts /\ SUActs["l2a"] \subseteq Facts
      /\ SUActs["l5"] \subseteq Facts /\ SUActs["l6"] \subseteq Facts /\ SUActs["l6a"] \subseteq Facts
      /\ SUActs["l65"] \subseteq Facts /\ SUActs["l7"] \subseteq Facts /\ SUActs["l3"] \subseteq Facts
      /\ SUActs["l3a"] \subseteq Facts /\ SUActs["l8"] \subseteq Facts /\ SUActs["aide"] \subseteq Facts
      /\ SUActs["fapolicyd"] \subseteq Facts /\ ORActs["l5"] \subseteq Facts
      /\ ORActs["l6"] \subseteq Facts /\ ORActs["l7"] \subseteq Facts
  BY FactsHave DEF PhaseIds
<1>2. {"sysctlFile", "sysctlLive", "machined", "user", "subid", "group", "member",
       "delegateFile", "delegateLoaded", "linger", "dockerd", "daemonJson", "runtime"} \subseteq Facts
  BY <1>1 DEF SUActs
<1>3. {"runsc", "runscSeal", "dispatcher", "dispatcherSeal", "manifest", "image", "rule",
       "swept", "session", "aideFile", "aideValid", "trustFile", "trustLoaded"} \subseteq Facts
  BY <1>1 DEF SUActs
<1>4. {"opDockerd", "opDaemonJson", "opRuntime", "opImage"} \subseteq Facts
  BY <1>1 DEF SUActs, ORActs
<1>5. {"opSubuid", "opSubgid", "opGroup", "opMember", "nftLoaded", "nftFile", "opDelegateFile",
       "opDelegation", "opLinger", "prereq", "machinectl", "kernel", "aideTool",
       "fapolicydTool"} \subseteq Facts
  BY FactsHave DEF BatchSteps, Prerequisites
<1> QED
  BY <1>2, <1>3, <1>4, <1>5

\* A part of an ordered sequence in its order is ordered.
LEMMA OrderedPart ==
  ASSUME NEW T, NEW seq \in Seq(T), NEW t \in Seq(T), Ordered(seq), InOrder(t, seq)
  PROVE  Ordered(t)
<1> SUFFICES ASSUME NEW i \in 1..Len(t), NEW j \in 1..Len(t), i < j
             PROVE  /\ t[i] # t[j] /\ t[i] # "marker"
                    /\ t[j] = "opGroup" => t[i] \notin {"opMember", "sysctlFile", "runsc"}
                    /\ \A r \in Pairs \cup {<<"trustFile", "trustLoaded">>} :
                         ~(t[i] = r[2] /\ t[j] = r[1])
  BY DEF Ordered
<1>1. PICK a \in DOMAIN seq, b \in DOMAIN seq : a < b /\ t[i] = seq[a] /\ t[j] = seq[b]
  BY DEF InOrder
<1>2. a \in 1..Len(seq) /\ b \in 1..Len(seq)
  OBVIOUS
<1> QED
  BY <1>1, <1>2, Zenon DEF Ordered

\* The acts and the batch are ordered.
LEMMA ActsOrdered ==
  ASSUME NEW p \in PhaseIds, NEW m \in Modes
  PROVE  Act(p, m) \in Seq(Facts) /\ Ordered(Act(p, m))
<1> USE FactNames DEF Pairs
<1>1. <<>> \in Seq(Facts) /\ Ordered(<<>>)
  BY DEF Ordered
<1>2. \A f \in Facts : <<f>> \in Seq(Facts) /\ Ordered(<<f>>)
  BY DEF Ordered
<1>3. L1Act \in Seq(Facts) /\ Ordered(L1Act)
  BY DEF Ordered, L1Act
<1>4. L2Act \in Seq(Facts) /\ Ordered(L2Act)
  BY DEF Ordered, L2Act
<1>5. L2aAct \in Seq(Facts) /\ Ordered(L2aAct)
  BY DEF Ordered, L2aAct
<1>6. L5Act(m) \in Seq(Facts) /\ Ordered(L5Act(m))
  BY <1>2 DEF Ordered, L5Act
<1>7. L6Act(m) \in Seq(Facts) /\ Ordered(L6Act(m))
  BY DEF Ordered, L6Act
<1>8. L6aAct \in Seq(Facts) /\ Ordered(L6aAct)
  BY DEF Ordered, L6aAct
<1>9. L65Act \in Seq(Facts) /\ Ordered(L65Act)
  BY DEF Ordered, L65Act
<1>10. L7Act(m) \in Seq(Facts) /\ Ordered(L7Act(m))
  BY <1>2 DEF L7Act
<1>11. L3Act \in Seq(Facts) /\ Ordered(L3Act) /\ L3aAct \in Seq(Facts) /\ Ordered(L3aAct)
       /\ L8Act \in Seq(Facts) /\ Ordered(L8Act)
  BY <1>2 DEF L3Act, L3aAct, L8Act
<1>12. AideAct \in Seq(Facts) /\ Ordered(AideAct)
  BY DEF Ordered, AideAct
<1>13. FapolicydAct \in Seq(Facts) /\ Ordered(FapolicydAct)
  BY DEF Ordered, FapolicydAct
<1>14. Act(p, m) \in {<<>>, L1Act, L2Act, L2aAct, L5Act(m), L6Act(m), L6aAct, L65Act, L7Act(m),
                      L3Act, L3aAct, L8Act, AideAct, FapolicydAct}
  BY DEF Act, PhaseIds
<1> QED
  BY <1>1, <1>3, <1>4, <1>5, <1>6, <1>7, <1>8, <1>9, <1>10, <1>11, <1>12, <1>13, <1>14

\* The batch is ordered.
LEMMA BatchOrdered == BatchFacts \in Seq(Facts \cup {"marker"}) /\ Ordered(BatchFacts)
<1>1. BatchFacts \in Seq(Facts \cup {"marker"})
  BY FactNames DEF BatchFacts
<1>2. Len(BatchFacts) = 14 /\ BatchFacts[3] = "opGroup" /\ BatchFacts[4] = "opMember"
      /\ BatchFacts[5] = "sysctlFile"
      /\ BatchFacts[6] = "sysctlLive" /\ BatchFacts[12] = "runsc" /\ BatchFacts[13] = "runscSeal"
      /\ BatchFacts[14] = "marker"
  BY DEF BatchFacts
<1>3. \A i \in 1..14 : /\ BatchFacts[i] = "opGroup" => i = 3
                       /\ BatchFacts[i] = "opMember" => i = 4
                       /\ BatchFacts[i] = "sysctlFile" => i = 5
                       /\ BatchFacts[i] = "sysctlLive" => i = 6
                       /\ BatchFacts[i] = "runsc" => i = 12
                       /\ BatchFacts[i] = "runscSeal" => i = 13
                       /\ BatchFacts[i] = "marker" => i = 14
                       /\ BatchFacts[i] \notin {"delegateFile", "delegateLoaded", "dispatcher",
                                               "dispatcherSeal", "trustFile", "trustLoaded"}
  BY DEF BatchFacts
<1>4. \A i, j \in 1..14 : i < j => BatchFacts[i] # BatchFacts[j]
  BY DEF BatchFacts
<1>5. ASSUME NEW i \in 1..14, NEW j \in 1..14, i < j
      PROVE  /\ BatchFacts[i] # "marker"
             /\ BatchFacts[j] = "opGroup" => BatchFacts[i] \notin {"opMember", "sysctlFile", "runsc"}
             /\ \A r \in Pairs \cup {<<"trustFile", "trustLoaded">>} :
                  ~(BatchFacts[i] = r[2] /\ BatchFacts[j] = r[1])
  BY <1>3, <1>5 DEF Pairs
<1> QED
  BY <1>1, <1>2, <1>4, <1>5 DEF Ordered

-----------------------------------------------------------------------------
(* A step of an act *)

\* What a step changes: its fact becomes good; a binary with new bytes takes
\* its seal and the trust with it, a rule its sweep, a trust file its load.
LEMMA EstablishFacts ==
  ASSUME NEW h \in [Facts -> Levels], NEW f \in Facts
  PROVE  /\ Establish(h, f) \in [Facts -> Levels]
         /\ Establish(h, f)[f] = "good"
         /\ \A g \in Facts \ {f} : Establish(h, f)[g] # h[g] =>
              \/ /\ f \in {"dispatcher", "runsc"} /\ h[f] # "good"
                 /\ \/ g \in {"trustFile", "trustLoaded"} /\ Establish(h, f)[g] = "stale"
                    \/ g = Seal(f)
              \/ f = "rule" /\ g = "swept"
              \/ f = "trustFile" /\ g = "trustLoaded" /\ Establish(h, f)[g] = "stale"
<1> USE FactNames DEF Levels
<1>1. CASE f = "dispatcher" /\ h[f] # "good"
  BY <1>1 DEF Establish, Stale, Seal
<1>2. CASE f = "runsc" /\ h[f] # "good"
  BY <1>2 DEF Establish, Stale, Seal
<1>3. CASE f = "rule"
  BY <1>3 DEF Establish
<1>4. CASE f = "trustFile"
  BY <1>4 DEF Establish, Stale
<1>5. CASE ~(f \in {"dispatcher", "runsc"} /\ h[f] # "good") /\ f \notin {"rule", "trustFile"}
  BY <1>5 DEF Establish
<1> QED
  BY <1>1, <1>2, <1>3, <1>4, <1>5

\* What a death in a step leaves is a host; the rule and the group are as
\* they were.
LEMMA TornFacts ==
  ASSUME NEW h \in [Facts -> Levels], NEW f \in Facts
  PROVE  /\ Torn(h, f) \in [Facts -> Levels]
         /\ \A g \in {"rule", "opGroup", "opMember"} : Torn(h, f)[g] = h[g]
  BY FactNames DEF Torn, Levels, Seal

\* An upgrade makes what is good stale.
LEMMA StaleFacts ==
  ASSUME NEW h \in [Facts -> Levels], NEW S
  PROVE  /\ Stale(h, S) \in [Facts -> Levels]
         /\ \A f \in Facts : Stale(h, S)[f] = IF f \in S /\ h[f] = "good" THEN "stale" ELSE h[f]
  BY DEF Stale, Levels

-----------------------------------------------------------------------------
(* What is put on the list of steps *)

\* An operator-rootless plan puts on its list what is missing of the batch.
LEMMA UnsatisfiedFacts ==
  ASSUME NEW h, NEW recorded
  PROVE  /\ Unsatisfied(h, recorded) \in Seq(Facts \cup {"marker"})
         /\ FactsOf(Unsatisfied(h, recorded)) = {f \in BatchSteps : ToDo(f, h, recorded)}
         /\ Ordered(Unsatisfied(h, recorded))
<1> DEFINE S == {f \in FactsOf(BatchFacts) : ToDo(f, h, recorded)}
           u == Unsatisfied(h, recorded)
<1>1. u = Keep(BatchFacts, S)
  BY DEF Unsatisfied
<1> HIDE DEF S, u
<1>2. u \in Seq(Facts \cup {"marker"}) /\ FactsOf(u) = FactsOf(BatchFacts) \cap S
      /\ InOrder(u, BatchFacts)
  BY <1>1, KeepFacts, BatchOrdered
<1>3. Ordered(u)
  BY <1>2, BatchOrdered, OrderedPart
<1>4. FactsOf(BatchFacts) \cap S = {f \in BatchSteps : ToDo(f, h, recorded)}
  BY BatchIs DEF S
<1> QED
  BY <1>2, <1>3, <1>4 DEF u

\* Nothing is missing exactly when the list is empty.
LEMMA UnsatisfiedNone ==
  ASSUME NEW h, \A f \in BatchProbed : h[f] = "good"
  PROVE  Unsatisfied(h, OR) = <<>>
<1>1. \A f \in BatchSteps \ {"marker"} : ItemProbe(f) \subseteq BatchProbed
  BY DEF ItemProbe, BatchProbed, BatchSteps
<1>2. \A f \in BatchSteps : ~ToDo(f, h, OR)
  BY <1>1 DEF ToDo
<1>3. FactsOf(BatchFacts) \cap {f \in FactsOf(BatchFacts) : ToDo(f, h, OR)} = {}
  BY <1>2, BatchIs
<1> QED
  BY <1>3, KeepNone, BatchOrdered DEF Unsatisfied

\* What the list of the batch holds: all that it probes for and is missing,
\* and with a file its effect.
LEMMA UnsatisfiedHas ==
  ASSUME NEW h \in [Facts -> Levels], NEW recorded
  PROVE  LET S == FactsOf(Unsatisfied(h, recorded))
         IN  /\ \A f \in BatchProbed : h[f] = "good" \/ f \in S
             /\ \A r \in Pairs \cup {<<"trustFile", "trustLoaded">>} : r[1] \in S => r[2] \in S
             /\ h["opMember"] = "good" => "opGroup" \notin S
             /\ h["runsc"] = "good" => "runsc" \notin S
             /\ "opMember" \in S => "opGroup" \in S \/ h["opGroup"] = "good"
<1>1. PICK S : S = FactsOf(Unsatisfied(h, recorded))
  OBVIOUS
<1>2. S = {f \in BatchSteps : ToDo(f, h, recorded)}
  BY <1>1, UnsatisfiedFacts
<1>3. \A f \in BatchProbed : h[f] = "good" \/ f \in S
  <2> SUFFICES ASSUME NEW f \in BatchProbed, h[f] # "good" PROVE f \in S
    OBVIOUS
  <2>1. f \in BatchSteps /\ f # "marker" /\ f \in ItemProbe(f)
    BY DEF BatchProbed, BatchSteps, ItemProbe
  <2> QED
    BY <1>2, <2>1 DEF ToDo
<1>4. /\ "sysctlFile" \in S => "sysctlLive" \in S
      /\ "runsc" \in S => "runscSeal" \in S
  BY <1>2 DEF ToDo, BatchSteps, ItemProbe, SkipsIfGood
<1>5. S \cap {"delegateFile", "dispatcher", "trustFile"} = {}
  BY <1>2 DEF BatchSteps
<1>6. /\ h["opMember"] = "good" => "opGroup" \notin S
      /\ h["runsc"] = "good" => "runsc" \notin S
  BY <1>2 DEF ToDo, ItemProbe
<1>7. \A r \in Pairs \cup {<<"trustFile", "trustLoaded">>} : r[1] \in S => r[2] \in S
  BY <1>4, <1>5 DEF Pairs
<1>8. "opMember" \in S => "opGroup" \in S \/ h["opGroup"] = "good"
  BY <1>2 DEF ToDo, BatchSteps, ItemProbe, SkipsIfGood
<1> QED
  BY <1>1, <1>3, <1>6, <1>7, <1>8

\* The steps of an act: all but those it skips, or none.
LEMMA StepsFacts ==
  ASSUME NEW p \in PhaseIds, mode \in Modes
  PROVE  /\ Steps(p) \in Seq(Facts \cup {"marker"})
         /\ FactsOf(Steps(p)) \subseteq FactsOf(Act(p, mode))
         /\ Ordered(Steps(p))
         /\ \A r \in Pairs \cup {<<"trustFile", "trustLoaded">>} :
              r[1] \in FactsOf(Steps(p)) => r[2] \in FactsOf(Steps(p))
         /\ (p = "l6a" => host["runsc"] # "stale" \/ update) =>
              \A f \in FactsOf(Act(p, mode)) : f \in FactsOf(Steps(p)) \/ host[f] = "good"
<1> DEFINE S == {f \in Facts : ~(f \in SkipsIfGood /\ host[f] = "good")}
<1>1. PICK t : t = Steps(p)
  OBVIOUS
<1>2. CASE p = "l6a" /\ host["runsc"] = "stale" /\ ~update
  <2>1. t = <<>>
    BY <1>1, <1>2 DEF Steps
  <2>2. FactsOf(t) = {}
    BY <2>1, ElementsOf
  <2>3. Ordered(t) /\ t \in Seq(Facts \cup {"marker"})
    BY <2>1 DEF Ordered
  <2> QED
    BY <1>1, <1>2, <2>2, <2>3
<1>3. CASE ~(p = "l6a" /\ host["runsc"] = "stale" /\ ~update)
  <2>1. t = Keep(Act(p, mode), S)
    BY <1>1, <1>3 DEF Steps
  <2> HIDE DEF S
  <2>2. t \in Seq(Facts) /\ FactsOf(t) = FactsOf(Act(p, mode)) \cap S /\ InOrder(t, Act(p, mode))
    BY <2>1, KeepFacts, ActsOrdered
  <2>3. Ordered(t)
    BY <2>2, ActsOrdered, OrderedPart
  <2>4. t \in Seq(Facts \cup {"marker"})
    BY <2>2
  <2>5. FactsOf(Act(p, mode)) \subseteq Facts
    BY ActsOrdered DEF FactsOf
  <2>6. \A r \in Pairs \cup {<<"trustFile", "trustLoaded">>} :
          r[1] \in FactsOf(Act(p, mode)) => r[2] \in FactsOf(Act(p, mode))
    <3>1. FactsOf(Act(p, mode)) \in {SUActs[p], ORActs[p]}
      BY ActsAre DEF Modes
    <3> QED
      BY <3>1 DEF Pairs, PhaseIds, SUActs, ORActs
  <2>7. \A r \in Pairs \cup {<<"trustFile", "trustLoaded">>} : r[2] \in S
    BY FactNames DEF Pairs, S, SkipsIfGood
  <2>8. \A f \in FactsOf(Act(p, mode)) : f \in FactsOf(t) \/ host[f] = "good"
    BY <2>2, <2>5 DEF S
  <2> QED
    BY <1>1, <2>2, <2>3, <2>4, <2>6, <2>7, <2>8
<1> QED
  BY <1>2, <1>3

\* The list without its first step.
LEMMA TailOfTodo ==
  ASSUME NEW T, NEW t \in Seq(T), t # <<>>, Ordered(t)
  PROVE  /\ Tail(t) \in Seq(T) /\ Ordered(Tail(t)) /\ Head(t) \in FactsOf(t)
         /\ Head(t) \in T
         /\ FactsOf(Tail(t)) = FactsOf(t) \ {Head(t)}
         /\ Head(t) = "marker" => FactsOf(Tail(t)) = {}
         /\ Head(t) \in {"opMember", "sysctlFile", "runsc"} => "opGroup" \notin FactsOf(Tail(t))
         /\ \A r \in Pairs \cup {<<"trustFile", "trustLoaded">>} :
              Head(t) = r[2] => r[1] \notin FactsOf(t)
<1>1. PICK u : u = Tail(t)
  OBVIOUS
<1>2. PICK n \in Nat : n = Len(t)
  OBVIOUS
<1>3. PICK x : x = Head(t)
  OBVIOUS
<1>4. n # 0 /\ DOMAIN t = 1..n /\ x = t[1] /\ x \in T
  BY <1>2, <1>3
<1>5. u \in Seq(T) /\ Len(u) = n - 1 /\ DOMAIN u = 1..(n - 1) /\ \A i \in 1..(n - 1) : u[i] = t[i + 1]
  BY <1>1, <1>2
<1>6. \A i \in 1..(n - 1) : i + 1 \in 1..n /\ 1 < i + 1
  BY <1>4
<1>7. \A j \in 1..n : 1 < j =>
        /\ x # t[j] /\ x # "marker"
        /\ t[j] = "opGroup" => x \notin {"opMember", "sysctlFile", "runsc"}
        /\ \A r \in Pairs \cup {<<"trustFile", "trustLoaded">>} : ~(x = r[2] /\ t[j] = r[1])
  BY <1>2, <1>4 DEF Ordered
<1>8. FactsOf(u) = {t[j] : j \in 2..n}
  <2>1. \A i \in 1..(n - 1) : \E j \in 2..n : u[i] = t[j]
    BY <1>5, <1>6
  <2>2. \A j \in 2..n : j - 1 \in 1..(n - 1) /\ u[j - 1] = t[j]
    BY <1>4, <1>5
  <2> QED
    <3>1. FactsOf(u) \subseteq {t[j] : j \in 2..n}
      BY <1>5, <2>1 DEF FactsOf
    <3>2. {t[j] : j \in 2..n} \subseteq FactsOf(u)
      <4> SUFFICES ASSUME NEW j \in 2..n PROVE t[j] \in FactsOf(u)
        OBVIOUS
      <4>1. j - 1 \in DOMAIN u /\ u[j - 1] = t[j]
        BY <1>5, <2>2
      <4> QED
        BY <4>1 DEF FactsOf
    <3> QED
      BY <3>1, <3>2
<1>9. FactsOf(t) = {t[j] : j \in 2..n} \cup {x}
  BY <1>4 DEF FactsOf
<1>10. x \notin {t[j] : j \in 2..n}
  BY <1>7
<1>11. Ordered(u)
  <2> SUFFICES ASSUME NEW i \in 1..(n - 1), NEW j \in 1..(n - 1), i < j
               PROVE /\ u[i] # u[j] /\ u[i] # "marker"
                     /\ u[j] = "opGroup" => u[i] \notin {"opMember", "sysctlFile", "runsc"}
                     /\ \A r \in Pairs \cup {<<"trustFile", "trustLoaded">>} :
                          ~(u[i] = r[2] /\ u[j] = r[1])
    BY <1>5 DEF Ordered
  <2>1. i + 1 \in 1..n /\ j + 1 \in 1..n /\ i + 1 < j + 1 /\ u[i] = t[i + 1] /\ u[j] = t[j + 1]
    BY <1>5, <1>6
  <2> QED
    BY <1>2, <2>1, Zenon DEF Ordered
<1>12. x = "marker" => FactsOf(u) = {}
  BY <1>7, <1>8
<1>13. x \in {"opMember", "sysctlFile", "runsc"} => "opGroup" \notin FactsOf(u)
  BY <1>7, <1>8
<1>14. ASSUME NEW r \in Pairs \cup {<<"trustFile", "trustLoaded">>}, x = r[2]
       PROVE r[1] \notin FactsOf(t)
  <2>1. r[1] # r[2]
    BY DEF Pairs
  <2>2. \A j \in 2..n : t[j] # r[1]
    BY <1>7, <1>14
  <2> QED
    BY <1>9, <1>14, <2>1, <2>2
<1>15. Head(t) \in FactsOf(t) /\ FactsOf(u) = FactsOf(t) \ {Head(t)}
  BY <1>3, <1>8, <1>9, <1>10
<1> QED
  BY <1>1, <1>3, <1>4, <1>5, <1>11, <1>12, <1>13, <1>14, <1>15

-----------------------------------------------------------------------------
(* The list of phases *)

\* The list without its first phase.
LEMMA TailOfRest ==
  ASSUME NEW T, NEW t \in Seq(T), t # <<>>, \A i, j \in 1..Len(t) : i # j => t[i] # t[j]
  PROVE  /\ Tail(t) \in Seq(T) /\ Head(t) \in T /\ Head(t) = t[1]
         /\ Len(t) \in Nat /\ 1 \in 1..Len(t) /\ Len(Tail(t)) = Len(t) - 1
         /\ \A i \in 1..Len(Tail(t)) : i + 1 \in 1..Len(t) /\ Tail(t)[i] = t[i + 1]
         /\ Head(t) \in FactsOf(t)
         /\ FactsOf(Tail(t)) = FactsOf(t) \ {Head(t)}
<1>1. PICK u : u = Tail(t)
  OBVIOUS
<1>2. PICK n \in Nat : n = Len(t)
  OBVIOUS
<1>3. PICK x : x = Head(t)
  OBVIOUS
<1>4. n # 0 /\ DOMAIN t = 1..n /\ x = t[1] /\ x \in T /\ 1 \in 1..n
  BY <1>2, <1>3
<1>5. u \in Seq(T) /\ Len(u) = n - 1 /\ DOMAIN u = 1..(n - 1) /\ \A i \in 1..(n - 1) : u[i] = t[i + 1]
  BY <1>1, <1>2
<1>6. \A i \in 1..(n - 1) : i + 1 \in 1..n /\ i + 1 # 1
  BY <1>4
<1>7. x \in FactsOf(t)
  BY <1>4 DEF FactsOf
<1>8. FactsOf(u) \subseteq FactsOf(t) \ {x}
  <2> SUFFICES ASSUME NEW i \in 1..(n - 1) PROVE u[i] \in FactsOf(t) /\ u[i] # x
    BY <1>5 DEF FactsOf
  <2>1. t[i + 1] # t[1]
    BY <1>2, <1>4, <1>6
  <2> QED
    BY <1>4, <1>5, <1>6, <2>1 DEF FactsOf
<1>9. FactsOf(t) \ {x} \subseteq FactsOf(u)
  <2> SUFFICES ASSUME NEW j \in 1..n, t[j] # x PROVE t[j] \in FactsOf(u)
    BY <1>4 DEF FactsOf
  <2>1. j # 1 /\ j - 1 \in 1..(n - 1) /\ u[j - 1] = t[j]
    BY <1>4, <1>5
  <2> QED
    BY <1>5, <2>1 DEF FactsOf
<1> QED
  BY <1>1, <1>2, <1>3, <1>4, <1>5, <1>6, <1>7, <1>8, <1>9

\* Every phase depends on some of those that are not extras.
LEMMA DependOnBase == \A p \in Phases : DependsOn[p] \subseteq Base /\ p \notin DependsOn[p]
  BY Dependencies, PhasesAre DEF PhaseIds, Base, Extras

\* The elements of a sequence.
LEMMA Elements ==
  ASSUME NEW T, NEW t \in Seq(T)
  PROVE  FactsOf(t) = {t[i] : i \in 1..Len(t)} /\ FactsOf(t) \subseteq T
  BY DEF FactsOf

\* A phase is reported.
Reports(result) ==
  /\ rest # <<>>
  /\ pc \in {"apply", "act", "rollback"}
  /\ pc' = "apply"
  /\ outcome' = [outcome EXCEPT ![Head(rest)] = result]
  /\ rest' = Tail(rest)
  /\ \/ /\ failed' = failed
        /\ ~AppliesIn(Head(rest), mode) \/ DependsOn[Head(rest)] \cap failed = {}
     \/ failed' = failed \cup {Head(rest)}
  /\ UNCHANGED <<mode, update, exit>>

\* The phase reported is done and not left.
LEMMA ReportMoves ==
  ASSUME TypeOK, Lists, NEW result \in Results \ {None}, Reports(result)
  PROVE  /\ Head(rest) \in Phases /\ Head(rest) \notin Done /\ Head(rest) \in FactsOf(rest)
         /\ Done' = Done \cup {Head(rest)}
         /\ rest' \in Seq(Phases)
         /\ FactsOf(rest') = FactsOf(rest) \ {Head(rest)}
         /\ outcome' \in [Phases -> Results]
         /\ DependsOn[Head(rest)] \subseteq Done \/ update
<1>1. /\ Head(rest) \in Phases /\ Head(rest) = rest[1] /\ 1 \in 1..Len(rest)
      /\ Tail(rest) \in Seq(Phases) /\ Head(rest) \in FactsOf(rest)
      /\ FactsOf(Tail(rest)) = FactsOf(rest) \ {Head(rest)}
  BY TailOfRest DEF Lists, Reports
<1>2. Head(rest) \notin Done
  BY <1>1 DEF Lists
<1>3. outcome' \in [Phases -> Results]
  BY <1>1 DEF TypeOK, Reports
<1>4. Done' = Done \cup {Head(rest)}
  BY <1>1 DEF TypeOK, Reports, Done
<1>5. DependsOn[Head(rest)] \subseteq Done \/ update
  <2> SUFFICES ASSUME ~update, NEW d \in DependsOn[Head(rest)] PROVE d \in Done
    BY DEF TypeOK
  <2>1. d \in Done \/ \E j \in 1..(1 - 1) : rest[j] = d
    BY <1>1 DEF Lists, Reports
  <2> QED
    BY <2>1
<1> QED
  BY <1>1, <1>2, <1>3, <1>4, <1>5 DEF Reports

\* The list stays in order.
LEMMA ReportLists ==
  ASSUME TypeOK, Lists, NEW result \in Results \ {None}, Reports(result)
  PROVE  Lists'
<1>1. PICK h : h = Head(rest)
  OBVIOUS
<1>2. /\ h \in Phases /\ h \notin Done /\ h \in FactsOf(rest)
      /\ Done' = Done \cup {h}
      /\ rest' \in Seq(Phases) /\ FactsOf(rest') = FactsOf(rest) \ {h}
      /\ DependsOn[h] \subseteq Done \/ update
  BY <1>1, ReportMoves
<1>3. /\ Len(rest) \in Nat /\ Len(rest') = Len(rest) - 1 /\ h = rest[1]
      /\ \A i \in 1..Len(rest') : i + 1 \in 1..Len(rest) /\ rest'[i] = rest[i + 1]
  BY <1>1, TailOfRest DEF Lists, Reports
<1>4. \A i, j \in 1..Len(rest') : i # j => rest'[i] # rest'[j]
  BY <1>3 DEF Lists
<1>5. \A i \in 1..Len(rest') : rest'[i] \notin Done'
  <2> SUFFICES ASSUME NEW i \in 1..Len(rest') PROVE rest'[i] \notin Done'
    OBVIOUS
  <2>1. i + 1 \in 1..Len(rest) /\ 1 \in 1..Len(rest) /\ i + 1 # 1 /\ rest'[i] = rest[i + 1]
    BY <1>3
  <2>2. rest[i + 1] \notin Done /\ rest[i + 1] # rest[1]
    BY <2>1 DEF Lists
  <2> QED
    BY <1>2, <1>3, <2>1, <2>2
<1>6. failed' \subseteq Done'
  BY <1>1, <1>2 DEF Lists, Reports
<1>7. (update => mode = SU /\ FactsOf(rest) \cup Done \subseteq {"l6a"})
      /\ (~update => Base \subseteq FactsOf(rest) \cup Done)
  BY DEF Lists, Reports
<1>8. ASSUME ~update
      PROVE  /\ \A i \in 1..Len(rest') : \A d \in DependsOn[rest'[i]] :
                  d \in Done' \/ \E j \in 1..(i - 1) : rest'[j] = d
             /\ \A p \in Done' : DependsOn[p] \subseteq Done'
  <2>1. ASSUME NEW i \in 1..Len(rest'), NEW d \in DependsOn[rest'[i]], d \notin Done'
        PROVE \E j \in 1..(i - 1) : rest'[j] = d
    <3>1. i + 1 \in 1..Len(rest) /\ d \in DependsOn[rest[i + 1]] /\ d \notin Done /\ d # h
      BY <1>2, <1>3, <2>1
    <3>2. PICK j \in 1..((i + 1) - 1) : rest[j] = d
      BY <1>8, <3>1 DEF Lists, Reports
    <3>3. j # 1
      BY <1>3, <3>1, <3>2
    <3>4. j - 1 \in 1..(i - 1) /\ j - 1 \in 1..Len(rest') /\ (j - 1) + 1 = j
      BY <1>3, <3>2, <3>3
    <3>5. rest'[j - 1] = d
      BY <1>3, <3>2, <3>4
    <3> QED
      BY <3>4, <3>5
  <2>2. \A p \in Done : DependsOn[p] \subseteq Done
    BY <1>8 DEF Lists, Reports
  <2> QED
    BY <1>2, <1>8, <2>1, <2>2
<1>9. ASSUME NEW p \in Done' \ failed', AppliesIn(p, mode) PROVE DependsOn[p] \cap failed' = {}
  <2>1. CASE p = h
    <3>1. failed' = failed /\ DependsOn[h] \cap failed = {}
      BY <1>1, <1>9, <2>1 DEF Reports
    <3> QED
      BY <2>1, <3>1
  <2>2. CASE p # h
    <3>1. p \in Done \ failed /\ DependsOn[p] \cap failed = {}
      BY <1>1, <1>2, <1>9, <2>2 DEF Lists, Reports
    <3>2. h \notin DependsOn[p]
      <4>1. CASE update
        BY <1>2, <1>7, <2>2, <3>1, <4>1
      <4>2. CASE ~update
        BY <1>2, <3>1, <4>2 DEF Lists, Reports
      <4> QED
        BY <4>1, <4>2 DEF TypeOK
    <3> QED
      BY <1>1, <3>1, <3>2 DEF Reports
  <2> QED
    BY <2>1, <2>2
<1>10. pc' = "apply" /\ mode' = mode /\ update' = update /\ exit' = "none"
  BY DEF Lists, Reports
<1>11. (update => FactsOf(rest') \cup Done' \subseteq {"l6a"})
       /\ (~update => Base \subseteq FactsOf(rest') \cup Done')
  BY <1>2, <1>7
<1> QED
  BY <1>2, <1>4, <1>5, <1>6, <1>7, <1>8, <1>9, <1>10, <1>11 DEF Lists

-----------------------------------------------------------------------------
(* The beginning and the end of a setup *)

\* What speaks of the running setup, and holds when there is none.
RunInv == /\ Lists /\ Todos
          /\ PhasesSound /\ BatchSound /\ GateClear /\ FailedSweepRevokes /\ StillAble

\* Nothing is running.
Idle == pc = "idle" /\ rest = <<>> /\ todo = <<>> /\ failed = {} /\ outcome = NoOutcome

\* With no outcome nothing is done.
LEMMA NothingDone == (outcome = NoOutcome => Done = {} /\ outcome["l3a"] = None)
                     /\ (outcome' = NoOutcome => Done' = {} /\ outcome'["l3a"] = None)
  BY PhasesAre DEF Done, NoOutcome, PhaseIds

\* All that is said of a running setup holds without one.
LEMMA IdleRuns == Idle => RunInv
<1> SUFFICES ASSUME Idle PROVE RunInv
  OBVIOUS
<1> USE NothingDone, ElementsOf DEF Idle
<1>1. Lists
  BY DEF Lists
<1>2. Todos
  BY DEF Todos
<1>3. PhasesSound /\ BatchSound /\ GateClear /\ StillAble
  BY DEF PhasesSound, BatchSound, GateClear, StillAble
<1>4. FailedSweepRevokes
  BY DEF FailedSweepRevokes, None
<1> QED
  BY <1>1, <1>2, <1>3, <1>4 DEF RunInv

\* The same after a step.
LEMMA IdleRunsNext == Idle' => RunInv'
  BY IdleRuns, PTL

\* A setup ends, or none begins.
LEMMA EndingSteps ==
  ASSUME RunInv,
         \/ \E code : Ends(code)
         \/ RefuseModeSwitch
         \/ Upgrade
  PROVE  RunInv'
<1>1. Idle'
  BY DEF RunInv, Lists, Todos, Ends, RefuseModeSwitch, Upgrade, runVars, Idle
<1> QED
  BY <1>1, IdleRunsNext

\* A sequence over a set is one over any larger set.
LEMMA SeqWider ==
  ASSUME NEW S, NEW T, S \subseteq T, NEW t \in Seq(S)
  PROVE  t \in Seq(T) /\ \A i \in 1..Len(t) : t[i] \in T
  OBVIOUS

FullList(t) ==
  /\ t \in Seq(Phases) /\ Base \subseteq FactsOf(t)
  /\ \A i, j \in 1..Len(t) : i # j => t[i] # t[j]
  /\ \A i \in 1..Len(t) : \A d \in DependsOn[t[i]] : \E j \in 1..(i - 1) : t[j] = d

\* The list a setup begins with.
LEMMA FirstList ==
  ASSUME NEW extras \in SUBSET Extras, NEW h, NEW t, t = PhaseList[extras \cup Sticky(h)]
  PROVE  FullList(t)
<1>1. PICK S : S = (Phases \ Extras) \cup (extras \cup Sticky(h))
  OBVIOUS
<1>2. S \in Selections /\ extras \cup Sticky(h) \in SUBSET Extras
  BY <1>1 DEF Selections, Sticky
<1>4. t = Order(S)
  BY <1>1, <1>2 DEF PhaseList
<1>5. t \in Seq(S) /\ FactsOf(t) = S /\ Topological(t, S)
  BY <1>2, <1>4, OrderIsTopological
<1>6. S \subseteq Phases /\ Base \subseteq S
  BY <1>1, <1>2, PhasesAre DEF Base, Extras, PhaseIds
<1>7. t \in Seq(Phases) /\ \A i \in 1..Len(t) : t[i] \in Phases
  BY <1>5, <1>6, SeqWider
<1>8. ASSUME NEW i \in 1..Len(t), NEW d \in DependsOn[t[i]] PROVE \E j \in 1..(i - 1) : t[j] = d
  <2>1. d \in S
    BY <1>6, <1>7, <1>8, DependOnBase
  <2> QED
    BY <1>5, <1>8, <2>1 DEF Topological
<1>9. \A i, j \in 1..Len(t) : i # j => t[i] # t[j]
  BY <1>5 DEF Topological
<1>10. Base \subseteq FactsOf(t)
  BY <1>5, <1>6
<1> QED
  BY <1>7, <1>8, <1>9, <1>10, Zenon DEF FullList

\* A setup begins.
LEMMA BeginStep ==
  ASSUME TypeOK, RunInv, NEW m \in Modes, NEW extras \in SUBSET Extras, NEW upd \in BOOLEAN,
         Begin(m, extras, upd)
  PROVE  RunInv'
<1>1. /\ todo' = <<>> /\ failed' = {} /\ outcome' = NoOutcome /\ Done' = {}
      /\ outcome'["l3a"] = None /\ pc' = "plan" /\ exit' = "none" /\ host' = host
      /\ mode' = m /\ update' = upd
  BY NothingDone DEF Begin, RunInv, Lists, Todos
<1>2. CASE upd
  <2>1. rest' = <<"l6a">> /\ m = SU /\ FactsOf(rest') = {"l6a"}
    BY <1>2, ElementsOf DEF Begin
  <2>2. rest' \in Seq(Phases)
    BY <2>1, PhasesAre DEF PhaseIds
  <2>3. Lists'
    BY <1>1, <1>2, <2>1, <2>2 DEF Lists
  <2>4. able' => Servable(mode', update', FactsOf(rest'), host)
    BY DEF Begin
  <2>5. StillAble'
    BY <1>1, <1>2, <2>1, <2>4 DEF StillAble, SU, OR
  <2> QED
    BY <1>1, <2>3, <2>5, ElementsOf
       DEF RunInv, Todos, PhasesSound, BatchSound, GateClear, FailedSweepRevokes, None
<1>3. CASE ~upd
  <2>1. FullList(rest')
    <3>1. rest' = PhaseList[extras \cup Sticky(host)]
      BY <1>3 DEF Begin
    <3> QED
      BY <3>1, FirstList
  <2>2. Lists'
    BY <1>1, <1>3, <2>1 DEF Lists, FullList
  <2>3. able' => Servable(mode', update', FactsOf(rest'), host)
    BY DEF Begin
  <2>4. StillAble'
    <3> SUFFICES ASSUME able' PROVE
          /\ Servable(mode, update, FactsOf(rest), host)'
          /\ (mode = SU)' => /\ NoRefusal'
                             /\ (host["subid"] # "stale")' /\ (host["group"] # "stale")'
                             /\ (host["runsc"] # "stale")'
          /\ (mode = OR)' => /\ NoRefusal'
                             /\ (host["opSubgid"] = "good")'
                             /\ (\A e \in FactsOf(rest) \cap Extras :
                                   Probe(e, mode, host) = "ALREADY_CORRECT")'
      BY <1>1, <1>3 DEF StillAble
    <3> QED
      BY <1>1, <1>3, <2>3 DEF Servable, NoRefusal, SU, OR
  <2> QED
    BY <1>1, <2>2, <2>4, ElementsOf
       DEF RunInv, Todos, PhasesSound, BatchSound, GateClear, FailedSweepRevokes, None
<1> QED
  BY <1>2, <1>3

\* The plan is made.
LEMMA PlanStep ==
  ASSUME TypeOK, RunInv, PlanDone
  PROVE  RunInv'
<1>0. /\ Lists /\ Todos /\ StillAble /\ pc = "plan" /\ host' = host /\ rest' = rest /\ mode' = mode
      /\ update' = update /\ outcome' = outcome /\ failed' = failed /\ exit' = exit /\ able' = able
      /\ outcome = NoOutcome /\ Done = {} /\ Done' = {} /\ outcome'["l3a"] = None /\ mode \in Modes
      /\ host \in [Facts -> Levels] /\ update \in BOOLEAN
  BY NothingDone DEF PlanDone, RunInv, Lists, TypeOK
<1>1. (update /\ pc' = "apply") \/ (~update /\ pc' = "gate")
  BY DEF PlanDone, TypeOK
<1>2. Lists'
  <2>1. Lists /\ pc = "plan" /\ rest' = rest /\ mode' = mode /\ update' = update
        /\ outcome' = outcome /\ failed' = failed /\ exit' = exit /\ Done' = Done
    BY <1>0
  <2> QED
    BY <1>1, <2>1 DEF Lists
<1>3. CASE mode = SU
  <2>1. todo' = <<>> /\ FactsOf(todo') = {}
    BY <1>3, ElementsOf DEF PlanDone, SU, OR
  <2>2. Todos'
    BY <1>0, <1>1, <2>1 DEF Todos, Ordered
  <2>3. BatchSound'
    BY <1>0, <1>3 DEF BatchSound, SU, OR
  <2>4. StillAble'
    <3> SUFFICES ASSUME able PROVE
             /\ failed = {}
             /\ ~update => /\ NoRefusal'
                           /\ host["subid"] # "stale" /\ host["group"] # "stale"
                           /\ host["runsc"] # "stale"
      BY <1>0, <1>1, <1>3 DEF StillAble, SU, OR
    <3> QED
      BY <1>0, <1>3 DEF StillAble, NoRefusal
  <2> QED
    BY <2>2, <2>3, <2>4, <1>0, <1>1, <1>2
       DEF RunInv, PhasesSound, GateClear, FailedSweepRevokes, None, PlanDone, Planned, Applicable
<1>4. CASE mode = OR
  <2>0. ~update /\ pc' = "gate"
    BY <1>0, <1>1, <1>4 DEF Lists, SU, OR
  <2>1. todo' = Unsatisfied(host, marker)
    BY <1>4 DEF PlanDone
  <2>2. todo' \in Seq(Facts \cup {"marker"}) /\ Ordered(todo') /\ FactsOf(todo') \subseteq BatchSteps
    BY <2>1, UnsatisfiedFacts
  <2>3. /\ \A f \in BatchProbed : host[f] = "good" \/ f \in FactsOf(todo')
        /\ \A r \in Pairs \cup {<<"trustFile", "trustLoaded">>} :
             r[1] \in FactsOf(todo') => r[2] \in FactsOf(todo')
        /\ host["opMember"] = "good" => "opGroup" \notin FactsOf(todo')
        /\ host["runsc"] = "good" => "runsc" \notin FactsOf(todo')
    BY <1>0, <2>1, UnsatisfiedHas
  <2>4. Todos'
    BY <1>0, <1>4, <2>0, <2>2, <2>3, BatchIs DEF Todos
  <2>5. BatchSound'
    BY <1>0, <2>0, <2>3 DEF BatchSound
  <2>6. StillAble'
    <3> SUFFICES ASSUME able PROVE
             /\ failed = {}
             /\ NoRefusal'
             /\ host["opSubgid"] = "good"
             /\ \A e \in FactsOf(rest) \cap Extras : Probe(e, mode, host) = "ALREADY_CORRECT"
             /\ "opGroup" \in FactsOf(todo') => host["opGroup"] # "stale"
             /\ "fapolicyd" \in FactsOf(rest) => "runsc" \notin FactsOf(todo')
      BY <1>0, <1>4, <2>0 DEF StillAble, SU, OR
    <3>1. Servable(mode, update, FactsOf(rest), host)
      BY <1>0 DEF StillAble
    <3>2. /\ host["opGroup"] = "stale" => host["opMember"] = "good"
          /\ "fapolicyd" \in FactsOf(rest) => host["runsc"] = "good"
      BY <1>4, <2>0, <3>1 DEF Servable, SU, OR
    <3>3. failed = {} /\ NoRefusal' /\ host["opSubgid"] = "good"
          /\ \A e \in FactsOf(rest) \cap Extras : Probe(e, mode, host) = "ALREADY_CORRECT"
      BY <1>0, <1>4 DEF StillAble, NoRefusal
    <3> QED
      BY <2>3, <3>2, <3>3
  <2> QED
    BY <2>4, <2>5, <2>6, <1>0, <1>1, <1>2
       DEF RunInv, PhasesSound, GateClear, FailedSweepRevokes, None, PlanDone, Planned, Applicable
<1> QED
  BY <1>0, <1>3, <1>4 DEF Modes

\* The gate, the end of the batch and the end of the apply pass change
\* nothing but where the setup is.
LEMMA MovingSteps ==
  ASSUME TypeOK, RunInv,
         \/ Proceed \/ BatchDone
         \/ ApplyDone /\ pc' = "record"
  PROVE  RunInv'
<1>0. /\ Lists /\ Todos /\ StillAble /\ BatchSound /\ PhasesSound /\ FailedSweepRevokes
      /\ host' = host /\ rest' = rest /\ mode' = mode /\ todo' = todo
      /\ update' = update /\ outcome' = outcome /\ failed' = failed /\ exit' = exit /\ able' = able
      /\ Done' = Done
  BY DEF RunInv, Proceed, BatchDone, ApplyDone, Ends, runVars, Done
<1>1. FactsOf(<<>>) = {}
  BY ElementsOf
<1>2. \/ pc = "gate" /\ pc' = "batch" /\ todo # <<>>
      \/ pc \in {"gate", "batch"} /\ pc' = "apply" /\ todo = <<>>
      \/ /\ pc = "apply" /\ pc' = "record" /\ todo = <<>> /\ rest = <<>> /\ failed = {}
         /\ mode = SU /\ ~update
  BY <1>0 DEF Proceed, BatchDone, ApplyDone, Ends, Todos
<1>3. Lists'
  BY <1>0, <1>2 DEF Lists, Todos
<1>4. Todos'
  BY <1>0, <1>2 DEF Todos
<1>5. PhasesSound' /\ FailedSweepRevokes'
  BY <1>0, <1>2 DEF PhasesSound, FailedSweepRevokes
<1>6. BatchSound'
  BY <1>0, <1>1, <1>2 DEF BatchSound, SU, OR
<1>7. GateClear'
  BY <1>2 DEF GateClear
<1>8. StillAble'
  <2>1. NoRefusal' = NoRefusal
    BY <1>0 DEF NoRefusal
  <2> QED
    BY <1>0, <1>2, <2>1 DEF StillAble
<1> QED
  BY <1>3, <1>4, <1>5, <1>6, <1>7, <1>8 DEF RunInv

-----------------------------------------------------------------------------
(* Probes *)

\* Which phase a fact is of.
LEMMA PhaseOfFact ==
  ASSUME NEW p \in PhaseIds, NEW m \in Modes, NEW f \in FactsOf(Act(p, m))
  PROVE  /\ f \in Facts /\ f \notin {"opGroup", "opMember", "marker"}
         /\ f = "rule" => p = "l3"
         /\ f = "swept" => p = "l3a"
         /\ f = "session" => p = "l8"
         /\ f \in {"sysctlFile", "sysctlLive"} => p = "l1"
         /\ f \in {"delegateFile", "delegateLoaded"} => p = "l2a"
         /\ f \in {"subid", "group", "member"} => p = "l2"
         /\ f \in {"runsc", "runscSeal"} => p = "l6a"
         /\ f \in {"dispatcher", "dispatcherSeal", "manifest"} => p = "l65"
         /\ f \in {"aideFile", "aideValid"} => p = "aide"
         /\ f \in {"trustFile", "trustLoaded"} => p = "fapolicyd"
<1>1. f \in SUActs[p] \/ f \in ORActs[p]
  BY ActsAre DEF Modes
<1>2. f \in Facts
  BY <1>1, FactsHave
<1> QED
  BY <1>1, <1>2 DEF PhaseIds, SUActs, ORActs

\* Facts that certain phases have.
LEMMA FactOfPhase ==
  ASSUME NEW m \in Modes
  PROVE  /\ "rule" \in FactsOf(Act("l3", m))
         /\ "dispatcher" \in FactsOf(Act("l65", m))
         /\ "member" \in FactsOf(Act("l2", m))
         /\ FactsOf(Act("l0", m)) = {}
         /\ FactsOf(Act("aide", m)) = {"aideFile", "aideValid"}
         /\ FactsOf(Act("fapolicyd", m)) = {"trustFile", "trustLoaded"}
  BY ActsAre DEF Modes, SUActs, ORActs, PhaseIds

\* A phase refuses a host: what it needs is not there, or it cannot read it.
Refuses(p, m, h) ==
  CASE p = "l0" -> ~(h["prereq"] = "good" /\ (m = SU => h["machinectl"] = "good"))
    [] p = "l1" -> h["kernel"] # "good"
    [] p = "l2" -> h["user"] = "good" /\ h["subid"] = "stale"
    [] p = "l65" -> h["manifest"] = "torn"
    [] p = "aide" -> h["aideTool"] # "good"
    [] p = "fapolicyd" -> \/ h["fapolicydTool"] # "good"
                          \/ h["dispatcher"] = "absent" \/ h["runsc"] = "absent"
    [] OTHER -> FALSE

\* What the verdict of a probe says.
LEMMA ProbeFacts ==
  ASSUME NEW p \in PhaseIds, NEW m \in Modes, NEW h
  PROVE  /\ Probe(p, m, h) \in {"ALREADY_CORRECT", "MISSING", "CONFLICT", "FAIL"}
         /\ Probe(p, m, h) \in {"CONFLICT", "FAIL"} <=> Refuses(p, m, h)
         /\ Probe(p, m, h) = "ALREADY_CORRECT" => Correct(Act(p, m), h)
         /\ Probe(p, m, h) = "MISSING" /\ p \notin {"l3a", "l8"} => ~Correct(Act(p, m), h)
         /\ p \in {"l3a", "l8"} => Probe(p, m, h) = "MISSING"
         /\ p = "l0" => Probe(p, m, h) = L0Probe(m, h) /\ Probe(p, m, h) # "MISSING"
<1>1. CASE p = "l0"
  BY <1>1, ElementsOf DEF Probe, L0Probe, Refuses, Correct, Act
<1>2. CASE p = "l1"
  BY <1>2 DEF Probe, L1Probe, Refuses, Compare, Act
<1>3. CASE p = "l2"
  BY <1>3 DEF Probe, L2Probe, Refuses, Compare, Act
<1>4. CASE p = "l2a"
  BY <1>4 DEF Probe, L2aProbe, Refuses, Compare, Act
<1>5. CASE p = "l5"
  BY <1>5 DEF Probe, L5Probe, Refuses, Compare, Act
<1>6. CASE p = "l6"
  BY <1>6 DEF Probe, L6Probe, Refuses, Compare, Act
<1>7. CASE p = "l6a"
  BY <1>7 DEF Probe, L6aProbe, Refuses, Compare, Act
<1>8. CASE p = "l65"
  BY <1>8 DEF Probe, L65Probe, Refuses, Compare, Act
<1>9. CASE p = "l7"
  BY <1>9 DEF Probe, L7Probe, Refuses, Compare, Act
<1>10. CASE p = "l3"
  BY <1>10 DEF Probe, L3Probe, Refuses, Compare, Act
<1>11. CASE p = "l3a"
  BY <1>11 DEF Probe, L3aProbe, Refuses
<1>12. CASE p = "l8"
  BY <1>12 DEF Probe, L8Probe, Refuses
<1>13. CASE p = "aide"
  BY <1>13 DEF Probe, AideProbe, Refuses, Compare, Act
<1>14. CASE p = "fapolicyd"
  BY <1>14 DEF Probe, FapolicydProbe, Refuses, Compare, Act
<1> QED
  BY <1>1, <1>2, <1>3, <1>4, <1>5, <1>6, <1>7, <1>8, <1>9, <1>10, <1>11, <1>12, <1>13, <1>14
     DEF PhaseIds

\* A sound phase is in place.
LEMMA SoundInPlace ==
  ASSUME NEW p \in Base, NEW m \in Modes, NEW h, Sound(p, m, h)
  PROVE  Probe(p, m, h) \in {"ALREADY_CORRECT", "MISSING"} /\ Correct(Act(p, m), h)
<1>1. p \in PhaseIds /\ p \notin Extras
  BY PhasesAre DEF Base
<1>2. ~Refuses(p, m, h)
  <2>1. CASE p = "l0"
    BY <1>1, <2>1, ProbeFacts DEF Sound
  <2>2. CASE p = "l2"
    <3>1. "subid" \in FactsOf(Act(p, m)) \ Unprobed
      BY <2>2, ActsAre, <1>1 DEF Modes, SUActs, ORActs, Unprobed
    <3> QED
      BY <2>2, <3>1 DEF Sound, Correct, Refuses
  <2>3. CASE p = "l65"
    <3>1. "manifest" \in FactsOf(Act(p, m)) \ Unprobed
      BY <2>3, ActsAre, <1>1 DEF Modes, SUActs, ORActs, Unprobed
    <3> QED
      BY <2>3, <3>1 DEF Sound, Correct, Refuses
  <2>4. CASE p \notin {"l0", "l2", "l65"}
    BY <1>1, <2>4 DEF Sound, Refuses, Extras
  <2> QED
    BY <2>1, <2>2, <2>3, <2>4
<1> QED
  BY <1>1, <1>2, ProbeFacts DEF Sound

-----------------------------------------------------------------------------
(* A step of the batch or of an act is done *)

\* What step f has changed of the host.
Changed(f) ==
  \A g \in Facts :
    \/ host'[g] = host[g]
    \/ g = f /\ host'[g] = "good"
    \/ /\ g \in {"trustFile", "trustLoaded"} /\ host'[g] = "stale"
       /\ \/ f \in {"dispatcher", "runsc"} /\ host[f] # "good"
          \/ f = "trustFile" /\ g = "trustLoaded"
    \/ f = "runsc" /\ g = "runscSeal"
    \/ f = "dispatcher" /\ g = "dispatcherSeal"
    \/ f = "rule" /\ g = "swept"

\* What a step does, in one place.
LEMMA StepFrame ==
  ASSUME TypeOK, RunInv, StepDone, NEW f, f = Head(todo)
  PROVE  /\ f \in FactsOf(todo) /\ FactsOf(todo') = FactsOf(todo) \ {f}
         /\ todo' \in Seq(Facts \cup {"marker"}) /\ Ordered(todo')
         /\ f \in Facts \cup {"marker"}
         /\ f = "marker" => pc = "batch" /\ FactsOf(todo') = {} /\ host' = host
         /\ f # "marker" => host' = Establish(host, f) /\ host'[f] = "good"
         /\ f \in {"opMember", "sysctlFile", "runsc"} => "opGroup" \notin FactsOf(todo')
         /\ \A r \in Pairs \cup {<<"trustFile", "trustLoaded">>} : f = r[2] => r[1] \notin FactsOf(todo)
         /\ host' \in [Facts -> Levels]
         /\ Changed(f)
         /\ pc = "batch" => f \in BatchSteps
         /\ pc = "act" => Head(rest) \in PhaseIds /\ f \in FactsOf(Act(Head(rest), mode))
<1>1. todo \in Seq(Facts \cup {"marker"}) /\ todo # <<>> /\ Ordered(todo) /\ todo' = Tail(todo)
      /\ pc \in {"batch", "act"} /\ host \in [Facts -> Levels] /\ mode \in Modes
  BY DEF RunInv, Todos, StepDone, TypeOK
<1>2. /\ f \in FactsOf(todo) /\ FactsOf(todo') = FactsOf(todo) \ {f}
      /\ todo' \in Seq(Facts \cup {"marker"}) /\ Ordered(todo') /\ f \in Facts \cup {"marker"}
      /\ f = "marker" => FactsOf(todo') = {}
      /\ f \in {"opMember", "sysctlFile", "runsc"} => "opGroup" \notin FactsOf(todo')
      /\ \A r \in Pairs \cup {<<"trustFile", "trustLoaded">>} : f = r[2] => r[1] \notin FactsOf(todo)
  BY <1>1, TailOfTodo
<1>3. pc = "batch" => f \in BatchSteps
  BY <1>2, BatchIs DEF RunInv, Todos
<1>4. pc = "act" => Head(rest) \in PhaseIds /\ f \in FactsOf(Act(Head(rest), mode))
  <2>1. pc = "act" => rest \in Seq(Phases) /\ rest # <<>>
    BY DEF RunInv, Lists
  <2>2. pc = "act" => Head(rest) \in PhaseIds
    BY <2>1, PhasesAre
  <2> QED
    BY <1>2, <2>2 DEF RunInv, Todos
<1>5. f = "marker" => pc = "batch" /\ host' = host
  <2>1. pc = "act" => f # "marker"
    BY <1>1, <1>4, PhaseOfFact
  <2> QED
    BY <1>1, <2>1 DEF StepDone
<1>6. f # "marker" => host' = Establish(host, f) /\ f \in Facts
  BY <1>2 DEF StepDone
<1>7. f # "marker" => host' \in [Facts -> Levels] /\ host'[f] = "good"
  BY <1>1, <1>6, EstablishFacts
<1>8. Changed(f)
  <2>1. CASE f = "marker"
    BY <1>5, <2>1 DEF Changed
  <2>2. CASE f # "marker"
    <3> SUFFICES ASSUME NEW g \in Facts, host'[g] # host[g], g # f
                 PROVE  \/ /\ g \in {"trustFile", "trustLoaded"} /\ host'[g] = "stale"
                           /\ \/ f \in {"dispatcher", "runsc"} /\ host[f] # "good"
                              \/ f = "trustFile" /\ g = "trustLoaded"
                        \/ f = "runsc" /\ g = "runscSeal"
                        \/ f = "dispatcher" /\ g = "dispatcherSeal"
                        \/ f = "rule" /\ g = "swept"
      BY <1>7, <2>2 DEF Changed
    <3>1. \/ /\ f \in {"dispatcher", "runsc"} /\ host[f] # "good"
             /\ \/ g \in {"trustFile", "trustLoaded"} /\ host'[g] = "stale"
                \/ g = Seal(f)
          \/ f = "rule" /\ g = "swept"
          \/ f = "trustFile" /\ g = "trustLoaded" /\ host'[g] = "stale"
      BY <1>1, <1>6, <2>2, EstablishFacts
    <3> QED
      BY <3>1 DEF Seal
  <2> QED
    BY <2>1, <2>2
<1> QED
  BY <1>1, <1>2, <1>3, <1>4, <1>5, <1>6, <1>7, <1>8

\* L3 is not in hand when it has been done.
LEMMA RuleOnce ==
  ASSUME TypeOK, Lists, pc \in {"act", "rollback"}, Head(rest) = "l3"
  PROVE  "l3a" \notin Done
<1>1. rest # <<>> /\ 1 \in 1..Len(rest) /\ Head(rest) = rest[1] /\ Head(rest) \in FactsOf(rest)
  BY TailOfRest DEF Lists
<1>2. "l3" \notin Done /\ "l3" \in FactsOf(rest)
  BY <1>1 DEF Lists
<1>3. ~update
  BY <1>2 DEF Lists
<1>4. "l3a" \in Done => "l3" \in Done
  BY <1>3, Dependencies DEF Lists
<1> QED
  BY <1>2, <1>4

\* The steps left are as they should be.
LEMMA StepTodos ==
  ASSUME TypeOK, RunInv, StepDone
  PROVE  Lists' /\ Todos'
<1>1. PICK f : f = Head(todo)
  OBVIOUS
<1>2. /\ f \in FactsOf(todo) /\ FactsOf(todo') = FactsOf(todo) \ {f}
      /\ todo' \in Seq(Facts \cup {"marker"}) /\ Ordered(todo')
      /\ \A r \in Pairs \cup {<<"trustFile", "trustLoaded">>} : f = r[2] => r[1] \notin FactsOf(todo)
  BY <1>1, StepFrame
<1>3. /\ pc' = pc /\ pc \in {"batch", "act"} /\ rest' = rest /\ mode' = mode /\ update' = update
      /\ outcome' = outcome /\ failed' = failed /\ exit' = exit /\ Done' = Done /\ todo # <<>>
      /\ Lists /\ Todos
  BY DEF StepDone, Done, RunInv
<1>4. Lists'
  BY <1>3 DEF Lists
<1>5. ASSUME NEW r \in Pairs \cup {<<"trustFile", "trustLoaded">>}, r[1] \in FactsOf(todo')
      PROVE  r[2] \in FactsOf(todo')
  <2>1. r[1] \in FactsOf(todo) /\ r[2] \in FactsOf(todo)
    BY <1>2, <1>3, <1>5 DEF Todos
  <2> QED
    BY <1>2, <2>1
<1>6. (pc = "batch" => FactsOf(todo') \subseteq FactsOf(BatchFacts) /\ mode = OR)
      /\ (pc = "act" => FactsOf(todo') \subseteq FactsOf(Act(Head(rest), mode)))
  BY <1>2, <1>3 DEF Todos
<1>7. Todos'
  BY <1>2, <1>3, <1>5, <1>6 DEF Todos
<1> QED
  BY <1>4, <1>7

\* What was sound stays sound, and a failed sweep leaves no rule.
LEMMA StepSound ==
  ASSUME TypeOK, RunInv, StepDone
  PROVE  PhasesSound' /\ FailedSweepRevokes' /\ BatchSound' /\ GateClear'
<1> USE FactNames
<1>1. PICK f : f = Head(todo)
  OBVIOUS
<1>2. /\ f \in FactsOf(todo) /\ FactsOf(todo') = FactsOf(todo) \ {f}
      /\ f = "marker" => host' = host
      /\ f # "marker" => host'[f] = "good"
      /\ Changed(f)
      /\ pc = "batch" => f \in BatchSteps
      /\ pc = "act" => Head(rest) \in PhaseIds /\ f \in FactsOf(Act(Head(rest), mode))
  BY <1>1, StepFrame
<1>3. /\ pc' = pc /\ pc \in {"batch", "act"} /\ rest' = rest /\ mode' = mode
      /\ outcome' = outcome /\ failed' = failed /\ Done' = Done
      /\ Lists /\ PhasesSound /\ FailedSweepRevokes /\ BatchSound
      /\ mode \in Modes /\ outcome \in [Phases -> Results]
  BY DEF StepDone, Done, RunInv, TypeOK
<1>4. f = "rule" => pc = "act" /\ "l3a" \notin Done
  <2>1. "rule" \notin BatchSteps
    BY DEF BatchSteps
  <2>2. f = "rule" => pc = "act" /\ Head(rest) = "l3"
    BY <1>2, <1>3, <2>1, PhaseOfFact
  <2> QED
    BY <1>3, <2>2, RuleOnce
<1>5. ASSUME NEW p \in Base \cap Done, Sound(p, mode, host) PROVE Sound(p, mode, host')
  <2>1. p \in PhaseIds /\ p \notin Extras
    BY <1>5, PhasesAre DEF Base
  <2>2. ASSUME NEW g \in FactsOf(Act(p, mode)) \ Unprobed PROVE host'[g] = "good"
    <3>1. host[g] = "good"
      BY <1>5, <2>2 DEF Sound, Correct
    <3>2. g \in Facts /\ g \notin {"trustFile", "trustLoaded"} /\ (g = "swept" => p = "l3a")
      BY <1>3, <2>1, <2>2, PhaseOfFact DEF Extras
    <3>3. g \notin {"runscSeal", "dispatcherSeal"}
      BY <2>2 DEF Unprobed
    <3> QED
      BY <1>2, <1>4, <1>5, <3>1, <3>2, <3>3 DEF Changed
  <2>3. host["prereq"] = host'["prereq"] \/ host'["prereq"] = "good"
    BY <1>2 DEF Changed
  <2>4. host["machinectl"] = host'["machinectl"] \/ host'["machinectl"] = "good"
    BY <1>2 DEF Changed
  <2>5. host["kernel"] = host'["kernel"] \/ host'["kernel"] = "good"
    BY <1>2 DEF Changed
  <2> QED
    BY <1>5, <2>2, <2>3, <2>4, <2>5 DEF Sound, Correct, L0Probe
<1>6. PhasesSound'
  <2>1. host["kernel"] = host'["kernel"] \/ host'["kernel"] = "good"
    BY <1>2 DEF Changed
  <2> QED
    BY <1>3, <1>5, <2>1 DEF PhasesSound
<1>7. FailedSweepRevokes'
  <2>1. outcome["l3a"] = "FAIL" => "l3a" \in Done
    BY <1>3, PhasesAre DEF Done, PhaseIds, None
  <2>2. outcome["l3a"] = "FAIL" => host'["rule"] = host["rule"]
    BY <1>2, <1>4, <2>1 DEF Changed
  <2> QED
    BY <1>3, <2>2 DEF FailedSweepRevokes
<1>8. \A g \in BatchProbed : host[g] = "good" => host'[g] = "good"
  <2>1. \A g \in BatchProbed : g \in Facts /\ g \notin {"trustFile", "trustLoaded", "runscSeal",
                                                        "dispatcherSeal", "swept"}
    BY DEF BatchProbed
  <2> QED
    BY <1>2, <2>1 DEF Changed
<1>9. \A g \in BatchProbed : g # "marker"
  BY DEF BatchProbed
<1>10. BatchSound'
  BY <1>2, <1>3, <1>8, <1>9 DEF BatchSound
<1>11. GateClear'
  BY <1>3 DEF GateClear
<1> QED
  BY <1>6, <1>7, <1>10, <1>11

\* A phase that does not refuse the host does not refuse it after the step.
LEMMA StepNoRefusal ==
  ASSUME TypeOK, NEW f, Changed(f), mode \in Modes, NEW p \in PhaseIds,
         ~Refuses(p, mode, host), p = "l2" => host["subid"] # "stale",
         f # "marker" => host'[f] = "good"
  PROVE  ~Refuses(p, mode, host')
<1>1. \A g \in {"prereq", "machinectl", "kernel", "aideTool", "fapolicydTool", "subid",
                "manifest", "dispatcher", "runsc"} : host'[g] = host[g] \/ host'[g] = "good"
  BY FactNames DEF Changed
<1> QED
  BY <1>1 DEF Refuses, PhaseIds

\* A setup that was able to succeed still is after a step.
LEMMA StepAble ==
  ASSUME TypeOK, RunInv, StepDone
  PROVE  StillAble'
<1> USE FactNames
<1>1. PICK f : f = Head(todo)
  OBVIOUS
<1>2. /\ f \in FactsOf(todo) /\ FactsOf(todo') = FactsOf(todo) \ {f}
      /\ f = "marker" => pc = "batch" /\ host' = host
      /\ f # "marker" => host'[f] = "good"
      /\ Changed(f)
      /\ pc = "batch" => f \in BatchSteps
      /\ pc = "act" => Head(rest) \in PhaseIds /\ f \in FactsOf(Act(Head(rest), mode))
  BY <1>1, StepFrame
<1>3. /\ pc' = pc /\ pc \in {"batch", "act"} /\ rest' = rest /\ mode' = mode /\ update' = update
      /\ failed' = failed /\ able' = able /\ mode \in Modes /\ Lists /\ Todos /\ StillAble
  BY DEF StepDone, RunInv, TypeOK
<1> SUFFICES ASSUME able PROVE StillAble'
  BY <1>3 DEF StillAble
<1>4. failed = {}
  BY <1>3 DEF StillAble
<1>5. FactsOf(rest) \subseteq PhaseIds
  BY <1>3, Elements, PhasesAre DEF Lists
<1>6. \A g \in {"subid", "group", "runsc", "opSubgid", "opGroup", "aideFile", "aideTool",
                "fapolicydTool", "dispatcher"} : host'[g] = host[g] \/ host'[g] = "good"
  BY <1>2 DEF Changed
<1>7. ASSUME ~update \/ mode = OR
      PROVE  NoRefusal'
  <2>1. NoRefusal /\ (mode = SU => host["subid"] # "stale")
    BY <1>3, <1>7 DEF StillAble, Modes, SU, OR
  <2>2. ASSUME NEW p \in FactsOf(rest), AppliesIn(p, mode) PROVE ~Refuses(p, mode, host')
    <3>1. ~Refuses(p, mode, host)
      BY <1>3, <1>5, <2>1, <2>2, ProbeFacts DEF NoRefusal
    <3>2. p = "l2" => mode = SU
      BY <2>2 DEF AppliesIn, Extras
    <3> QED
      BY <1>2, <1>3, <1>5, <2>1, <3>1, <3>2, StepNoRefusal
  <2> QED
    BY <1>3, <1>5, <2>2, ProbeFacts DEF NoRefusal
<1>8. mode = OR => f \notin {"dispatcher", "runsc"} \/ "fapolicyd" \notin FactsOf(rest)
  <2>1. CASE pc = "batch"
    <3>1. f # "dispatcher"
      BY <1>2, <2>1 DEF BatchSteps
    <3>2. mode = OR /\ f = "runsc" => "fapolicyd" \notin FactsOf(rest)
      BY <1>2, <1>3, <2>1 DEF StillAble
    <3> QED
      BY <3>1, <3>2
  <2>2. CASE pc = "act"
    <3>1. AppliesIn(Head(rest), mode)
      BY <1>3, <2>2 DEF Lists
    <3>2. mode = OR => Head(rest) \notin {"l6a", "l65"}
      BY <3>1 DEF AppliesIn, Extras, SU, OR
    <3> QED
      BY <1>2, <1>3, <2>2, <3>2, PhaseOfFact
  <2> QED
    BY <1>3, <2>1, <2>2
<1>9. ASSUME mode = OR, NEW e \in FactsOf(rest) \cap Extras
      PROVE  Probe(e, mode, host') = "ALREADY_CORRECT"
  <2>1. Probe(e, mode, host) = "ALREADY_CORRECT"
    BY <1>3, <1>9 DEF StillAble
  <2>2. e \in PhaseIds /\ AppliesIn(e, mode)
    BY <1>5, <1>9 DEF AppliesIn
  <2>3. ~Refuses(e, mode, host')
    <3>1. ~Refuses(e, mode, host)
      BY <1>3, <2>1, <2>2, ProbeFacts
    <3>2. e # "l2"
      BY DEF Extras
    <3> QED
      BY <1>2, <1>3, <2>2, <3>1, <3>2, StepNoRefusal
  <2>4. Correct(Act(e, mode), host)
    BY <1>3, <2>1, <2>2, ProbeFacts
  <2>5. Correct(Act(e, mode), host')
    <3>1. CASE e = "aide"
      <4>1. FactsOf(Act(e, mode)) \ Unprobed = {"aideFile"}
        BY <1>3, <3>1, FactOfPhase DEF Unprobed
      <4> QED
        BY <1>6, <2>4, <4>1 DEF Correct
    <3>2. CASE e = "fapolicyd"
      <4>1. FactsOf(Act(e, mode)) \ Unprobed = {"trustFile"}
        BY <1>3, <3>2, FactOfPhase DEF Unprobed
      <4>2. host'["trustFile"] = host["trustFile"] \/ host'["trustFile"] = "good"
        BY <1>2, <1>8, <1>9, <3>2 DEF Changed
      <4> QED
        BY <2>4, <4>1, <4>2 DEF Correct
    <3> QED
      BY <3>1, <3>2 DEF Extras
  <2> QED
    BY <1>3, <2>2, <2>3, <2>5, ProbeFacts DEF Extras
<1>10. ASSUME pc = "act", NEW g \in FactsOf(Act(Head(rest), mode))
       PROVE  g \in FactsOf(todo') \/ host'[g] = "good"
  <2>1. g \in FactsOf(todo) \/ host[g] = "good"
    BY <1>3, <1>10 DEF StillAble
  <2>2. g \in Facts
    BY <1>2, <1>3, <1>10, PhaseOfFact
  <2>3. f # "marker" /\ host'[f] = "good"
    BY <1>2, <1>10
  <2>4. CASE g = f
    BY <2>3, <2>4
  <2>5. CASE g # f /\ g \in FactsOf(todo)
    BY <1>2, <2>5
  <2>6. CASE g # f /\ host[g] = "good" /\ host'[g] # host[g]
    <3>1. \/ f = "trustFile" /\ g = "trustLoaded"
          \/ f = "runsc" /\ g = "runscSeal"
          \/ f = "dispatcher" /\ g = "dispatcherSeal"
      <4>1. f = "rule" => g # "swept"
        BY <1>2, <1>3, <1>10, PhaseOfFact
      <4>2. f \in {"dispatcher", "runsc"} => g \notin {"trustFile", "trustLoaded"}
        BY <1>2, <1>3, <1>10, PhaseOfFact
      <4> QED
        BY <1>2, <2>2, <2>6, <4>1, <4>2 DEF Changed
    <3>2. <<f, g>> \in Pairs \cup {<<"trustFile", "trustLoaded">>}
      BY <3>1 DEF Pairs
    <3>3. g \in FactsOf(todo)
      BY <1>2, <1>3, <1>10, <3>2 DEF Todos
    <3> QED
      BY <1>2, <2>6, <3>3
  <2> QED
    BY <2>1, <2>4, <2>5, <2>6
<1>11. (~update /\ mode = SU) => /\ host'["subid"] # "stale" /\ host'["group"] # "stale"
                                 /\ host'["runsc"] # "stale"
  BY <1>3, <1>6 DEF StillAble
<1>12. mode = OR => host'["opSubgid"] = "good"
  BY <1>3, <1>6 DEF StillAble
<1>13. (mode = OR /\ pc = "batch") =>
         /\ "opGroup" \in FactsOf(todo') => host'["opGroup"] # "stale"
         /\ "fapolicyd" \in FactsOf(rest) => "runsc" \notin FactsOf(todo')
  BY <1>2, <1>3, <1>6 DEF StillAble
<1>14. pc' \notin {"plan", "rollback", "gate", "idle"}
       /\ (mode = OR /\ pc = "act" => Head(rest) \notin Extras)
  BY <1>3 DEF StillAble
<1> QED
  BY <1>3, <1>4, <1>7, <1>9, <1>10, <1>11, <1>12, <1>13, <1>14 DEF StillAble

\* An effect is missing only until its own step.
LEMMA StepEffects ==
  ASSUME TypeOK, RunInv, EffectsFollow, StepDone
  PROVE  EffectsFollow'
<1> USE FactNames
<1>1. PICK f : f = Head(todo)
  OBVIOUS
<1>2. /\ f \in FactsOf(todo) /\ FactsOf(todo') = FactsOf(todo) \ {f}
      /\ f = "marker" => pc = "batch" /\ host' = host
      /\ f # "marker" => host'[f] = "good"
      /\ f \in {"opMember", "sysctlFile", "runsc"} => "opGroup" \notin FactsOf(todo')
      /\ Changed(f)
      /\ pc = "batch" => f \in BatchSteps
      /\ pc = "act" => Head(rest) \in PhaseIds /\ f \in FactsOf(Act(Head(rest), mode))
  BY <1>1, StepFrame
<1>3. /\ pc' = pc /\ pc \in {"batch", "act"} /\ mode \in Modes /\ Todos /\ faults' = faults
  BY DEF StepDone, RunInv, TypeOK
<1> SUFFICES ASSUME faults = 0, NEW r \in Pairs, host'[r[1]] = "good"
             PROVE  \/ host'[r[2]] = "good"
                    \/ pc \in {"batch", "act"} /\ r[2] \in FactsOf(todo') /\ "opGroup" \notin FactsOf(todo')
  BY <1>3 DEF EffectsFollow
<1>4. r[1] \in Facts /\ r[2] \in Facts /\ r[1] # r[2] /\ r[1] # "marker" /\ r[2] # "marker"
  BY DEF Pairs
<1>5. CASE f = r[1]
  <2>1. r[2] \in FactsOf(todo')
    BY <1>2, <1>3, <1>4, <1>5 DEF Todos
  <2>2. "opGroup" \notin FactsOf(todo')
    <3>1. CASE pc = "act"
      <4>1. FactsOf(todo) \subseteq FactsOf(Act(Head(rest), mode))
        BY <1>3, <3>1 DEF Todos
      <4> QED
        BY <1>2, <1>3, <3>1, <4>1, PhaseOfFact
    <3>2. CASE pc = "batch"
      <4>1. f \in {"sysctlFile", "runsc"}
        BY <1>2, <1>5, <3>2 DEF Pairs, BatchSteps
      <4> QED
        BY <1>2, <4>1
    <3> QED
      BY <1>3, <3>1, <3>2
  <2> QED
    BY <1>3, <2>1, <2>2
<1>6. CASE f = r[2]
  BY <1>2, <1>4, <1>6
<1>7. CASE f # r[1] /\ f # r[2]
  <2>1. host[r[1]] = "good"
    BY <1>2, <1>4, <1>7 DEF Changed, Pairs
  <2>2. host'[r[2]] = host[r[2]]
    BY <1>2, <1>4, <1>7 DEF Changed, Pairs
  <2>3. \/ host[r[2]] = "good"
        \/ pc \in {"batch", "act"} /\ r[2] \in FactsOf(todo) /\ "opGroup" \notin FactsOf(todo)
    BY <2>1 DEF EffectsFollow
  <2> QED
    BY <1>2, <1>7, <2>2, <2>3
<1> QED
  BY <1>5, <1>6, <1>7

-----------------------------------------------------------------------------
(* The other steps of the apply pass *)

\* The phases before L3 are done when it is reached, and with it and L3a
\* those before them.
LEMMA ChainDone ==
  ASSUME TypeOK, Lists, pc = "act", Head(rest) \in {"l3", "l3a", "l8"}
  PROVE  /\ ~update /\ mode = SU
         /\ {"l0", "l1", "l2", "l2a", "l5", "l6", "l6a", "l65", "l7"} \subseteq Done \ failed
         /\ Head(rest) \in {"l3a", "l8"} => "l3" \in Done \ failed
         /\ Head(rest) = "l8" => "l3a" \in Done \ failed
<1>1. rest # <<>> /\ 1 \in 1..Len(rest) /\ Head(rest) = rest[1] /\ Head(rest) \in FactsOf(rest)
  BY TailOfRest DEF Lists
<1>2. ~update
  BY <1>1 DEF Lists
<1>3. mode = SU
  BY DEF Lists, AppliesIn, Extras
<1>4. DependsOn[Head(rest)] \subseteq Done \ failed
  <2> SUFFICES ASSUME NEW d \in DependsOn[Head(rest)] PROVE d \in Done
    BY DEF Lists
  <2>1. d \in Done \/ \E j \in 1..(1 - 1) : rest[j] = d
    BY <1>1, <1>2 DEF Lists
  <2> QED
    BY <2>1
<1>5. ASSUME NEW p \in Done \ failed PROVE DependsOn[p] \subseteq Done \ failed
  BY <1>2, <1>3 DEF Lists, AppliesIn
<1>6. Head(rest) = "l8" => "l3a" \in Done \ failed
  BY <1>4, Dependencies
<1>7. Head(rest) \in {"l3a", "l8"} => "l3" \in Done \ failed
  BY <1>4, <1>5, <1>6, Dependencies
<1>8. "l7" \in Done \ failed
  BY <1>4, <1>5, <1>7, Dependencies
<1>9. "l65" \in Done \ failed
  BY <1>5, <1>8, Dependencies
<1>10. "l6a" \in Done \ failed
  BY <1>5, <1>9, Dependencies
<1>11. "l6" \in Done \ failed
  BY <1>5, <1>10, Dependencies
<1>12. "l5" \in Done \ failed
  BY <1>5, <1>11, Dependencies
<1>13. "l2a" \in Done \ failed
  BY <1>5, <1>12, Dependencies
<1>14. "l2" \in Done \ failed
  BY <1>5, <1>13, Dependencies
<1>15. "l1" \in Done \ failed
  BY <1>5, <1>14, Dependencies
<1>16. "l0" \in Done \ failed
  BY <1>5, <1>15, Dependencies
<1> QED
  BY <1>2, <1>3, <1>6, <1>7, <1>8, <1>9, <1>10, <1>11, <1>12, <1>13, <1>14, <1>15, <1>16

\* No step refuses in a setup that is able to succeed.
LEMMA AbleDoable ==
  ASSUME TypeOK, RunInv, able, pc \in {"batch", "act"}, todo # <<>>
  PROVE  Doable(Head(todo))
<1>1. PICK f : f = Head(todo)
  OBVIOUS
<1>2. f \in FactsOf(todo) /\ Lists /\ Todos /\ StillAble /\ PhasesSound /\ mode \in Modes
  BY <1>1, TailOfTodo DEF RunInv, Todos, TypeOK
<1>3. CASE pc = "batch"
  <2>1. f \in BatchSteps /\ mode = OR
    BY <1>2, <1>3, BatchIs DEF Todos, Lists
  <2>2. f = "opGroup" => host["opGroup"] # "stale"
    BY <1>2, <1>3, <2>1 DEF StillAble
  <2> QED
    BY <1>1, <2>1, <2>2 DEF Doable, BatchSteps
<1>4. CASE pc = "act"
  <2>1. PICK p \in PhaseIds : p = Head(rest)
    BY <1>2, <1>4, PhasesAre DEF Lists
  <2>2. f \in FactsOf(Act(p, mode)) /\ AppliesIn(p, mode) /\ p \in FactsOf(rest)
    BY <1>2, <1>4, <2>1, TailOfRest DEF Todos, Lists
  <2>3. update => p = "l6a"
    BY <1>2, <1>4, <2>2 DEF Lists
  <2>4. f \in {"subid", "group", "opGroup"} => host[f] # "stale"
    <3>1. f # "opGroup" /\ (f \in {"subid", "group"} => p = "l2")
      BY <1>2, <2>2, PhaseOfFact
    <3>2. p = "l2" => mode = SU /\ ~update
      BY <2>2, <2>3 DEF AppliesIn, Extras
    <3> QED
      BY <1>2, <1>4, <3>1, <3>2 DEF StillAble
  <2>5. f \in {"aideFile", "trustFile"} => mode = SU
    <3>1. f \in {"aideFile", "trustFile"} => p \in Extras
      BY <1>2, <2>2, PhaseOfFact DEF Extras
    <3> QED
      BY <1>2, <1>4, <2>1, <3>1 DEF StillAble, Modes
  <2>6. f \in {"swept", "session"} =>
          host["rule"] = "good" /\ host["dispatcher"] # "absent" /\ host["member"] = "good"
    <3> SUFFICES ASSUME f \in {"swept", "session"}
                 PROVE  host["rule"] = "good" /\ host["dispatcher"] # "absent" /\ host["member"] = "good"
      OBVIOUS
    <3>1. p \in {"l3a", "l8"}
      BY <1>2, <2>2, PhaseOfFact
    <3>2. mode = SU /\ {"l2", "l65", "l3"} \subseteq Done \ failed
      BY <1>2, <1>4, <2>1, <3>1, ChainDone
    <3>3. failed = {}
      BY <1>2, <1>4 DEF StillAble
    <3>4. \A q \in {"l2", "l65", "l3"} : q \in Base /\ AppliesIn(q, mode)
      BY <3>2, PhasesAre DEF Base, PhaseIds, Extras, AppliesIn
    <3>5. \A q \in {"l2", "l65", "l3"} : Correct(Act(q, mode), host)
      BY <1>2, <3>2, <3>3, <3>4 DEF PhasesSound, Sound
    <3>6. host["rule"] = "good"
      BY <1>2, <3>5, FactOfPhase DEF Correct, Unprobed
    <3>7. host["dispatcher"] = "good"
      BY <1>2, <3>5, FactOfPhase DEF Correct, Unprobed
    <3>8. host["member"] = "good"
      BY <1>2, <3>5, FactOfPhase DEF Correct, Unprobed
    <3> QED
      BY <3>6, <3>7, <3>8
  <2> QED
    BY <1>1, <2>4, <2>5, <2>6 DEF Doable
<1> QED
  BY <1>3, <1>4

\* What reverify asks for is what the act has established.
LEMMA AbleConfirmed ==
  ASSUME TypeOK, RunInv, able, pc = "act", todo = <<>>
  PROVE  Confirmed
<1>1. PICK p \in PhaseIds : p = Head(rest)
  BY PhasesAre DEF RunInv, Lists
<1>2. \A f \in FactsOf(Act(p, mode)) : host[f] = "good"
  BY <1>1, ElementsOf DEF RunInv, StillAble
<1>3. Confirms(p, mode) \subseteq FactsOf(Act(p, mode))
  <2>1. p = "fapolicyd" => "trustLoaded" \in FactsOf(Act(p, mode))
    BY FactOfPhase DEF TypeOK
  <2> QED
    BY <2>1 DEF Confirms
<1> QED
  BY <1>1, <1>2, <1>3 DEF Confirmed

\* A step or a reverify fails, and the phase with it.
LEMMA FailingSteps ==
  ASSUME TypeOK, RunInv, ReverifyFails \/ (StepFails /\ pc = "act")
  PROVE  RunInv'
<1>0. /\ Lists /\ Todos /\ StillAble /\ BatchSound /\ PhasesSound /\ FailedSweepRevokes
      /\ host' = host /\ rest' = rest /\ mode' = mode /\ todo' = todo
      /\ update' = update /\ outcome' = outcome /\ failed' = failed /\ exit' = exit
      /\ Done' = Done /\ pc = "act" /\ pc' = "rollback"
  BY DEF RunInv, ReverifyFails, StepFails, runVars, Done
<1>1. ~able'
  <2>1. CASE ReverifyFails
    BY <1>0, <2>1, AbleConfirmed DEF ReverifyFails, Fault
  <2>2. CASE StepFails
    BY <1>0, <2>2, AbleDoable DEF StepFails, Fault
  <2> QED
    BY <2>1, <2>2
<1>2. Lists' /\ Todos'
  BY <1>0 DEF Lists, Todos
<1>3. PhasesSound' /\ BatchSound' /\ GateClear' /\ FailedSweepRevokes'
  BY <1>0 DEF PhasesSound, BatchSound, GateClear, FailedSweepRevokes
<1>4. StillAble'
  BY <1>1 DEF StillAble
<1> QED
  BY <1>2, <1>3, <1>4 DEF RunInv

\* The phase in hand, and where it is in the list.
LEMMA InHand ==
  ASSUME TypeOK, Lists, rest # <<>>
  PROVE  /\ Head(rest) \in Phases /\ Head(rest) \in PhaseIds /\ Head(rest) \in FactsOf(rest)
         /\ Head(rest) \notin Done
         /\ Head(rest) = rest[1] /\ 1 \in 1..Len(rest)
         /\ pc # "idle" /\ update => Head(rest) = "l6a"
<1>1. Head(rest) \in Phases /\ Head(rest) = rest[1] /\ 1 \in 1..Len(rest)
      /\ Head(rest) \in FactsOf(rest)
  BY TailOfRest DEF Lists
<1> QED
  BY <1>1, PhasesAre DEF Lists

\* An act begins.
LEMMA ActStep ==
  ASSUME TypeOK, RunInv, ActPhase
  PROVE  RunInv'
<1>0. /\ Lists /\ Todos /\ StillAble /\ BatchSound /\ PhasesSound /\ FailedSweepRevokes
      /\ host' = host /\ rest' = rest /\ mode' = mode /\ mode \in Modes
      /\ update' = update /\ outcome' = outcome /\ failed' = failed /\ exit' = exit
      /\ able' = able /\ Done' = Done /\ pc = "apply" /\ pc' = "act" /\ rest # <<>>
  BY DEF RunInv, ActPhase, Done, TypeOK
<1>1. PICK p : p = Head(rest)
  OBVIOUS
<1>2. p \in PhaseIds /\ p \in FactsOf(rest) /\ (update => p = "l6a")
  BY <1>0, <1>1, InHand
<1>3. /\ AppliesIn(p, mode) /\ DependsOn[p] \cap failed = {}
      /\ Probe(p, mode, host) = "MISSING" /\ todo' = Steps(p)
  BY <1>1 DEF ActPhase, Blocked
<1>4. Lists'
  BY <1>0, <1>1, <1>3 DEF Lists
<1>5. /\ todo' \in Seq(Facts \cup {"marker"})
      /\ FactsOf(todo') \subseteq FactsOf(Act(p, mode))
      /\ Ordered(todo')
      /\ \A r \in Pairs \cup {<<"trustFile", "trustLoaded">>} :
           r[1] \in FactsOf(todo') => r[2] \in FactsOf(todo')
      /\ (p = "l6a" => host["runsc"] # "stale" \/ update) =>
           \A f \in FactsOf(Act(p, mode)) : f \in FactsOf(todo') \/ host[f] = "good"
  BY <1>0, <1>2, <1>3, StepsFacts
<1>6. Todos'
  BY <1>0, <1>1, <1>5 DEF Todos
<1>7. PhasesSound'
  <2>1. p # "l0" /\ ~Refuses(p, mode, host)
    BY <1>0, <1>2, <1>3, ProbeFacts
  <2>2. p = "l1" => host["kernel"] = "good"
    BY <2>1 DEF Refuses
  <2> QED
    BY <1>0, <1>1, <2>1, <2>2 DEF PhasesSound
<1>8. BatchSound' /\ GateClear' /\ FailedSweepRevokes'
  BY <1>0 DEF BatchSound, GateClear, FailedSweepRevokes
<1>9. StillAble'
  <2> SUFFICES ASSUME able PROVE StillAble'
    BY <1>0 DEF StillAble
  <2>1. p = "l6a" => host["runsc"] # "stale" \/ update
    <3>1. p = "l6a" => mode = SU
      BY <1>3 DEF AppliesIn, Extras
    <3> QED
      BY <1>0, <3>1 DEF StillAble
  <2>2. mode = OR => p \notin Extras
    BY <1>0, <1>2, <1>3 DEF StillAble
  <2>3. NoRefusal' = NoRefusal
    BY <1>0 DEF NoRefusal
  <2> QED
    BY <1>0, <1>1, <1>5, <2>1, <2>2, <2>3 DEF StillAble
<1> QED
  BY <1>4, <1>6, <1>7, <1>8, <1>9 DEF RunInv

\* What a phase that went through leaves.
LEMMA ConfirmedSound ==
  ASSUME TypeOK, NEW p \in PhaseIds, p \notin Extras, p # "l0",
         p = "l1" => host["kernel"] = "good",
         \A f \in Confirms(p, mode) : host[f] = "good"
  PROVE  Sound(p, mode, host)
  BY DEF Confirms, Sound, Correct, Extras

\* A phase is reported without a change of the host: the conditions under
\* which all that is said of the setup still holds.
LEMMA ReportStep ==
  ASSUME TypeOK, RunInv, NEW result \in Results \ {None}, Reports(result), host' = host,
         todo' = <<>>,
         (failed' = failed /\ AppliesIn(Head(rest), mode) /\ Head(rest) \in Base) =>
            Sound(Head(rest), mode, host),
         (result = "FAIL" /\ Head(rest) = "l3a") => host["rule"] = "absent",
         able' => able /\ failed' = {} /\ pc # "rollback"
  PROVE  RunInv'
<1>1. PICK p : p = Head(rest)
  OBVIOUS
<1>2. /\ p \in Phases /\ p \notin Done /\ p \in FactsOf(rest) /\ Done' = Done \cup {p}
      /\ FactsOf(rest') = FactsOf(rest) \ {p}
  BY <1>1, ReportMoves DEF RunInv
<1>3. Lists'
  BY ReportLists DEF RunInv
<1>4. /\ pc' = "apply" /\ mode' = mode /\ update' = update /\ failed \subseteq failed'
      /\ failed' \subseteq failed \cup {p}
      /\ outcome' = [outcome EXCEPT ![p] = result] /\ outcome \in [Phases -> Results]
      /\ PhasesSound /\ BatchSound /\ FailedSweepRevokes /\ StillAble /\ Lists
      /\ pc \in {"apply", "act", "rollback"}
      /\ p \in failed' \/ failed' = failed
  BY <1>1 DEF Reports, RunInv, TypeOK
<1>5. Todos'
  BY <1>4 DEF Todos
<1>6. PhasesSound'
  <2> SUFFICES ASSUME NEW q \in (Done' \ failed') \cap Base, AppliesIn(q, mode),
                      q = "l3" => "l3a" \notin failed'
               PROVE  Sound(q, mode, host)
    BY <1>4 DEF PhasesSound
  <2>1. CASE q = p
    <3>1. failed' = failed
      BY <1>4, <2>1
    <3> QED
      BY <1>1, <2>1, <3>1
  <2>2. CASE q # p
    BY <1>2, <1>4, <2>2 DEF PhasesSound
  <2> QED
    BY <2>1, <2>2
<1>7. BatchSound' /\ GateClear'
  BY <1>4 DEF BatchSound, GateClear
<1>8. FailedSweepRevokes'
  <2>1. CASE p = "l3a"
    <3>1. outcome'["l3a"] = result
      BY <1>2, <1>4, <2>1
    <3> QED
      BY <1>1, <2>1, <3>1 DEF FailedSweepRevokes
  <2>2. CASE p # "l3a"
    <3>1. outcome'["l3a"] = outcome["l3a"]
      BY <1>4, <2>2, PhasesAre DEF PhaseIds
    <3> QED
      BY <1>4, <3>1 DEF FailedSweepRevokes
  <2> QED
    BY <2>1, <2>2
<1>9. StillAble'
  <2> SUFFICES ASSUME able' PROVE StillAble'
    BY DEF StillAble
  <2>1. able /\ failed' = {} /\ pc # "idle"
    BY <1>4
  <2>2. NoRefusal => NoRefusal'
    BY <1>2, <1>4 DEF NoRefusal
  <2>3. mode = OR => \A e \in FactsOf(rest') \cap Extras : Probe(e, mode, host) = "ALREADY_CORRECT"
    BY <1>2, <1>4, <2>1 DEF StillAble
  <2> QED
    BY <1>4, <2>1, <2>2, <2>3 DEF StillAble
<1> QED
  BY <1>3, <1>5, <1>6, <1>7, <1>8, <1>9 DEF RunInv

\* A phase is over without a rollback.
LEMMA ReportingSteps ==
  ASSUME TypeOK, RunInv, SkipPhase \/ BlockPhase \/ ProbePhase \/ ProbeFails \/ ReverifyDone
  PROVE  RunInv'
<1>0. /\ Lists /\ Todos /\ StillAble /\ PhasesSound /\ mode \in Modes /\ update \in BOOLEAN
      /\ host' = host /\ pc \in {"apply", "act"} /\ rest # <<>> /\ failed \subseteq Done
      /\ todo' = <<>> /\ pc' = "apply" /\ rest' = Tail(rest)
      /\ mode' = mode /\ update' = update /\ exit' = exit
  BY DEF RunInv, TypeOK, SkipPhase, BlockPhase, ProbePhase, ProbeFails, ReverifyDone, Report,
         Lists, Todos
<1>1. PICK p : p = Head(rest)
  OBVIOUS
<1>2. /\ p \in PhaseIds /\ p \in FactsOf(rest) /\ p \notin failed
      /\ update => p = "l6a"
  BY <1>0, <1>1, InHand
<1>3. PICK r \in Results \ {None} :
        /\ outcome' = [outcome EXCEPT ![p] = r]
        /\ failed' = IF r \in {"ALREADY_CORRECT", "SKIPPED"} THEN failed ELSE failed \cup {p}
        /\ r = "SKIPPED" => ~AppliesIn(p, mode) /\ able' = able
        /\ r = "BLOCKED_BY" => DependsOn[p] \cap failed # {}
        /\ r = "ALREADY_CORRECT" =>
             /\ DependsOn[p] \cap failed = {} /\ able' = able
             /\ \/ Probe(p, mode, host) = r
                \/ pc = "act" /\ \A f \in Confirms(p, mode) : host[f] = "good"
        /\ r = "FAIL" => p # "l3a"
        /\ (r \in {"FAIL", "CONFLICT"} /\ able') =>
             able /\ AppliesIn(p, mode) /\ Probe(p, mode, host) \in {"FAIL", "CONFLICT"}
        /\ r # "ROLLBACK_FAILED"
        /\ able' => able
  <2>1. CASE SkipPhase
    BY <1>1, <2>1 DEF SkipPhase, Report, Results, None
  <2>2. CASE BlockPhase
    BY <1>1, <2>2 DEF BlockPhase, Report, Results, None, Blocked
  <2>3. CASE ProbePhase
    <3>1. Probe(p, mode, host) \in {"ALREADY_CORRECT", "CONFLICT", "FAIL"} /\ p # "l3a"
      BY <1>0, <1>1, <1>2, <2>3, ProbeFacts DEF ProbePhase
    <3> QED
      BY <1>1, <2>3, <3>1 DEF ProbePhase, Report, Results, None, Blocked
  <2>4. CASE ProbeFails
    BY <1>1, <2>4 DEF ProbeFails, Report, Results, None, Fault
  <2>5. CASE ReverifyDone
    <3>1. DependsOn[p] \cap failed = {}
      BY <1>0, <1>1, <2>5 DEF ReverifyDone, Lists
    <3> QED
      BY <1>1, <2>5, <3>1 DEF ReverifyDone, Report, Results, None, Confirmed
  <2> QED
    BY <2>1, <2>2, <2>3, <2>4, <2>5
<1>4. Reports(r)
  BY <1>0, <1>1, <1>3 DEF Reports, Results, None
<1>5. (failed' = failed /\ AppliesIn(p, mode) /\ p \in Base) => Sound(p, mode, host)
  <2> SUFFICES ASSUME failed' = failed, AppliesIn(p, mode), p \in Base PROVE Sound(p, mode, host)
    OBVIOUS
  <2>1. r = "ALREADY_CORRECT"
    BY <1>2, <1>3
  <2>2. CASE Probe(p, mode, host) = "ALREADY_CORRECT"
    <3>1. ~Refuses(p, mode, host) /\ Correct(Act(p, mode), host)
          /\ (p = "l0" => L0Probe(mode, host) = "ALREADY_CORRECT")
      BY <1>0, <1>2, <2>2, ProbeFacts
    <3>2. p = "l1" => host["kernel"] = "good"
      BY <3>1 DEF Refuses
    <3> QED
      BY <3>1, <3>2 DEF Sound
  <2>3. CASE pc = "act" /\ \A f \in Confirms(p, mode) : host[f] = "good"
    BY <1>0, <1>1, <1>2, <2>3, ConfirmedSound DEF PhasesSound, Base
  <2> QED
    BY <1>3, <2>1, <2>2, <2>3
<1>6. able' => able /\ failed' = {} /\ pc # "rollback"
  <2> SUFFICES ASSUME able' PROVE able /\ failed' = {}
    BY <1>0
  <2>1. able /\ failed = {}
    BY <1>0, <1>3 DEF StillAble
  <2>2. r # "BLOCKED_BY"
    BY <1>3, <2>1
  <2>3. r \notin {"FAIL", "CONFLICT"}
    <3> SUFFICES ASSUME r \in {"FAIL", "CONFLICT"} PROVE FALSE
      OBVIOUS
    <3>1. AppliesIn(p, mode) /\ Probe(p, mode, host) \in {"FAIL", "CONFLICT"}
      BY <1>3
    <3>2. CASE update
      BY <1>0, <1>2, <3>1, <3>2, ProbeFacts DEF Refuses
    <3>3. CASE ~update
      <4>1. NoRefusal
        BY <1>0, <2>1, <3>3 DEF StillAble, Modes
      <4> QED
        BY <1>2, <3>1, <4>1 DEF NoRefusal
    <3> QED
      BY <1>0, <3>2, <3>3
  <2> QED
    BY <1>3, <2>1, <2>2, <2>3 DEF Results, None
<1>7. (r = "FAIL" /\ p = "l3a") => host["rule"] = "absent"
  BY <1>3
<1> QED
  BY <1>0, <1>1, <1>4, <1>5, <1>6, <1>7, ReportStep

\* A phase is over after a rollback.
LEMMA RollbackSteps ==
  ASSUME TypeOK, RunInv, Rollback \/ RollbackFails
  PROVE  RunInv'
<1> USE FactNames
<1>0. /\ Lists /\ Todos /\ StillAble /\ PhasesSound /\ mode \in Modes /\ BatchSound
      /\ FailedSweepRevokes /\ host \in [Facts -> Levels] /\ outcome \in [Phases -> Results]
      /\ pc = "rollback" /\ rest # <<>> /\ failed \subseteq Done /\ pc' = "apply" /\ todo' = <<>>
      /\ failed' = failed \cup {Head(rest)} /\ rest' = Tail(rest)
      /\ mode' = mode /\ update' = update /\ exit' = exit
      /\ AppliesIn(Head(rest), mode)
  BY DEF RunInv, TypeOK, Rollback, RollbackFails, Lists, Todos
<1>1. PICK p : p = Head(rest)
  OBVIOUS
<1>2. p \in PhaseIds /\ p \in FactsOf(rest) /\ p \notin failed /\ p \notin Done
  BY <1>0, <1>1, InHand
<1>3. ~able /\ ~able'
  BY <1>0 DEF StillAble, Rollback, RollbackFails
<1>4. failed' # failed
  BY <1>0, <1>1, <1>2
<1>5. CASE RollbackFails \/ p \notin HasRollback
  <2>1. PICK r \in Results \ {None} :
          /\ outcome' = [outcome EXCEPT ![p] = r]
          /\ r = "FAIL" => p # "l3a"
    <3>1. CASE RollbackFails
      BY <1>1, <3>1 DEF RollbackFails, Results, None
    <3>2. CASE Rollback /\ p \notin HasRollback
      BY <1>1, <3>2 DEF Rollback, Results, None, HasRollback
    <3> QED
      BY <1>5, <3>1, <3>2
  <2>2. host' = host
    BY <1>1, <1>5 DEF Rollback, RollbackFails
  <2>3. Reports(r)
    BY <1>0, <1>1, <2>1 DEF Reports
  <2> QED
    BY <1>0, <1>1, <1>3, <1>4, <2>1, <2>2, <2>3, ReportStep
<1>6. CASE Rollback /\ p \in HasRollback
  <2>0. p \in {"l3", "l3a"}
    BY <1>6 DEF HasRollback
  <2>1. /\ outcome' = [outcome EXCEPT ![p] = "FAIL"]
        /\ host' = [host EXCEPT !["rule"] = "absent", !["swept"] = "absent"]
    BY <1>1, <1>6 DEF Rollback
  <2>2. Reports("FAIL") /\ "FAIL" \in Results \ {None}
    BY <1>0, <1>1, <2>1 DEF Reports, Results, None
  <2>3. Lists' /\ Done' = Done \cup {p}
    BY <1>0, <1>1, <2>2, ReportLists, ReportMoves
  <2>4. Todos'
    BY <1>0 DEF Todos
  <2>5. PhasesSound'
    <3> SUFFICES ASSUME NEW q \in (Done' \ failed') \cap Base, AppliesIn(q, mode),
                        q = "l3" => "l3a" \notin failed'
                 PROVE  Sound(q, mode, host')
      BY <1>0 DEF PhasesSound
    <3>1. q # p /\ q \in Done \ failed /\ q \in Base /\ q \in PhaseIds
      BY <1>0, <1>1, <2>3, PhasesAre DEF Base
    <3>2. q # "l3"
      BY <1>0, <1>1, <2>0, <3>1
    <3>3. q # "l3a"
      <4>1. p = "l3" => "l3a" \notin Done
        BY <1>0, <1>1, RuleOnce
      <4> QED
        BY <2>0, <3>1, <4>1
    <3>4. Sound(q, mode, host)
      BY <1>0, <3>1, <3>2 DEF PhasesSound
    <3>5. \A f \in FactsOf(Act(q, mode)) : f \in Facts /\ f \notin {"rule", "swept"}
      BY <1>0, <3>1, <3>2, <3>3, PhaseOfFact
    <3>6. \A f \in Facts \ {"rule", "swept"} : host'[f] = host[f]
      BY <1>0, <2>1
    <3>7. Correct(Act(q, mode), host')
      BY <3>4, <3>5, <3>6 DEF Sound, Correct
    <3>8. host'["prereq"] = host["prereq"] /\ host'["machinectl"] = host["machinectl"]
          /\ host'["kernel"] = host["kernel"]
      BY <3>6
    <3> QED
      BY <3>4, <3>7, <3>8 DEF Sound, L0Probe
  <2>6. BatchSound'
    <3>1. \A f \in BatchProbed : host'[f] = host[f]
      BY <1>0, <2>1 DEF BatchProbed
    <3> QED
      BY <1>0, <3>1 DEF BatchSound
  <2>7. GateClear' /\ StillAble'
    BY <1>0, <1>3 DEF GateClear, StillAble
  <2>8. FailedSweepRevokes'
    BY <1>0, <2>1 DEF FailedSweepRevokes
  <2> QED
    BY <2>3, <2>4, <2>5, <2>6, <2>7, <2>8 DEF RunInv
<1> QED
  BY <1>5, <1>6

-----------------------------------------------------------------------------
(* The invariant is inductive *)

\* What is said of the running setup, step by step.
LEMMA RunStep ==
  ASSUME TypeOK, RunInv, Next
  PROVE  RunInv'
<1>1. CASE \E m \in Modes, extras \in SUBSET Extras, upd \in BOOLEAN : Begin(m, extras, upd)
  BY <1>1, BeginStep
<1>2. CASE RefuseModeSwitch \/ Upgrade
  BY <1>2, EndingSteps
<1>3. CASE PlanRefused \/ PlanFails \/ DryRun \/ NothingToApply \/ Decline \/ NotAllowed
           \/ RecordMode \/ Stop
  <2>1. \E code : Ends(code)
    BY <1>3 DEF PlanRefused, PlanFails, DryRun, NothingToApply, Decline, NotAllowed, RecordMode,
                Stop
  <2> QED
    BY <2>1, EndingSteps
<1>4. CASE PlanDone
  BY <1>4, PlanStep
<1>5. CASE Proceed \/ BatchDone
  BY <1>5, MovingSteps
<1>6. CASE StepDone
  BY <1>6, StepTodos, StepSound, StepAble DEF RunInv
<1>7. CASE StepFails
  <2>1. CASE pc = "batch"
    <3>1. \E code : Ends(code)
      BY <1>7, <2>1 DEF StepFails
    <3> QED
      BY <3>1, EndingSteps
  <2>2. CASE pc = "act"
    BY <1>7, <2>2, FailingSteps
  <2> QED
    BY <1>7, <2>1, <2>2 DEF StepFails
<1>8. CASE SkipPhase \/ BlockPhase \/ ProbePhase \/ ProbeFails \/ ReverifyDone
  BY <1>8, ReportingSteps
<1>9. CASE ActPhase
  BY <1>9, ActStep
<1>10. CASE ReverifyFails
  BY <1>10, FailingSteps
<1>11. CASE Rollback \/ RollbackFails
  BY <1>11, RollbackSteps
<1>12. CASE ApplyDone
  <2>1. CASE pc' = "record"
    BY <1>12, <2>1, MovingSteps
  <2>2. CASE pc' # "record"
    <3>1. \E code : Ends(code)
      BY <1>12, <2>2 DEF ApplyDone
    <3> QED
      BY <3>1, EndingSteps
  <2> QED
    BY <2>1, <2>2
<1> QED
  BY <1>1, <1>2, <1>3, <1>4, <1>5, <1>6, <1>7, <1>8, <1>9, <1>10, <1>11, <1>12 DEF Next

\* No effect is due.
Settled ==
  \/ pc \notin {"batch", "act"}
  \/ \A r \in Pairs : r[2] \notin FactsOf(todo)
  \/ "opGroup" \in FactsOf(todo)

\* When no effect is due and the pairs stay as they are, none is missing.
LEMMA SettledSteps ==
  ASSUME EffectsFollow, Settled, faults' = 0 => faults = 0,
         \A r \in Pairs : /\ host'[r[1]] = "good" => host[r[1]] = "good"
                          /\ host[r[2]] = "good" => host'[r[2]] = "good"
  PROVE  EffectsFollow'
  BY DEF EffectsFollow, Settled

\* A step that refuses leaves no effect missing.
LEMMA RefusalSettled ==
  ASSUME TypeOK, RunInv, pc \in {"batch", "act"}, todo # <<>>, ~Doable(Head(todo))
  PROVE  Settled
<1>1. PICK f : f = Head(todo)
  OBVIOUS
<1>2. f \in FactsOf(todo) /\ Lists /\ Todos /\ mode \in Modes
  BY <1>1, TailOfTodo DEF RunInv, Todos, TypeOK
<1>3. f \in {"subid", "group", "opGroup", "aideFile", "trustFile", "swept", "session"}
  BY <1>1 DEF Doable
<1>4. CASE pc = "batch"
  <2>1. f \in BatchSteps
    BY <1>2, <1>4, BatchIs DEF Todos
  <2>2. f = "opGroup"
    BY <1>3, <2>1 DEF BatchSteps
  <2> QED
    BY <1>2, <2>2 DEF Settled
<1>5. CASE pc = "act"
  <2>1. PICK p \in PhaseIds : p = Head(rest)
    BY <1>2, <1>5, PhasesAre DEF Lists
  <2>2. FactsOf(todo) \subseteq FactsOf(Act(p, mode))
    BY <1>2, <1>5, <2>1 DEF Todos
  <2>3. p \in {"l2", "aide", "fapolicyd", "l3a", "l8"}
    BY <1>2, <1>3, <2>2, PhaseOfFact
  <2>4. \A r \in Pairs : r[2] \notin FactsOf(Act(p, mode))
    <3> SUFFICES ASSUME NEW r \in Pairs, r[2] \in FactsOf(Act(p, mode)) PROVE FALSE
      OBVIOUS
    <3>1. r[2] \in {"sysctlLive", "delegateLoaded", "runscSeal", "dispatcherSeal"}
      BY DEF Pairs
    <3>2. p \in {"l1", "l2a", "l6a", "l65"}
      BY <1>2, <3>1, PhaseOfFact
    <3> QED
      BY <2>3, <3>2
  <2> QED
    BY <2>2, <2>4 DEF Settled
<1> QED
  BY <1>4, <1>5

\* As long as nothing has gone wrong no effect is missing for good.
LEMMA EffectsStep ==
  ASSUME TypeOK, RunInv, EffectsFollow, Next
  PROVE  EffectsFollow'
<1> SUFFICES ASSUME faults' = 0 PROVE EffectsFollow'
  BY DEF EffectsFollow
<1>1. faults \in Nat /\ host \in [Facts -> Levels]
  BY SetupAssumption DEF TypeOK
<1>2. ~Fault
  BY <1>1 DEF Fault
<1>3. \A r \in Pairs : r[1] \in Facts /\ r[2] \in Facts /\ {r[1], r[2]} \cap {"rule", "swept"} = {}
                       /\ r[2] \in {"sysctlLive", "delegateLoaded", "runscSeal", "dispatcherSeal"}
  BY FactNames DEF Pairs
<1>4. CASE StepDone
  BY <1>4, StepEffects
<1>5. CASE host' = host /\ Settled /\ faults' = faults
  BY <1>5, SettledSteps
<1>6. CASE StepFails
  <2>1. ~Doable(Head(todo))
    BY <1>2, <1>6 DEF StepFails
  <2>2. Settled
    BY <1>6, <2>1, RefusalSettled DEF StepFails
  <2> QED
    BY <1>5, <1>6, <2>1, <2>2 DEF StepFails
<1>7. CASE Rollback
  <2>1. Settled /\ faults' = faults
    BY <1>7 DEF Rollback, Settled
  <2>2. \A f \in Facts \ {"rule", "swept"} : host'[f] = host[f]
    BY <1>1, <1>7 DEF Rollback
  <2> QED
    BY <1>3, <2>1, <2>2, SettledSteps
<1>8. CASE Upgrade
  <2>1. Settled /\ faults' = faults
    BY <1>8 DEF Upgrade, Settled
  <2>2. PICK S \in {{"rule"}, {"dispatcher", "manifest"}, {"runsc"}, {"image", "opImage"}} :
          host' = Stale(host, S)
    BY <1>8 DEF Upgrade
  <2>3. \A r \in Pairs : r[2] \notin S
    BY <1>3
  <2>4. \A f \in Facts : host'[f] = IF f \in S /\ host[f] = "good" THEN "stale" ELSE host[f]
    BY <1>1, <2>2, StaleFacts
  <2>5. \A r \in Pairs : /\ host'[r[1]] = "good" => host[r[1]] = "good"
                         /\ host[r[2]] = "good" => host'[r[2]] = "good"
    BY <1>3, <2>3, <2>4
  <2> QED
    BY <2>1, <2>5, SettledSteps
<1>9. CASE \/ \E m \in Modes, extras \in SUBSET Extras, upd \in BOOLEAN : Begin(m, extras, upd)
           \/ RefuseModeSwitch \/ PlanRefused \/ DryRun \/ PlanDone
           \/ NothingToApply \/ Proceed \/ Decline \/ NotAllowed
  <2>1. pc \in {"idle", "plan", "gate"} /\ host' = host /\ faults' = faults
    BY <1>9 DEF Begin, RefuseModeSwitch, PlanRefused, DryRun, PlanDone, NothingToApply, Proceed,
                Decline, NotAllowed
  <2> QED
    BY <1>5, <2>1 DEF Settled
<1>10. CASE \/ SkipPhase \/ BlockPhase \/ ProbePhase \/ ActPhase \/ RollbackFails \/ ApplyDone
            \/ RecordMode
  <2>1. pc \in {"apply", "rollback", "record"} /\ host' = host /\ faults' = faults
    BY <1>10 DEF SkipPhase, BlockPhase, ProbePhase, ActPhase, RollbackFails, ApplyDone, RecordMode
  <2> QED
    BY <1>5, <2>1 DEF Settled
<1>11. CASE BatchDone \/ ReverifyDone \/ ReverifyFails
  <2>1. todo = <<>> /\ host' = host /\ faults' = faults
    BY <1>2, <1>11 DEF BatchDone, ReverifyDone, ReverifyFails
  <2> QED
    BY <1>5, <2>1, ElementsOf DEF Settled
<1>12. CASE PlanFails \/ ProbeFails \/ Stop
  BY <1>2, <1>12 DEF PlanFails, ProbeFails, Stop
<1> QED
  BY <1>4, <1>6, <1>7, <1>8, <1>9, <1>10, <1>11, <1>12 DEF Next

\* A setup that ends with 1 was not able to succeed.
LEMMA UnharmedStep ==
  ASSUME TypeOK, RunInv, UnharmedSetupSucceeds, Next
  PROVE  UnharmedSetupSucceeds'
<1> SUFFICES ASSUME exit' = "1", able' PROVE FALSE
  BY DEF UnharmedSetupSucceeds
<1>1. Lists /\ StillAble /\ mode \in Modes
  BY DEF RunInv, TypeOK
<1>2. CASE \E m \in Modes, extras \in SUBSET Extras, upd \in BOOLEAN : Begin(m, extras, upd)
  BY <1>2 DEF Begin
<1>3. CASE RefuseModeSwitch \/ PlanFails \/ NotAllowed \/ ProbeFails \/ RollbackFails \/ Stop
  BY <1>3 DEF RefuseModeSwitch, PlanFails, NotAllowed, ProbeFails, RollbackFails, Stop, Fault
<1>4. CASE Upgrade
  BY <1>4 DEF Upgrade, UnharmedSetupSucceeds
<1>5. CASE DryRun \/ NothingToApply \/ Decline \/ RecordMode
  BY <1>5 DEF DryRun, NothingToApply, Decline, RecordMode, Ends
<1>6. CASE PlanRefused
  <2>1. able /\ pc = "plan" /\ ~update
    BY <1>6 DEF PlanRefused
  <2>2. Servable(mode, update, FactsOf(rest), host)
    BY <1>1, <2>1 DEF StillAble
  <2>3. \A p \in FactsOf(rest) : AppliesIn(p, mode) => Probe(p, mode, host) \notin {"CONFLICT", "FAIL"}
    BY <2>1, <2>2 DEF Servable
  <2>4. mode = OR => host["opSubgid"] = "good"
    BY <1>1, <2>1 DEF StillAble
  <2> QED
    BY <1>6, <2>3, <2>4 DEF PlanRefused, Planned, Applicable
<1>7. CASE StepFails
  <2>1. Doable(Head(todo)) => ~able'
    BY <1>7 DEF StepFails, Fault
  <2>2. ~Doable(Head(todo)) => able' = able
    BY <1>7 DEF StepFails
  <2> QED
    BY <1>7, <2>1, <2>2, AbleDoable DEF StepFails
<1>8. CASE ApplyDone
  <2>1. able /\ pc = "apply"
    BY <1>8 DEF ApplyDone
  <2>2. failed = {} /\ exit = "none"
    BY <1>1, <2>1 DEF StillAble, Lists
  <2> QED
    BY <1>8, <2>2 DEF ApplyDone, Ends
<1>9. CASE PlanDone \/ Proceed \/ StepDone \/ BatchDone \/ SkipPhase \/ BlockPhase \/ ProbePhase
           \/ ActPhase \/ ReverifyDone \/ ReverifyFails \/ Rollback
  <2>1. pc # "idle" /\ exit' = exit
    BY <1>9 DEF PlanDone, Proceed, StepDone, BatchDone, SkipPhase, BlockPhase, ProbePhase,
                ActPhase, ReverifyDone, ReverifyFails, Rollback, Report
  <2> QED
    BY <1>1, <2>1 DEF Lists
<1> QED
  BY <1>2, <1>3, <1>4, <1>5, <1>6, <1>7, <1>8, <1>9 DEF Next

\* The group comes before the membership.
LEMMA GroupStep ==
  ASSUME TypeOK, RunInv, GroupFirst, Next
  PROVE  GroupFirst'
<1> USE FactNames
<1>0. host \in [Facts -> Levels] /\ mode \in Modes
  BY DEF TypeOK
<1>1. CASE StepDone
  <2>1. PICK f : f = Head(todo)
    OBVIOUS
  <2>2. /\ f \in FactsOf(todo) /\ FactsOf(todo') = FactsOf(todo) \ {f}
        /\ f = "opMember" => "opGroup" \notin FactsOf(todo')
        /\ Changed(f) /\ pc' = pc /\ pc \in {"batch", "act"}
        /\ f # "marker" => host'[f] = "good"
        /\ pc = "act" => Head(rest) \in PhaseIds /\ f \in FactsOf(Act(Head(rest), mode))
    BY <1>1, <2>1, StepFrame DEF StepDone
  <2>3. f \in {"opGroup", "opMember"} => pc = "batch"
    BY <1>0, <2>2, PhaseOfFact
  <2>4. /\ host'["opGroup"] = host["opGroup"] \/ host'["opGroup"] = "good"
        /\ host'["opMember"] = host["opMember"] \/ f = "opMember"
    BY <2>2 DEF Changed
  <2>5. f = "opMember" => host["opGroup"] = "good"
    BY <2>2, <2>3 DEF GroupFirst
  <2> QED
    BY <2>2, <2>4, <2>5 DEF GroupFirst
<1>2. CASE PlanDone
  <2>1. host' = host
    BY <1>2 DEF PlanDone
  <2>2. "opMember" \in FactsOf(todo') => "opGroup" \in FactsOf(todo') \/ host["opGroup"] = "good"
    <3>1. CASE mode = OR
      <4>1. todo' = Unsatisfied(host, marker)
        BY <1>2, <3>1 DEF PlanDone
      <4> QED
        BY <1>0, <4>1, UnsatisfiedHas
    <3>2. CASE mode # OR
      <4>1. todo' = <<>>
        BY <1>2, <3>2 DEF PlanDone
      <4> QED
        BY <4>1, ElementsOf
    <3> QED
      BY <3>1, <3>2
  <2> QED
    BY <2>1, <2>2 DEF GroupFirst
<1>3. CASE /\ host'["opGroup"] = host["opGroup"] /\ host'["opMember"] = host["opMember"]
           /\ pc' \in {"gate", "batch"} => pc \in {"gate", "batch"} /\ todo' = todo
  BY <1>3 DEF GroupFirst
<1>4. CASE Rollback
  <2>1. host'["opGroup"] = host["opGroup"] /\ host'["opMember"] = host["opMember"]
    BY <1>0, <1>4 DEF Rollback
  <2> QED
    BY <1>3, <1>4, <2>1 DEF Rollback
<1>5. CASE Stop
  <2>1. CASE todo # <<>> /\ Head(todo) # "marker"
    <3>1. Head(todo) \in Facts
      BY <2>1 DEF RunInv, Todos
    <3>2. host' = host \/ host' = Torn(host, Head(todo))
      BY <1>5 DEF Stop
    <3>3. host'["opGroup"] = host["opGroup"] /\ host'["opMember"] = host["opMember"]
      BY <1>0, <3>1, <3>2, TornFacts
    <3> QED
      BY <1>3, <1>5, <3>3 DEF Stop, Ends
  <2>2. CASE ~(todo # <<>> /\ Head(todo) # "marker")
    <3>1. host' = host
      BY <1>5, <2>2 DEF Stop
    <3> QED
      BY <1>3, <1>5, <3>1 DEF Stop, Ends
  <2> QED
    BY <2>1, <2>2
<1>6. CASE Upgrade
  <2>1. PICK S \in {{"rule"}, {"dispatcher", "manifest"}, {"runsc"}, {"image", "opImage"}} :
          host' = Stale(host, S)
    BY <1>6 DEF Upgrade
  <2>2. host'["opGroup"] = host["opGroup"] /\ host'["opMember"] = host["opMember"]
    BY <1>0, <2>1, StaleFacts
  <2> QED
    BY <1>3, <1>6, <2>2 DEF Upgrade
<1>7. CASE \/ \E m \in Modes, extras \in SUBSET Extras, upd \in BOOLEAN : Begin(m, extras, upd)
           \/ RefuseModeSwitch \/ PlanRefused \/ PlanFails \/ DryRun
           \/ NothingToApply \/ Proceed \/ Decline \/ NotAllowed
  <2>1. host' = host /\ (pc' \in {"gate", "batch"} => pc \in {"gate", "batch"} /\ todo' = todo)
    BY <1>7 DEF Begin, RefuseModeSwitch, PlanRefused, PlanFails, DryRun,
                NothingToApply, Proceed, Decline, NotAllowed, Ends, runVars
  <2> QED
    BY <1>3, <2>1
<1>8. CASE StepFails \/ BatchDone \/ ActPhase \/ ReverifyFails \/ RollbackFails \/ ApplyDone
           \/ RecordMode \/ SkipPhase \/ BlockPhase \/ ProbePhase \/ ProbeFails \/ ReverifyDone
  <2>1. host' = host /\ pc' \notin {"gate", "batch"}
    BY <1>8 DEF StepFails, BatchDone, ActPhase, ReverifyFails, RollbackFails, ApplyDone,
                RecordMode, SkipPhase, BlockPhase, ProbePhase, ProbeFails, ReverifyDone, Report, Ends
  <2> QED
    BY <1>3, <2>1
<1> QED
  BY <1>1, <1>2, <1>4, <1>5, <1>6, <1>7, <1>8 DEF Next

\* A phase that is reported gets a result.
LEMMA OutcomeStep ==
  ASSUME TypeOK, RunInv, Next
  PROVE  outcome' \in [Phases -> Results]
<1>0. outcome \in [Phases -> Results] /\ NoOutcome \in [Phases -> Results]
  BY DEF TypeOK, NoOutcome, Results
<1>1. \A r \in Results : [outcome EXCEPT ![Head(rest)] = r] \in [Phases -> Results]
  BY <1>0
<1>2. CASE SkipPhase \/ BlockPhase \/ ProbeFails \/ ReverifyDone \/ Rollback \/ RollbackFails
  <2>1. PICK r \in {"SKIPPED", "BLOCKED_BY", "FAIL", "ALREADY_CORRECT", "ROLLBACK_FAILED"} :
          outcome' = [outcome EXCEPT ![Head(rest)] = r]
    BY <1>2 DEF SkipPhase, BlockPhase, ProbeFails, ReverifyDone, Rollback, RollbackFails, Report
  <2> QED
    BY <1>1, <2>1 DEF Results
<1>3. CASE ProbePhase
  <2>1. Head(rest) \in PhaseIds /\ mode \in Modes
    BY <1>3, InHand DEF ProbePhase, RunInv, TypeOK
  <2>2. Probe(Head(rest), mode, host) \in {"ALREADY_CORRECT", "MISSING", "CONFLICT", "FAIL"}
    BY <2>1, ProbeFacts
  <2>3. Probe(Head(rest), mode, host) \in Results
    BY <1>3, <2>2 DEF ProbePhase, Results
  <2> QED
    BY <1>1, <1>3, <2>3 DEF ProbePhase, Report
<1>4. CASE outcome' = NoOutcome \/ outcome' = outcome
  BY <1>0, <1>4
<1>5. CASE \/ \E m \in Modes, extras \in SUBSET Extras, upd \in BOOLEAN : Begin(m, extras, upd)
           \/ RefuseModeSwitch \/ PlanRefused \/ PlanFails \/ DryRun \/ PlanDone
           \/ NothingToApply \/ Proceed \/ Decline \/ NotAllowed
  BY <1>4, <1>5 DEF Begin, RefuseModeSwitch, PlanRefused, PlanFails, DryRun, PlanDone,
                    NothingToApply, Proceed, Decline, NotAllowed, Ends, runVars
<1>6. CASE StepDone \/ StepFails \/ BatchDone \/ ActPhase \/ ReverifyFails \/ ApplyDone
           \/ RecordMode \/ Stop \/ Upgrade
  BY <1>4, <1>6 DEF StepDone, StepFails, BatchDone, ActPhase, ReverifyFails, ApplyDone,
                    RecordMode, Stop, Upgrade, Ends, runVars
<1> QED
  BY <1>2, <1>3, <1>5, <1>6 DEF Next

\* The host stays one.
LEMMA HostStep ==
  ASSUME TypeOK, RunInv, Next
  PROVE  host' \in [Facts -> Levels]
<1>0. host \in [Facts -> Levels]
  BY DEF TypeOK
<1>1. CASE StepDone
  BY <1>1, StepFrame
<1>2. CASE Rollback
  BY <1>0, <1>2 DEF Rollback, Levels
<1>3. CASE Stop
  <2>1. CASE todo # <<>> /\ Head(todo) # "marker"
    <3>1. Head(todo) \in Facts
      BY <2>1 DEF RunInv, Todos
    <3> QED
      BY <1>0, <1>3, <3>1, TornFacts DEF Stop
  <2>2. CASE ~(todo # <<>> /\ Head(todo) # "marker")
    BY <1>0, <1>3, <2>2 DEF Stop
  <2> QED
    BY <2>1, <2>2
<1>4. CASE Upgrade
  BY <1>0, <1>4, StaleFacts DEF Upgrade
<1>5. CASE \/ \E m \in Modes, extras \in SUBSET Extras, upd \in BOOLEAN : Begin(m, extras, upd)
           \/ RefuseModeSwitch \/ PlanRefused \/ PlanFails \/ DryRun \/ PlanDone
           \/ NothingToApply \/ Proceed \/ Decline \/ NotAllowed
  BY <1>0, <1>5 DEF Begin, RefuseModeSwitch, PlanRefused, PlanFails, DryRun, PlanDone,
                    NothingToApply, Proceed, Decline, NotAllowed
<1>6. CASE StepFails \/ BatchDone \/ SkipPhase \/ BlockPhase \/ ProbePhase \/ ProbeFails
           \/ ActPhase \/ ReverifyDone \/ ReverifyFails \/ RollbackFails \/ ApplyDone \/ RecordMode
  BY <1>0, <1>6 DEF StepFails, BatchDone, SkipPhase, BlockPhase, ProbePhase, ProbeFails,
                    ActPhase, ReverifyDone, ReverifyFails, RollbackFails, ApplyDone, RecordMode
<1> QED
  BY <1>1, <1>2, <1>3, <1>4, <1>5, <1>6 DEF Next

\* The variables of one value.
Scalars ==
  /\ marker \in Modes \cup {None}
  /\ pc \in {"idle", "plan", "gate", "batch", "apply", "act", "rollback", "record"}
  /\ mode \in Modes /\ update \in BOOLEAN
  /\ exit \in {"none", "0", "unapplied", "1", "130", "killed"}
  /\ able \in BOOLEAN
  /\ faults \in 0..MaxFaults
  /\ upgrades \in 0..MaxUpgrades

\* They keep their types.
LEMMA ScalarStep ==
  ASSUME TypeOK, Next
  PROVE  Scalars'
<1> USE SetupAssumption
<1>0. Scalars
  BY DEF TypeOK, Scalars
<1>1. CASE \E m \in Modes, extras \in SUBSET Extras, upd \in BOOLEAN : Begin(m, extras, upd)
  <2>1. PICK m \in Modes, extras \in SUBSET Extras, upd \in BOOLEAN : Begin(m, extras, upd)
    BY <1>1
  <2>2. able' \in BOOLEAN
    BY <2>1 DEF Begin, Servable
  <2> QED
    BY <1>0, <2>1, <2>2 DEF Begin, Scalars
<1> DEFINE Step == /\ marker' \in {marker, SU, OR}
                   /\ pc' \in {pc, "idle", "gate", "batch", "apply", "act", "rollback", "record"}
                   /\ mode' = mode /\ update' = update
                   /\ exit' \in {exit, "0", "unapplied", "1", "130", "killed"}
                   /\ Fault \/ (faults' = faults /\ (able' = able \/ able' = FALSE))
                   /\ upgrades' = upgrades \/ (upgrades < MaxUpgrades /\ upgrades' = upgrades + 1)
<1>8. ASSUME Step PROVE Scalars'
  <2>1. able' \in BOOLEAN
    BY <1>0, <1>8 DEF Scalars, Fault
  <2>2. faults' \in 0..MaxFaults
    BY <1>0, <1>8 DEF Scalars, Fault
  <2>3. upgrades' \in 0..MaxUpgrades
    BY <1>0, <1>8 DEF Scalars
  <2> QED
    BY <1>0, <1>8, <2>1, <2>2, <2>3 DEF Scalars, Modes
<1>2. CASE RefuseModeSwitch \/ PlanRefused \/ PlanFails \/ DryRun \/ PlanDone
  <2>1. Step
    BY <1>2 DEF RefuseModeSwitch, PlanRefused, PlanFails, DryRun, PlanDone,
                 Report, Ends, Recorded, runVars
  <2> QED
    BY <2>1, <1>8
<1>3. CASE NothingToApply \/ Proceed \/ Decline \/ NotAllowed
  <2>1. Step
    BY <1>3 DEF NothingToApply, Proceed, Decline, NotAllowed,
                 Report, Ends, Recorded, runVars
  <2> QED
    BY <2>1, <1>8
<1>4. CASE StepDone \/ StepFails \/ BatchDone
  <2>1. Step
    BY <1>4 DEF StepDone, StepFails, BatchDone,
                 Report, Ends, Recorded, runVars
  <2> QED
    BY <2>1, <1>8
<1>5. CASE SkipPhase \/ BlockPhase \/ ProbePhase \/ ProbeFails \/ ActPhase
  <2>1. Step
    BY <1>5 DEF SkipPhase, BlockPhase, ProbePhase, ProbeFails, ActPhase,
                 Report, Ends, Recorded, runVars
  <2> QED
    BY <2>1, <1>8
<1>6. CASE ReverifyDone \/ ReverifyFails \/ Rollback \/ RollbackFails
  <2>1. Step
    BY <1>6 DEF ReverifyDone, ReverifyFails, Rollback, RollbackFails,
                 Report, Ends, Recorded, runVars
  <2> QED
    BY <2>1, <1>8
<1>7. CASE ApplyDone \/ RecordMode \/ Stop \/ Upgrade
  <2>1. Step
    BY <1>7 DEF ApplyDone, RecordMode, Stop, Upgrade,
                 Report, Ends, Recorded, runVars
  <2> QED
    BY <2>1, <1>8
<1> QED
  BY <1>1, <1>2, <1>3, <1>4, <1>5, <1>6, <1>7 DEF Next

\* The variables that are tables.
Tables == host \in [Facts -> Levels] /\ outcome \in [Phases -> Results]

\* The types of the variables follow from their parts.
LEMMA TypeParts == Tables /\ Scalars /\ Lists /\ Todos => TypeOK
<1> SUFFICES ASSUME Tables, Scalars, Lists, Todos PROVE TypeOK
  OBVIOUS
<1>1. FactsOf(rest) \subseteq Phases
  BY Elements DEF Lists
<1>2. FactsOf(todo) \subseteq Facts \cup {"marker"}
  BY Elements DEF Todos
<1>3. failed \subseteq Phases
  BY DEF Lists, Done
<1> QED
  BY <1>1, <1>2, <1>3 DEF TypeOK, Scalars, Tables

\* The same after a step.
LEMMA TypePartsNext == Tables' /\ Scalars' /\ Lists' /\ Todos' => TypeOK'
  BY TypeParts, PTL

\* The host setup begins on.
LEMMA InitHolds ==
  ASSUME Init
  PROVE  IInv
<1> USE FactNames
<1>1. Fresh \in [Facts -> Levels]
  BY DEF Fresh, Levels
<1>2. PICK D \in Obstructions : host = [f \in Facts |-> IF f \in D THEN Obstructed(f) ELSE Fresh[f]]
  BY DEF Init, InitialHosts
<1>3. host \in [Facts -> Levels]
  <2>1. \A f : Obstructed(f) \in Levels
    BY DEF Obstructed, Levels
  <2> QED
    BY <1>1, <1>2, <2>1
<1>4. RunInv
  BY IdleRuns DEF Init, Idle
<1>5. Scalars
  <2>1. 0 \in 0..MaxFaults /\ 0 \in 0..MaxUpgrades
    BY SetupAssumption
  <2> QED
    BY <2>1 DEF Init, Scalars, Modes
<1>6. TypeOK
  <2>1. Tables
    BY <1>3 DEF Init, NoOutcome, Results, Tables
  <2> QED
    BY <1>4, <1>5, <2>1, TypeParts DEF RunInv
<1>7. EffectsFollow
  <2>1. \A r \in Pairs : /\ r[1] \in Facts
                         /\ r[1] \notin Prerequisites \cup {"opSubuid", "opSubgid"}
                         /\ r[1] \notin Obstacles
    BY DEF Pairs, Prerequisites, Obstacles
  <2>2. \A r \in Pairs : Fresh[r[1]] = "absent"
    BY <2>1 DEF Fresh
  <2>3. D \subseteq Obstacles
    BY <1>2 DEF Obstructions
  <2>4. \A r \in Pairs : host[r[1]] # "good"
    BY <1>2, <2>1, <2>2, <2>3
  <2> QED
    BY <2>4 DEF EffectsFollow
<1>8. UnharmedSetupSucceeds
  BY DEF Init, UnharmedSetupSucceeds
<1>9. GroupFirst
  <2>1. Fresh["opMember"] = "absent"
    BY DEF Fresh, Prerequisites
  <2>2. host["opMember"] = "good" => "opMember" \in D
    BY <1>2, <2>1
  <2>3. "opMember" \in D => "opGroup" \in D
    BY <1>2 DEF Obstructions
  <2>4. "opGroup" \in D => host["opGroup"] = "stale"
    BY <1>2 DEF Obstructed
  <2> QED
    BY <2>2, <2>3, <2>4 DEF Init, GroupFirst
<1> QED
  BY <1>4, <1>6, <1>7, <1>8, <1>9 DEF IInv, RunInv

\* Every step keeps the invariant.
LEMMA StepHolds ==
  ASSUME IInv, [Next]_vars
  PROVE  IInv'
<1>1. TypeOK /\ RunInv /\ EffectsFollow /\ GroupFirst /\ UnharmedSetupSucceeds
  BY DEF IInv, RunInv
<1>2. CASE Next
  <2>1. RunInv'
    BY <1>1, <1>2, RunStep
  <2>2. TypeOK'
    BY <1>1, <1>2, <2>1, HostStep, OutcomeStep, ScalarStep, TypePartsNext DEF RunInv, Tables
  <2>3. EffectsFollow' /\ GroupFirst' /\ UnharmedSetupSucceeds'
    BY <1>1, <1>2, EffectsStep, GroupStep, UnharmedStep
  <2> QED
    BY <2>1, <2>2, <2>3 DEF IInv, RunInv
<1>3. CASE UNCHANGED vars
  <2> USE <1>1, <1>3 DEF vars, runVars
  <2>0. Done' = Done
    BY DEF Done
  <2>1. TypeOK' /\ EffectsFollow' /\ GroupFirst' /\ UnharmedSetupSucceeds'
    BY DEF TypeOK, EffectsFollow, GroupFirst, UnharmedSetupSucceeds
  <2>2. Lists' /\ Todos'
    BY <2>0 DEF RunInv, Lists, Todos
  <2>3. PhasesSound' /\ BatchSound' /\ GateClear' /\ FailedSweepRevokes'
    BY <2>0 DEF RunInv, PhasesSound, BatchSound, GateClear, FailedSweepRevokes
  <2>4. StillAble'
    BY DEF RunInv, StillAble, NoRefusal
  <2> QED
    BY <2>1, <2>2, <2>3, <2>4 DEF IInv
<1> QED
  BY <1>2, <1>3

\* The inductive invariant holds in every reachable state: of any number of
\* setups, faults and upgrades.
THEOREM Invariance == Spec => []IInv
<1>1. Init => IInv
  BY InitHolds
<1>2. IInv /\ [Next]_vars => IInv'
  BY StepHolds
<1> QED
  BY <1>1, <1>2, PTL DEF Spec

\* The types of phase_runner.py and of the marker are kept.
THEOREM TypeCorrect == Spec => []TypeOK
<1>1. IInv => TypeOK
  BY DEF IInv
<1> QED
  BY <1>1, Invariance, PTL

\* A failed sweep takes the sudoers rule back, on every host and after any
\* number of faults.
THEOREM SweepRevokes == Spec => []FailedSweepRevokes
<1>1. IInv => FailedSweepRevokes
  BY DEF IInv
<1> QED
  BY <1>1, Invariance, PTL

\* Re-running is the way back: a setup that nothing goes wrong in, begun on
\* a host Servable describes, does not end with 1.
THEOREM SetupSucceeds == Spec => []UnharmedSetupSucceeds
<1>1. IInv => UnharmedSetupSucceeds
  BY DEF IInv
<1> QED
  BY <1>1, Invariance, PTL

-----------------------------------------------------------------------------
(* What commits the host, and what success means *)

\* When nothing is left and nothing failed, every phase went through.
LEMMA AllSound ==
  ASSUME TypeOK, RunInv, pc # "idle", ~update, rest = <<>>, failed = {}
  PROVE  InPlace(Base, mode, host)
<1>1. Base \subseteq Done /\ mode \in Modes
  BY ElementsOf DEF RunInv, Lists, TypeOK
<1>2. ASSUME NEW p \in Base, AppliesIn(p, mode) PROVE Sound(p, mode, host)
  BY <1>1, <1>2 DEF RunInv, PhasesSound
<1> QED
  BY <1>1, <1>2, SoundInPlace DEF InPlace

\* A gate with nothing to apply is one of operator-rootless, and everything
\* is in place.
LEMMA NothingLeft ==
  ASSUME TypeOK, RunInv, pc = "gate", ~SomethingToApply
  PROVE  mode = OR /\ InPlace(Base, mode, host) /\ \A f \in BatchProbed : host[f] = "good"
<1>1. Lists /\ GateClear /\ BatchSound /\ mode \in Modes /\ todo = <<>> /\ ~update
  BY DEF RunInv, TypeOK, SomethingToApply, Lists
<1>2. Base \subseteq FactsOf(rest) /\ Base \subseteq PhaseIds
  BY <1>1, NothingDone, PhasesAre DEF Lists, Base
<1>3. \A p \in FactsOf(rest) : AppliesIn(p, mode) => Probe(p, mode, host) # "MISSING"
  BY DEF SomethingToApply, Planned, Applicable
<1>4. mode = OR
  <2>1. "l3a" \in Base
    BY PhasesAre DEF Base, Extras, PhaseIds
  <2>2. mode = SU => AppliesIn("l3a", mode)
    BY DEF AppliesIn
  <2>3. Probe("l3a", mode, host) = "MISSING"
    BY <1>1, <1>2, <2>1, ProbeFacts
  <2> QED
    BY <1>1, <1>2, <1>3, <2>1, <2>2, <2>3 DEF Modes
<1>5. ASSUME NEW p \in Base, AppliesIn(p, mode)
      PROVE  Probe(p, mode, host) \in {"ALREADY_CORRECT", "MISSING"} /\ Correct(Act(p, mode), host)
  <2>1. Probe(p, mode, host) = "ALREADY_CORRECT"
    BY <1>1, <1>2, <1>3, <1>5, ProbeFacts DEF GateClear
  <2> QED
    BY <1>1, <1>2, <2>1, ProbeFacts
<1>6. InPlace(Base, mode, host)
  BY <1>5 DEF InPlace
<1>7. \A f \in BatchProbed : host[f] = "good"
  BY <1>1, <1>4, ElementsOf DEF BatchSound
<1> QED
  BY <1>4, <1>6, <1>7

\* The rule is installed by L3 alone, after all that comes before it.
LEMMA RuleLast ==
  ASSUME TypeOK, RunInv, Next, host["rule"] = "absent", host'["rule"] # "absent"
  PROVE  InPlace(Phases \ (Extras \cup {"l3", "l3a", "l8"}), SU, host)
<1> USE FactNames
<1>0. host \in [Facts -> Levels] /\ host' # host
  BY DEF TypeOK
<1>1. ~Rollback
  BY <1>0 DEF Rollback
<1>2. ~Stop
  <2> SUFFICES ASSUME Stop PROVE FALSE
    OBVIOUS
  <2>1. todo # <<>> /\ Head(todo) # "marker" /\ host' = Torn(host, Head(todo))
    BY <1>0 DEF Stop
  <2>2. Head(todo) \in Facts
    BY <2>1 DEF RunInv, Todos
  <2> QED
    BY <1>0, <2>1, <2>2, TornFacts
<1>3. ~Upgrade
  BY <1>0, StaleFacts DEF Upgrade
<1>4. StepDone
  BY <1>0, <1>1, <1>2, <1>3
     DEF Next, Begin, RefuseModeSwitch, PlanRefused, PlanFails, DryRun, PlanDone, NothingToApply,
         Proceed, Decline, NotAllowed, StepFails, BatchDone, SkipPhase, BlockPhase, ProbePhase,
         ProbeFails, ActPhase, ReverifyDone, ReverifyFails, RollbackFails, ApplyDone, RecordMode
<1>5. PICK f : f = Head(todo)
  OBVIOUS
<1>6. /\ Changed(f) /\ pc \in {"batch", "act"}
      /\ pc = "batch" => f \in BatchSteps
      /\ pc = "act" => Head(rest) \in PhaseIds /\ f \in FactsOf(Act(Head(rest), mode))
  BY <1>4, <1>5, StepFrame DEF StepDone
<1>7. f = "rule"
  BY <1>6 DEF Changed
<1>8. pc = "act" /\ Head(rest) = "l3" /\ mode \in Modes
  BY <1>6, <1>7, PhaseOfFact DEF BatchSteps, TypeOK
<1>9. /\ mode = SU
      /\ {"l0", "l1", "l2", "l2a", "l5", "l6", "l6a", "l65", "l7"} \subseteq Done \ failed
  BY <1>8, ChainDone DEF RunInv
<1>10. ASSUME NEW p \in Phases \ (Extras \cup {"l3", "l3a", "l8"}) PROVE Sound(p, SU, host)
  <2>1. p \in {"l0", "l1", "l2", "l2a", "l5", "l6", "l6a", "l65", "l7"}
    BY PhasesAre DEF PhaseIds, Extras
  <2>2. p \in Base /\ AppliesIn(p, SU)
    BY DEF Base, AppliesIn
  <2> QED
    BY <1>9, <2>1, <2>2 DEF RunInv, PhasesSound
<1>11. \A p \in Phases \ (Extras \cup {"l3", "l3a", "l8"}) : p \in Base
  BY DEF Base
<1> QED
  BY <1>10, <1>11, SoundInPlace DEF InPlace, Modes

\* A mode is recorded when all that belongs to it is there.
LEMMA ModeLast ==
  ASSUME TypeOK, RunInv, RunInv', Next, marker' # marker
  PROVE  /\ marker' = SU => InPlace(Base, SU, host)
         /\ marker' = OR => Unsatisfied(host, OR) = <<>>
<1>1. CASE StepDone
  <2>1. PICK f : f = Head(todo)
    OBVIOUS
  <2>2. f = "marker" /\ marker' = OR
    BY <1>1, <2>1 DEF StepDone
  <2>3. pc = "batch" /\ FactsOf(todo') = {} /\ host' = host /\ pc' = pc /\ mode' = mode
    BY <1>1, <2>1, <2>2, StepFrame DEF StepDone
  <2>4. mode = OR
    BY <2>3 DEF RunInv, Lists
  <2>5. \A g \in BatchProbed : host[g] = "good"
    BY <2>3, <2>4 DEF RunInv, BatchSound
  <2> QED
    BY <2>2, <2>5, UnsatisfiedNone DEF SU, OR
<1>2. CASE NothingToApply
  <2>1. mode = OR
    BY <1>2, NothingLeft DEF NothingToApply
  <2> QED
    BY <1>2, <2>1 DEF NothingToApply, Recorded, SU, OR
<1>3. CASE RecordMode
  <2>1. mode = SU /\ marker' = SU
    BY <1>3 DEF RecordMode, RunInv, Lists, Recorded
  <2>2. pc = "record" /\ ~update /\ rest = <<>> /\ failed = {}
    BY <1>3 DEF RecordMode, RunInv, Lists
  <2>3. InPlace(Base, mode, host)
    BY <2>2, AllSound
  <2> QED
    BY <2>1, <2>3 DEF SU, OR
<1> QED
  BY <1>1, <1>2, <1>3
     DEF Next, Begin, RefuseModeSwitch, PlanRefused, PlanFails, DryRun, PlanDone,
         Proceed, Decline, NotAllowed, StepFails, BatchDone, SkipPhase, BlockPhase, ProbePhase,
         ProbeFails, ActPhase, ReverifyDone, ReverifyFails, Rollback, RollbackFails, ApplyDone,
         Report, Stop, Upgrade

\* The rule is installed after everything before L3, and a mode is recorded
\* after everything that belongs to it.
THEOREM CommitsLast == Spec => CommitsComeLast
<1>1. IInv /\ IInv' /\ [Next]_vars =>
        [/\ (host["rule"] = "absent" /\ host'["rule"] # "absent") =>
              InPlace(Phases \ (Extras \cup {"l3", "l3a", "l8"}), SU, host)
         /\ (marker' # marker /\ marker' = SU) => InPlace(Phases \ Extras, SU, host)
         /\ (marker' # marker /\ marker' = OR) => Unsatisfied(host, OR) = <<>>]_vars
  <2> SUFFICES ASSUME IInv, IInv', Next
               PROVE  /\ (host["rule"] = "absent" /\ host'["rule"] # "absent") =>
                           InPlace(Phases \ (Extras \cup {"l3", "l3a", "l8"}), SU, host)
                      /\ (marker' # marker /\ marker' = SU) => InPlace(Phases \ Extras, SU, host)
                      /\ (marker' # marker /\ marker' = OR) => Unsatisfied(host, OR) = <<>>
    OBVIOUS
  <2>1. TypeOK /\ RunInv /\ RunInv'
    BY DEF IInv, RunInv
  <2>2. Base = Phases \ Extras
    BY DEF Base
  <2>3. (host["rule"] = "absent" /\ host'["rule"] # "absent") =>
          InPlace(Phases \ (Extras \cup {"l3", "l3a", "l8"}), SU, host)
    BY <2>1, RuleLast
  <2>4. (marker' # marker /\ marker' = SU) => InPlace(Base, SU, host)
    BY <2>1, ModeLast
  <2>5. (marker' # marker /\ marker' = OR) => Unsatisfied(host, OR) = <<>>
    BY <2>1, ModeLast
  <2> QED
    BY <2>2, <2>3, <2>4, <2>5
<1> QED
  BY <1>1, Invariance, PTL DEF Spec, CommitsComeLast

\* As long as nothing has gone wrong the effects no probe looks at are there,
\* too, when no step is left.
LEMMA EffectsToo ==
  ASSUME TypeOK, EffectsFollow, Settled, faults = 0, InPlace(Base, mode, host),
         NEW p \in Base, AppliesIn(p, mode), NEW f \in FactsOf(Act(p, mode))
  PROVE  host[f] = "good"
<1>0. p \in PhaseIds /\ p \notin Extras /\ mode \in Modes
  BY PhasesAre DEF Base, TypeOK
<1>1. \A g \in FactsOf(Act(p, mode)) \ Unprobed : host[g] = "good"
  BY DEF InPlace, Correct
<1>2. CASE f \in Unprobed
  <2>1. f \notin {"aideValid", "trustLoaded"}
    BY <1>0, PhaseOfFact DEF Extras
  <2>2. PICK r \in Pairs : f = r[2]
    BY <1>2, <2>1 DEF Unprobed, Pairs
  <2>3. r[1] \in FactsOf(Act(p, mode)) /\ r[1] \notin Unprobed
    <3>1. FactsOf(Act(p, mode)) \in {SUActs[p], ORActs[p]}
      BY <1>0, ActsAre DEF Modes
    <3> QED
      BY <1>0, <2>2, <3>1 DEF Pairs, Unprobed, PhaseIds, SUActs, ORActs
  <2>4. host[r[1]] = "good"
    BY <1>1, <2>3
  <2> QED
    BY <2>2, <2>4 DEF EffectsFollow, Settled
<1> QED
  BY <1>1, <1>2

\* What success means for the host.
LEMMA SuccessHolds ==
  ASSUME TypeOK, RunInv, EffectsFollow, Next, pc # "idle", exit' = "0", ~update
  PROVE  /\ host' = host /\ Settled
         /\ InPlace(Base, mode, host)
         /\ mode = OR => Unsatisfied(host, OR) = <<>>
<1>0. exit = "none" /\ mode \in Modes
  BY DEF RunInv, Lists, TypeOK
<1>1. CASE NothingToApply
  <2>1. InPlace(Base, mode, host) /\ \A f \in BatchProbed : host[f] = "good"
    BY <1>1, NothingLeft DEF NothingToApply
  <2> QED
    BY <1>1, <2>1, UnsatisfiedNone DEF NothingToApply, Settled
<1>2. CASE RecordMode
  <2>1. mode = SU /\ pc = "record" /\ rest = <<>> /\ failed = {}
    BY <1>2 DEF RecordMode, RunInv, Lists
  <2> QED
    BY <1>2, <2>1, AllSound DEF RecordMode, Settled, SU, OR
<1>3. CASE ApplyDone
  <2>1. pc = "apply" /\ rest = <<>> /\ failed = {} /\ mode = OR /\ host' = host
    BY <1>0, <1>3 DEF ApplyDone, Ends, Modes
  <2>2. \A f \in BatchProbed : host[f] = "good"
    BY <2>1 DEF RunInv, BatchSound
  <2> QED
    BY <2>1, <2>2, AllSound, UnsatisfiedNone DEF Settled
<1>4. CASE PlanRefused \/ PlanFails \/ DryRun \/ Decline \/ NotAllowed \/ Stop
  BY <1>4 DEF PlanRefused, PlanFails, DryRun, Decline, NotAllowed, Stop, Ends
<1>5. CASE StepFails
  BY <1>0, <1>5 DEF StepFails, Ends
<1>6. CASE PlanDone \/ Proceed \/ StepDone \/ BatchDone \/ SkipPhase \/ BlockPhase \/ ProbePhase
           \/ ProbeFails \/ ActPhase \/ ReverifyDone \/ ReverifyFails \/ Rollback \/ RollbackFails
  BY <1>0, <1>6 DEF PlanDone, Proceed, StepDone, BatchDone, SkipPhase, BlockPhase, ProbePhase,
                ProbeFails, ActPhase, ReverifyDone, ReverifyFails, Rollback, RollbackFails, Report
<1>7. CASE \/ \E m \in Modes, extras \in SUBSET Extras, upd \in BOOLEAN : Begin(m, extras, upd)
           \/ RefuseModeSwitch \/ Upgrade
  BY <1>7 DEF Begin, RefuseModeSwitch, Upgrade
<1> QED
  BY <1>1, <1>2, <1>3, <1>4, <1>5, <1>6, <1>7 DEF Next

\* A setup that reports success has put in place all that its mode probes
\* for; and until the first fault, the effects as well.
THEOREM SuccessReal == Spec => SuccessIsReal
<1>1. IInv /\ [Next]_vars =>
        [(pc # "idle" /\ exit' = "0" /\ ~update) =>
           /\ InPlace(Phases \ Extras, mode, host')
           /\ mode = OR => Unsatisfied(host', OR) = <<>>
           /\ faults = 0 => \A p \in Phases \ Extras :
                AppliesIn(p, mode) => \A f \in FactsOf(Act(p, mode)) : host'[f] = "good"]_vars
  <2> SUFFICES ASSUME IInv, Next, pc # "idle", exit' = "0", ~update
               PROVE  /\ InPlace(Phases \ Extras, mode, host')
                      /\ mode = OR => Unsatisfied(host', OR) = <<>>
                      /\ faults = 0 => \A p \in Phases \ Extras :
                           AppliesIn(p, mode) => \A f \in FactsOf(Act(p, mode)) : host'[f] = "good"
    OBVIOUS
  <2>1. TypeOK /\ RunInv /\ EffectsFollow
    BY DEF IInv, RunInv
  <2>2. Base = Phases \ Extras
    BY DEF Base
  <2>3. /\ host' = host /\ Settled /\ InPlace(Base, mode, host)
        /\ mode = OR => Unsatisfied(host, OR) = <<>>
    BY <2>1, SuccessHolds
  <2>4. ASSUME faults = 0, NEW p \in Base, AppliesIn(p, mode), NEW f \in FactsOf(Act(p, mode))
        PROVE  host[f] = "good"
    BY <2>1, <2>3, <2>4, EffectsToo
  <2> QED
    BY <2>2, <2>3, <2>4
<1> QED
  BY <1>1, Invariance, PTL DEF Spec, SuccessIsReal

-----------------------------------------------------------------------------
(* A setup comes to its end: the half of termination that is a safety property *)

\* How far a setup is, and within the apply pass the phase in hand.
StagesLeft(c) == CASE c = "idle" -> 0 [] c = "record" -> 1
                   [] c \in {"apply", "act", "rollback"} -> 2
                   [] c = "batch" -> 3 [] c = "gate" -> 4 [] c = "plan" -> 5
PartsLeft(c) == CASE c = "rollback" -> 0 [] c = "act" -> 1 [] OTHER -> 2

\* Less is left to do, in lexicographic order: stages, phases in the list, parts of
\* the phase in hand, steps of its act or of the batch.
LessLeft ==
  \/ StagesLeft(pc') < StagesLeft(pc)
  \/ /\ StagesLeft(pc') = StagesLeft(pc)
     /\ \/ Len(rest') < Len(rest)
        \/ /\ rest' = rest
           /\ \/ PartsLeft(pc') < PartsLeft(pc)
              \/ pc' = pc /\ Len(todo') < Len(todo)

\* Every step of a setup under way leaves less to do.
GoesForward == [][pc # "idle" => LessLeft]_vars

\* A list without its first element is shorter.
LEMMA Shorter ==
  ASSUME NEW T, NEW t \in Seq(T), t # <<>>
  PROVE  Len(Tail(t)) < Len(t)
  OBVIOUS

\* Every action of a running setup leaves less to do.
LEMMA StepGoesForward ==
  ASSUME TypeOK, Lists, Todos, Next, pc # "idle"
  PROVE  LessLeft
<1> USE DEF LessLeft, StagesLeft, PartsLeft
<1>1. CASE \E code : Ends(code)
  BY <1>1 DEF Ends, TypeOK
<1>2. CASE PlanDone \/ Proceed \/ BatchDone
  BY <1>2 DEF PlanDone, Proceed, BatchDone
<1>3. CASE StepDone
  <2>1. Len(todo') < Len(todo)
    BY <1>3, Shorter DEF StepDone, Todos
  <2> QED
    BY <1>3, <2>1 DEF StepDone
<1>4. CASE StepFails
  <2>1. CASE pc = "batch"
    <3>1. Ends("1")
      BY <1>4, <2>1 DEF StepFails
    <3> QED
      BY <1>1, <3>1, Zenon
  <2>2. CASE pc # "batch"
    BY <1>4, <2>2 DEF StepFails, runVars
  <2> QED
    BY <2>1, <2>2
<1>5. CASE \/ SkipPhase \/ BlockPhase \/ ProbePhase \/ ProbeFails \/ ReverifyDone
           \/ Rollback \/ RollbackFails
  <2>1. rest # <<>> /\ rest' = Tail(rest) /\ pc' = "apply" /\ pc \in {"apply", "act", "rollback"}
    BY <1>5 DEF SkipPhase, BlockPhase, ProbePhase, ProbeFails, ReverifyDone, Rollback,
                RollbackFails, Report, Lists
  <2>2. Len(rest') < Len(rest)
    BY <2>1, Shorter DEF Lists
  <2> QED
    BY <2>1, <2>2
<1>6. CASE ActPhase \/ ReverifyFails
  BY <1>6 DEF ActPhase, ReverifyFails, runVars
<1>7. CASE ApplyDone
  <2>1. pc = "apply" /\ (pc' = "record" \/ \E code : Ends(code))
    BY <1>7 DEF ApplyDone
  <2>2. CASE pc' = "record"
    BY <2>1, <2>2
  <2>3. CASE \E code : Ends(code)
    BY <1>1, <2>3, Zenon
  <2> QED
    BY <2>1, <2>2, <2>3
<1>8. CASE \/ \E m \in Modes, extras \in SUBSET Extras, upd \in BOOLEAN : Begin(m, extras, upd)
           \/ RefuseModeSwitch \/ Upgrade
  BY <1>8 DEF Begin, RefuseModeSwitch, Upgrade
<1> QED
  BY <1>1, <1>2, <1>3, <1>4, <1>5, <1>6, <1>7, <1>8
  DEF Next, PlanRefused, PlanFails, DryRun, NothingToApply, Decline, NotAllowed, RecordMode, Stop

\* run_apply_pass looks at every phase once and a phase is never begun again, neither
\* after a failed reverify nor after a rollback: whatever fails, every setup comes to
\* its end, the order of StagesLeft, phases, parts and steps being well-founded.
THEOREM SetupGoesForward == Spec => GoesForward
<1>1. IInv /\ [Next]_vars => [pc # "idle" => LessLeft]_vars
  <2> SUFFICES ASSUME IInv, Next, pc # "idle" PROVE LessLeft
    OBVIOUS
  <2> QED
    BY StepGoesForward DEF IInv
<1> QED
  BY <1>1, Invariance, PTL DEF Spec, GoesForward

-----------------------------------------------------------------------------
(* Doctor *)

CheckIds == {"sudo", "machinectl", "tlog", "user_exists", "systemd_machined",
             "machinectl_reachable", "docker_available", "docker_rootless", "runsc",
             "runsc_runtimeargs", "host_uds", "compose_project_name_collision", "setfacl",
             "acl_support", "cgroup_v2", "ancestor_traverse", "workspace_bridge_group_exists",
             "dev_in_workspace_bridge_group", "subuid_resolver_works",
             "pre_existing_instance_layout", "runsc_pinned_match", "dispatcher_sha_drift",
             "setup_invariants", "daemon_owner_sudo", "state_dir", "per_user_tree_exists"}

\* How many checks come before a check, one because of the other.
CheckRank(c) ==
  CASE c \in {"systemd_machined", "acl_support", "dev_in_workspace_bridge_group",
              "pre_existing_instance_layout"} -> 1
    [] c \in {"machinectl_reachable", "ancestor_traverse"} -> 2
    [] c \in {"docker_available", "compose_project_name_collision"} -> 3
    [] c \in {"docker_rootless", "runsc"} -> 4
    [] c \in {"runsc_runtimeargs", "host_uds"} -> 5
    [] OTHER -> 0

\* The registry has no cycle: a check depends on checks of a smaller rank.
LEMMA RegistryIsAcyclic ==
  /\ Checks = CheckIds
  /\ \A c \in CheckIds : CheckRank(c) \in 0..5
  /\ \A c \in CheckIds : \A d \in CheckDependsOn[c] : d \in CheckIds /\ CheckRank(d) < CheckRank(c)
<1>1. Checks = CheckIds
  BY DEF Checks, CheckIds, CheckDependsOn
<1>2. \A c \in CheckIds : CheckRank(c) \in 0..5
  BY DEF CheckRank
<1>3. ASSUME NEW c \in CheckIds, NEW d \in CheckDependsOn[c]
      PROVE  d \in CheckIds /\ CheckRank(d) < CheckRank(c)
  <2>1. CASE c \in {"docker_available", "docker_rootless", "runsc", "runsc_runtimeargs", "host_uds",
                    "compose_project_name_collision", "machinectl_reachable", "systemd_machined"}
    BY <2>1, <1>3 DEF CheckIds, CheckDependsOn, CheckRank
  <2>2. CASE c \in {"acl_support", "ancestor_traverse", "dev_in_workspace_bridge_group",
                    "pre_existing_instance_layout"}
    BY <2>2, <1>3 DEF CheckIds, CheckDependsOn, CheckRank
  <2>3. CASE c \in {"sudo", "machinectl", "tlog", "user_exists", "setfacl", "cgroup_v2",
                    "workspace_bridge_group_exists", "subuid_resolver_works", "runsc_pinned_match",
                    "dispatcher_sha_drift", "setup_invariants", "daemon_owner_sudo", "state_dir",
                    "per_user_tree_exists"}
    BY <2>3, <1>3 DEF CheckDependsOn
  <2> QED
    BY <2>1, <2>2, <2>3 DEF CheckIds
<1> QED
  BY <1>1, <1>2, <1>3

\* The result of check c when those it depends on have the results r.
CheckResult(r, c, m, h, t) ==
  IF ~CheckAppliesIn(c, m) THEN "skip"
  ELSE IF \E d \in CheckDependsOn[c] \cap Checks : Blocks(d, r[d], m) THEN "skip"
  ELSE RunCheck(c, m, h, t)

NextResults(r, m, h, t) == [c \in Checks |-> CheckResult(r, c, m, h, t)]

\* r and s agree on the checks of a rank less than n.
Agree(r, s, n) == \A c \in CheckIds : CheckRank(c) < n => r[c] = s[c]

\* Results that agree below a rank decide those of that rank.
LEMMA OneMoreRank ==
  ASSUME NEW r, NEW s, NEW m, NEW h, NEW t, NEW n \in Nat, Agree(r, s, n)
  PROVE  Agree(NextResults(r, m, h, t), NextResults(s, m, h, t), n + 1)
<1> SUFFICES ASSUME NEW c \in CheckIds, CheckRank(c) < n + 1
             PROVE  NextResults(r, m, h, t)[c] = NextResults(s, m, h, t)[c]
  BY DEF Agree
<1>1. CheckRank(c) \in 0..5 /\ c \in Checks
  BY RegistryIsAcyclic
<1>2. \A d \in CheckDependsOn[c] \cap Checks : r[d] = s[d]
  <2> SUFFICES ASSUME NEW d \in CheckDependsOn[c] PROVE r[d] = s[d]
    OBVIOUS
  <2>1. d \in CheckIds /\ CheckRank(d) < CheckRank(c)
    BY RegistryIsAcyclic
  <2>2. CheckRank(d) \in 0..5
    BY <2>1, RegistryIsAcyclic
  <2>3. CheckRank(d) < n
    BY <1>1, <2>1, <2>2
  <2> QED
    BY <2>1, <2>3 DEF Agree
<1>3. CheckResult(r, c, m, h, t) = CheckResult(s, c, m, h, t)
  BY <1>2 DEF CheckResult
<1> QED
  BY <1>1, <1>3 DEF NextResults

\* run_checks gives every check a result, from those of its dependencies.
LEMMA RunChecksIs ==
  ASSUME NEW m, NEW h, NEW t, NEW r, r = RunChecks(Checks, m, h, t)
  PROVE  r = NextResults(r, m, h, t)
<1> DEFINE r0 == [c \in Checks |-> "skip"]
           r1 == NextResults(r0, m, h, t)
           r2 == NextResults(r1, m, h, t)
           r3 == NextResults(r2, m, h, t)
           r4 == NextResults(r3, m, h, t)
           r5 == NextResults(r4, m, h, t)
           r6 == NextResults(r5, m, h, t)
           r7 == NextResults(r6, m, h, t)
<1>0. Agree(r0, r1, 0)
  BY RegistryIsAcyclic DEF Agree
<1> HIDE DEF r0
<1>1. Agree(r1, r2, 1)
  BY <1>0, OneMoreRank
<1> HIDE DEF r1
<1>2. Agree(r2, r3, 2)
  BY <1>1, OneMoreRank
<1> HIDE DEF r2
<1>3. Agree(r3, r4, 3)
  BY <1>2, OneMoreRank
<1> HIDE DEF r3
<1>4. Agree(r4, r5, 4)
  BY <1>3, OneMoreRank
<1> HIDE DEF r4
<1>5. Agree(r5, r6, 5)
  BY <1>4, OneMoreRank
<1>6. r6 = NextResults(r5, m, h, t)
  OBVIOUS
<1> HIDE DEF r5
<1>7. Agree(r6, r7, 6)
  BY <1>5, OneMoreRank
<1> HIDE DEF r6
<1>8. \A c \in Checks : r6[c] = r7[c]
  BY <1>7, RegistryIsAcyclic DEF Agree
<1>9. r6 = NextResults(r6, m, h, t)
  BY <1>6, <1>8 DEF NextResults
<1> DEFINE chosen == CHOOSE f : f = NextResults(f, m, h, t)
<1>10. chosen = NextResults(chosen, m, h, t)
  BY <1>9
<1>11. RunChecks(Checks, m, h, t) = chosen
  BY DEF RunChecks, NextResults, CheckResult
<1> QED
  BY <1>10, <1>11

\* What the exit code says of the results.
LEMMA ExitOf ==
  ASSUME NEW m \in Modes, NEW h, NEW t, NEW r, r = RunChecks(Checks, m, h, t)
  PROVE  /\ \A c \in CheckIds : r[c] = CheckResult(r, c, m, h, t)
         /\ DoctorExit(m, h, t) = "0" <=> \A c \in CheckIds : r[c] \notin {"fail", "raise"}
         /\ DoctorExit(m, h, t) = "1" <=> /\ \A c \in CheckIds : r[c] # "raise"
                                         /\ \E c \in CheckIds : r[c] = "fail"
<1>1. r = NextResults(r, m, h, t)
  BY RunChecksIs
<1>2. \A c \in CheckIds : r[c] = CheckResult(r, c, m, h, t)
  <2> SUFFICES ASSUME NEW c \in CheckIds PROVE r[c] = CheckResult(r, c, m, h, t)
    OBVIOUS
  <2>1. NextResults(r, m, h, t)[c] = CheckResult(r, c, m, h, t)
    BY RegistryIsAcyclic DEF NextResults
  <2> QED
    BY <1>1, <2>1
<1>3. CheckResults(m, h, t) = r
  BY DEF CheckResults, Modes, SU, OR, None
<1> DEFINE V == {CheckResults(m, h, t)[c] : c \in Checks}
<1>4. V = {r[c] : c \in CheckIds}
  BY <1>3, RegistryIsAcyclic
<1>5. /\ DoctorExit(m, h, t) = "0" <=> "raise" \notin V /\ "fail" \notin V
      /\ DoctorExit(m, h, t) = "1" <=> "raise" \notin V /\ "fail" \in V
  <2>1. DoctorExit(m, h, t) = IF "raise" \in V THEN "raise" ELSE IF "fail" \in V THEN "1" ELSE "0"
    BY Zenon DEF DoctorExit
  <2> HIDE DEF V
  <2> QED
    BY <2>1
<1> HIDE DEF V
<1> QED
  BY <1>2, <1>4, <1>5

\* What setup is content with, fact by fact, in separate-user.
LEMMA ContentSU ==
  ASSUME NEW h, InPlace(Base, SU, h)
  PROVE  /\ h["prereq"] = "good"
         /\ \A f \in {"machined", "user", "subid", "group", "member", "dockerd", "runtime",
                      "dispatcher", "manifest", "rule"} : h[f] = "good"
<1>1. \A p \in PhaseIds \ Extras : /\ Probe(p, SU, h) \in {"ALREADY_CORRECT", "MISSING"}
                                   /\ \A f \in SUActs[p] \ Unprobed : h[f] = "good"
  <2> SUFFICES ASSUME NEW p \in PhaseIds \ Extras
               PROVE  /\ Probe(p, SU, h) \in {"ALREADY_CORRECT", "MISSING"}
                      /\ \A f \in SUActs[p] \ Unprobed : h[f] = "good"
    OBVIOUS
  <2>1. Probe(p, SU, h) \in {"ALREADY_CORRECT", "MISSING"} /\ Correct(Act(p, SU), h)
    BY PhasesAre DEF InPlace, Base, AppliesIn
  <2> QED
    BY <2>1, ActsAre DEF Correct
<1>2. h["prereq"] = "good"
  <2>1. "l0" \in PhaseIds \ Extras /\ SU \in Modes
    BY DEF PhaseIds, Extras, Modes
  <2>2. ~Refuses("l0", SU, h)
    BY <1>1, <2>1, ProbeFacts
  <2> QED
    BY <2>2 DEF Refuses
<1>3. \A p \in {"l2", "l5", "l6", "l65", "l3"} : \A f \in SUActs[p] \ Unprobed : h[f] = "good"
  BY <1>1 DEF PhaseIds, Extras
<1>4. \A f \in {"machined", "user", "subid", "group", "member"} : h[f] = "good"
  BY <1>3 DEF SUActs, Unprobed
<1>5. \A f \in {"dockerd", "runtime", "dispatcher", "manifest", "rule"} : h[f] = "good"
  BY <1>3 DEF SUActs, Unprobed
<1> QED
  BY <1>2, <1>4, <1>5

\* The same in operator-rootless.
LEMMA ContentOR ==
  ASSUME NEW h \in [Facts -> Levels], InPlace(Base, OR, h), Unsatisfied(h, OR) = <<>>
  PROVE  /\ h["prereq"] = "good"
         /\ \A f \in {"opDockerd", "opRuntime", "opSubuid", "opSubgid", "opMember"} : h[f] = "good"
<1>1. \A p \in {"l0", "l5", "l6"} : /\ Probe(p, OR, h) \in {"ALREADY_CORRECT", "MISSING"}
                                    /\ \A f \in ORActs[p] \ Unprobed : h[f] = "good"
  <2> SUFFICES ASSUME NEW p \in {"l0", "l5", "l6"}
               PROVE  /\ Probe(p, OR, h) \in {"ALREADY_CORRECT", "MISSING"}
                      /\ \A f \in ORActs[p] \ Unprobed : h[f] = "good"
    OBVIOUS
  <2>1. p \in PhaseIds /\ p \in Base /\ AppliesIn(p, OR)
    BY PhasesAre DEF Base, AppliesIn, PhaseIds, Extras
  <2>2. Probe(p, OR, h) \in {"ALREADY_CORRECT", "MISSING"} /\ Correct(Act(p, OR), h)
    BY <2>1 DEF InPlace
  <2> QED
    BY <2>1, <2>2, ActsAre DEF Correct
<1>2. h["prereq"] = "good"
  <2>1. "l0" \in PhaseIds /\ OR \in Modes
    BY DEF PhaseIds, Modes
  <2>2. ~Refuses("l0", OR, h)
    BY <1>1, <2>1, ProbeFacts
  <2> QED
    BY <2>2 DEF Refuses
<1>3. h["opDockerd"] = "good" /\ h["opRuntime"] = "good"
  BY <1>1 DEF ORActs, SUActs, Unprobed
<1>4. FactsOf(Unsatisfied(h, OR)) = {}
  BY ElementsOf
<1>5. \A f \in BatchProbed : h[f] = "good"
  BY <1>4, UnsatisfiedHas
<1>6. h["opSubuid"] = "good" /\ h["opSubgid"] = "good" /\ h["opMember"] = "good"
  BY <1>5 DEF BatchProbed
<1> QED
  BY <1>2, <1>3, <1>6

\* The checks that read the operator's tree.
TreeChecks == {"acl_support", "ancestor_traverse", "state_dir", "per_user_tree_exists"}

\* Where all other checks are content, the operator's tree decides.
LEMMA TreeDecides ==
  ASSUME NEW h, NEW m \in Modes, NEW t, Holds(h, "prereq"), Holds(h, "kernel"),
         DaemonAnswers(m, h), m = SU => Holds(h, "user"),
         \A c \in CheckIds \ TreeChecks :
            CheckAppliesIn(c, m) => RunCheck(c, m, h, t) \notin {"fail", "raise"}
  PROVE  DoctorExit(m, h, t) = IF TreeReady(m, t) THEN "0" ELSE "1"
<1>1. PICK r : r = RunChecks(Checks, m, h, t)
  OBVIOUS
<1>2. \A c \in CheckIds : r[c] = CheckResult(r, c, m, h, t)
  BY <1>1, ExitOf
<1>3. \A c \in TreeChecks : c \in CheckIds /\ CheckAppliesIn(c, m)
  BY DEF TreeChecks, CheckIds, CheckAppliesIn
<1>4. /\ RunCheck("acl_support", m, h, t) = PassIf("home" \in t.dirs)
      /\ RunCheck("ancestor_traverse", m, h, t) =
           IF m = SU /\ ~t.open THEN IF t.projects THEN "fail" ELSE "skip"
           ELSE PassIf("instances" \in t.dirs)
      /\ RunCheck("state_dir", m, h, t) = PassIf("state" \in t.dirs)
      /\ RunCheck("per_user_tree_exists", m, h, t) = PassIf({"home", "config", "state"} \subseteq t.dirs)
  <2>1. RunCheck("acl_support", m, h, t) = PassIf("home" \in t.dirs)
    BY DEF RunCheck, AclSupport, PassIf
  <2>2. RunCheck("ancestor_traverse", m, h, t) = AncestorTraverse(m, h, t)
    BY DEF RunCheck
  <2>3. AncestorTraverse(m, h, t) = IF m = SU /\ ~t.open THEN IF t.projects THEN "fail" ELSE "skip"
                                    ELSE PassIf("instances" \in t.dirs)
    BY DEF AncestorTraverse
  <2>4. /\ RunCheck("state_dir", m, h, t) = PassIf("state" \in t.dirs)
        /\ RunCheck("per_user_tree_exists", m, h, t) = PassIf({"home", "config", "state"} \subseteq t.dirs)
    BY DEF RunCheck, StateDirWritable, PerUserTreeExists
  <2> QED
    BY <2>1, <2>2, <2>3, <2>4
<1>5. \A c \in TreeChecks : RunCheck(c, m, h, t) # "raise"
  BY <1>4 DEF TreeChecks, PassIf
<1>6. \A c \in CheckIds : r[c] # "raise"
  <2> SUFFICES ASSUME NEW c \in CheckIds PROVE CheckResult(r, c, m, h, t) # "raise"
    BY <1>2
  <2>1. CheckAppliesIn(c, m) => RunCheck(c, m, h, t) # "raise"
    BY <1>5
  <2> QED
    BY <2>1 DEF CheckResult
<1>7. ASSUME TreeReady(m, t) PROVE DoctorExit(m, h, t) = "0"
  <2>1. \A c \in TreeChecks : RunCheck(c, m, h, t) # "fail"
    <3>1. {"home", "config", "state"} \subseteq t.dirs /\ "home" \in t.dirs /\ "state" \in t.dirs
      BY <1>7 DEF TreeReady
    <3>2. RunCheck("ancestor_traverse", m, h, t) # "fail"
      BY <1>4, <1>7 DEF TreeReady, PassIf
    <3> QED
      BY <1>4, <3>1, <3>2 DEF TreeChecks, PassIf
  <2>2. ASSUME NEW c \in CheckIds PROVE CheckResult(r, c, m, h, t) # "fail"
    <3>1. CheckAppliesIn(c, m) => RunCheck(c, m, h, t) # "fail"
      BY <2>1
    <3> QED
      BY <3>1 DEF CheckResult
  <2> QED
    BY <1>1, <1>2, <1>6, <2>2, ExitOf
<1>8. ASSUME ~TreeReady(m, t) PROVE DoctorExit(m, h, t) = "1"
  <2>1. CASE ~({"home", "config", "state"} \subseteq t.dirs)
    <3>1. CheckDependsOn["per_user_tree_exists"] = {}
      BY DEF CheckDependsOn
    <3>2. r["per_user_tree_exists"] = "fail"
      BY <1>2, <1>3, <1>4, <2>1, <3>1 DEF CheckResult, PassIf, TreeChecks
    <3> QED
      BY <1>1, <1>3, <1>6, <3>2, ExitOf DEF TreeChecks
  <2>2. CASE {"home", "config", "state"} \subseteq t.dirs
    <3>1. /\ "setfacl" \in CheckIds /\ CheckAppliesIn("setfacl", m)
          /\ CheckDependsOn["setfacl"] = {}
          /\ CheckDependsOn["acl_support"] = {"setfacl"}
          /\ CheckDependsOn["ancestor_traverse"] = {"acl_support"}
      BY DEF CheckIds, CheckAppliesIn, CheckDependsOn
    <3>2. RunCheck("setfacl", m, h, t) = "pass"
      BY DEF RunCheck, BinaryFound, PassIf
    <3>3. r["setfacl"] = "pass"
      BY <1>2, <3>1, <3>2 DEF CheckResult
    <3>4. RunCheck("acl_support", m, h, t) = "pass"
      BY <1>4, <2>2 DEF PassIf
    <3>5. "acl_support" \in CheckIds /\ CheckAppliesIn("acl_support", m)
          /\ "ancestor_traverse" \in CheckIds /\ CheckAppliesIn("ancestor_traverse", m)
      BY <1>3 DEF TreeChecks
    <3>6. r["acl_support"] = "pass"
      BY <1>2, <3>1, <3>3, <3>4, <3>5 DEF CheckResult, Blocks
    <3>7. RunCheck("ancestor_traverse", m, h, t) = "fail"
      BY <1>4, <1>8, <2>2 DEF TreeReady, PassIf
    <3>8. r["ancestor_traverse"] = "fail"
      BY <1>2, <3>1, <3>5, <3>6, <3>7 DEF CheckResult, Blocks
    <3> QED
      BY <1>1, <1>6, <3>5, <3>8, ExitOf
  <2> QED
    BY <2>1, <2>2
<1> QED
  BY <1>7, <1>8

\* Where setup is content, no check but those of the operator's tree fails or raises.
LEMMA ContentIsGreen ==
  ASSUME NEW h \in [Facts -> Levels], NEW m \in Modes, NEW t, SetupContent(m, h),
         Holds(h, "machinectl"), Holds(h, "kernel"),
         (m = OR /\ h["opMember"] = "good") => h["opGroup"] = "good"
  PROVE  DoctorExit(m, h, t) = IF TreeReady(m, t) THEN "0" ELSE "1"
<1>0. InPlace(Base, m, h) /\ (m = OR => Unsatisfied(h, OR) = <<>>)
  BY DEF SetupContent, Base
<1>1. CASE m = SU
  <2>1. /\ h["prereq"] = "good"
        /\ h["machined"] = "good" /\ h["user"] = "good" /\ h["subid"] = "good"
        /\ h["group"] = "good" /\ h["member"] = "good" /\ h["dockerd"] = "good"
        /\ h["runtime"] = "good" /\ h["dispatcher"] = "good" /\ h["manifest"] = "good"
        /\ h["rule"] = "good" /\ h["machinectl"] = "good" /\ h["kernel"] = "good"
    BY <1>0, <1>1, ContentSU DEF Holds
  <2>2. Crosses(h) /\ DaemonAnswers(m, h) /\ RunscRegistered(m, h) = "pass"
    BY <1>1, <2>1 DEF Crosses, DaemonAnswers, RunscRegistered, PassIf, Holds, Fact
  <2>3. ASSUME NEW c \in CheckIds \ TreeChecks PROVE RunCheck(c, m, h, t) \notin {"fail", "raise"}
    <3>1. CASE c \in {"sudo", "tlog", "setfacl", "machinectl", "user_exists", "systemd_machined",
                      "machinectl_reachable", "docker_available", "docker_rootless", "runsc",
                      "cgroup_v2"}
      BY <2>1, <2>2, <3>1
         DEF RunCheck, BinaryFound, MachinectlFound, UserExists, MachinedActive,
             MachinectlReachable, DockerAvailable, CgroupV2, PassIf, Holds
    <3>2. CASE c \in {"workspace_bridge_group_exists", "dev_in_workspace_bridge_group",
                      "subuid_resolver_works"}
      BY <1>1, <2>1, <3>2
         DEF RunCheck, BridgeGroup, BridgeMember, SubuidResolver, PassIf, Holds, Fact, SU, OR
    <3>3. CASE c \in {"runsc_pinned_match", "dispatcher_sha_drift", "setup_invariants",
                      "daemon_owner_sudo"}
      BY <2>1, <3>3 DEF RunCheck, PinnedMatch, ShaDrift, SetupInvariants, DaemonOwnerSudo, Holds
    <3>4. CASE c \in {"runsc_runtimeargs", "host_uds", "compose_project_name_collision",
                      "pre_existing_instance_layout"}
      BY <3>4 DEF RunCheck, RuntimeArgs, ProjectCollision, InstanceLayout
    <3> QED
      BY <3>1, <3>2, <3>3, <3>4 DEF CheckIds, TreeChecks
  <2>4. Holds(h, "prereq") /\ Holds(h, "user")
    BY <2>1 DEF Holds
  <2> QED
    BY <2>2, <2>3, <2>4, TreeDecides
<1>2. CASE m = OR
  <2>1. /\ h["prereq"] = "good"
        /\ h["opDockerd"] = "good" /\ h["opRuntime"] = "good" /\ h["opSubuid"] = "good"
        /\ h["opSubgid"] = "good" /\ h["opMember"] = "good" /\ h["opGroup"] = "good"
        /\ h["machinectl"] = "good" /\ h["kernel"] = "good"
    BY <1>0, <1>2, ContentOR DEF Holds
  <2>2. DaemonAnswers(m, h) /\ RunscRegistered(m, h) = "pass"
    BY <1>2, <2>1 DEF DaemonAnswers, RunscRegistered, PassIf, Holds, Fact, SU, OR
  <2>3. ASSUME NEW c \in CheckIds \ TreeChecks, CheckAppliesIn(c, m)
        PROVE  RunCheck(c, m, h, t) \notin {"fail", "raise"}
    <3>0. c \notin {"user_exists", "systemd_machined", "machinectl_reachable", "dispatcher_sha_drift"}
      BY <1>2, <2>3 DEF CheckAppliesIn, SU, OR
    <3>1. CASE c \in {"sudo", "tlog", "setfacl", "machinectl", "docker_available",
                      "docker_rootless", "runsc", "cgroup_v2"}
      BY <2>1, <2>2, <3>1
         DEF RunCheck, BinaryFound, MachinectlFound, DockerAvailable, CgroupV2, PassIf, Holds
    <3>2. CASE c \in {"workspace_bridge_group_exists", "dev_in_workspace_bridge_group",
                      "subuid_resolver_works"}
      BY <1>2, <2>1, <3>2
         DEF RunCheck, BridgeGroup, BridgeMember, SubuidResolver, PassIf, Holds, Fact, SU, OR
    <3>3. CASE c \in {"runsc_pinned_match", "setup_invariants", "daemon_owner_sudo"}
      BY <3>3 DEF RunCheck, PinnedMatch, SetupInvariants, DaemonOwnerSudo
    <3>4. CASE c \in {"runsc_runtimeargs", "host_uds", "compose_project_name_collision",
                      "pre_existing_instance_layout"}
      BY <3>4 DEF RunCheck, RuntimeArgs, ProjectCollision, InstanceLayout
    <3> QED
      BY <3>0, <3>1, <3>2, <3>3, <3>4 DEF CheckIds, TreeChecks
  <2>4. Holds(h, "prereq") /\ m # SU
    BY <1>2, <2>1 DEF Holds, SU, OR
  <2> QED
    BY <2>2, <2>3, <2>4, TreeDecides
<1> QED
  BY <1>1, <1>2 DEF Modes

\* Without a failure no check that the sandbox needs is skipped.
LEMMA GreenIsUsable ==
  ASSUME NEW h, NEW t, NEW m \in Modes, DoctorExit(m, h, t) = "0"
  PROVE  Usable(m, h)
<1>1. PICK r : r = RunChecks(Checks, m, h, t)
  OBVIOUS
<1>2. /\ \A c \in CheckIds : r[c] = CheckResult(r, c, m, h, t)
      /\ \A c \in CheckIds : r[c] \notin {"fail", "raise"}
  BY <1>1, ExitOf
<1>3. ASSUME NEW c \in CheckIds, CheckAppliesIn(c, m),
             \A d \in CheckDependsOn[c] : CheckAppliesIn(d, m) => r[d] = "pass"
      PROVE  RunCheck(c, m, h, t) \notin {"fail", "raise"} /\ r[c] = RunCheck(c, m, h, t)
  <2>1. \A d \in CheckDependsOn[c] \cap Checks : ~Blocks(d, r[d], m)
    BY <1>3 DEF Blocks
  <2>2. r[c] = RunCheck(c, m, h, t)
    BY <1>2, <1>3, <2>1 DEF CheckResult
  <2> QED
    BY <1>2, <2>2
<1>4. r["sudo"] = "pass" /\ r["machinectl"] = "pass"
  <2>1. \A c \in {"sudo", "machinectl"} : c \in CheckIds /\ CheckAppliesIn(c, m) /\ CheckDependsOn[c] = {}
    BY DEF CheckIds, CheckAppliesIn, CheckDependsOn
  <2>2. \A c \in {"sudo", "machinectl"} :
          RunCheck(c, m, h, t) \notin {"fail", "raise"} /\ r[c] = RunCheck(c, m, h, t)
    BY <1>3, <2>1
  <2> QED
    BY <2>2 DEF RunCheck, BinaryFound, MachinectlFound, PassIf
<1>5. r["machinectl_reachable"] = "pass" \/ m = OR
  <2> SUFFICES ASSUME m = SU PROVE r["machinectl_reachable"] = "pass"
    BY DEF Modes
  <2>1. r["user_exists"] = "pass"
    <3>1. "user_exists" \in CheckIds /\ CheckAppliesIn("user_exists", m)
          /\ CheckDependsOn["user_exists"] = {}
      BY DEF CheckIds, CheckAppliesIn, CheckDependsOn
    <3>2. RunCheck("user_exists", m, h, t) # "fail" /\ r["user_exists"] = RunCheck("user_exists", m, h, t)
      BY <1>3, <3>1
    <3> QED
      BY <3>2 DEF RunCheck, UserExists, PassIf
  <2>2. r["systemd_machined"] = "pass"
    <3>1. "systemd_machined" \in CheckIds /\ CheckAppliesIn("systemd_machined", m)
          /\ CheckDependsOn["systemd_machined"] = {"machinectl"}
      BY DEF CheckIds, CheckAppliesIn, CheckDependsOn
    <3>2. /\ RunCheck("systemd_machined", m, h, t) # "fail"
          /\ r["systemd_machined"] = RunCheck("systemd_machined", m, h, t)
      BY <1>3, <1>4, <3>1
    <3> QED
      BY <3>2 DEF RunCheck, MachinedActive, PassIf
  <2>3. "machinectl_reachable" \in CheckIds /\ CheckAppliesIn("machinectl_reachable", m)
        /\ CheckDependsOn["machinectl_reachable"] =
             {"sudo", "machinectl", "user_exists", "systemd_machined"}
    BY DEF CheckIds, CheckAppliesIn, CheckDependsOn
  <2>4. /\ RunCheck("machinectl_reachable", m, h, t) # "fail"
        /\ r["machinectl_reachable"] = RunCheck("machinectl_reachable", m, h, t)
    BY <1>3, <1>4, <2>1, <2>2, <2>3
  <2> QED
    BY <2>4 DEF RunCheck, MachinectlReachable, PassIf
<1>6. r["docker_available"] = "pass" /\ DaemonAnswers(m, h)
  <2>1. "docker_available" \in CheckIds /\ CheckAppliesIn("docker_available", m)
        /\ CheckDependsOn["docker_available"] = {"machinectl_reachable"}
    BY DEF CheckIds, CheckAppliesIn, CheckDependsOn
  <2>2. CheckAppliesIn("machinectl_reachable", m) => r["machinectl_reachable"] = "pass"
    BY <1>5 DEF CheckAppliesIn, SU, OR
  <2>3. /\ RunCheck("docker_available", m, h, t) # "fail"
        /\ r["docker_available"] = RunCheck("docker_available", m, h, t)
    BY <1>3, <2>1, <2>2
  <2> QED
    BY <2>3 DEF RunCheck, DockerAvailable, PassIf
<1>7. Holds(h, Fact(m, "runtime", "opRuntime"))
  <2>1. "runsc" \in CheckIds /\ CheckAppliesIn("runsc", m)
        /\ CheckDependsOn["runsc"] = {"docker_available"}
    BY DEF CheckIds, CheckAppliesIn, CheckDependsOn
  <2>2. RunCheck("runsc", m, h, t) # "fail"
    BY <1>3, <1>6, <2>1
  <2> QED
    BY <2>2 DEF RunCheck, RunscRegistered, PassIf
<1>8. Holds(h, Fact(m, "group", "opGroup")) /\ r["workspace_bridge_group_exists"] = "pass"
  <2>1. "workspace_bridge_group_exists" \in CheckIds
        /\ CheckAppliesIn("workspace_bridge_group_exists", m)
        /\ CheckDependsOn["workspace_bridge_group_exists"] = {}
    BY DEF CheckIds, CheckAppliesIn, CheckDependsOn
  <2>2. /\ RunCheck("workspace_bridge_group_exists", m, h, t) \notin {"fail", "raise"}
        /\ r["workspace_bridge_group_exists"] = RunCheck("workspace_bridge_group_exists", m, h, t)
    BY <1>3, <2>1
  <2>3. RunCheck("workspace_bridge_group_exists", m, h, t) = BridgeGroup(m, h)
    BY DEF RunCheck
  <2> QED
    BY <2>2, <2>3 DEF BridgeGroup, PassIf, Holds
<1>9. Holds(h, Fact(m, "member", "opMember"))
  <2>1. "dev_in_workspace_bridge_group" \in CheckIds
        /\ CheckAppliesIn("dev_in_workspace_bridge_group", m)
        /\ CheckDependsOn["dev_in_workspace_bridge_group"] = {"workspace_bridge_group_exists"}
    BY DEF CheckIds, CheckAppliesIn, CheckDependsOn
  <2>2. RunCheck("dev_in_workspace_bridge_group", m, h, t) # "fail"
    BY <1>3, <1>8, <2>1
  <2> QED
    BY <2>2 DEF RunCheck, BridgeMember, PassIf
<1> QED
  BY <1>6, <1>7, <1>8, <1>9 DEF Usable

\* On a host setup would not change, whatever setups before have done, doctor's
\* exit code is 0 where init has made the operator's tree and 1 elsewhere.
THEOREM DoctorAgreesWithSetup == Spec => []DoctorAgrees
<1>1. IInv => DoctorAgrees
  <2> SUFFICES ASSUME IInv, marker # None, SetupContent(marker, host),
                      Holds(host, "machinectl"), Holds(host, "kernel"),
                      marker = OR => host["opGroup"] # "stale", NEW s \in Sites
               PROVE  DoctorExit(marker, host, s) = IF TreeReady(marker, s) THEN "0" ELSE "1"
    BY DEF DoctorAgrees
  <2>1. /\ host \in [Facts -> Levels] /\ marker \in Modes
        /\ host["opMember"] = "good" => host["opGroup"] \in {"stale", "good"}
    BY DEF IInv, TypeOK, GroupFirst
  <2>2. (marker = OR /\ host["opMember"] = "good") => host["opGroup"] = "good"
    BY <2>1
  <2> QED
    BY <2>1, <2>2, ContentIsGreen
<1> QED
  BY <1>1, Invariance, PTL

\* A green doctor means that a sandbox can be run on the host, whatever the
\* operator's tree is like.
THEOREM GreenDoctorMeansUsable == Spec => []GreenMeansUsable
<1>1. IInv => GreenMeansUsable
  BY GreenIsUsable DEF IInv, TypeOK, GreenMeansUsable
<1> QED
  BY <1>1, Invariance, PTL

=============================================================================
