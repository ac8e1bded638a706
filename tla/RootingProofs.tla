---------------------------- MODULE RootingProofs ----------------------------
(***************************************************************************)
(* The collector and any handler whatever: as long as a handler uses only  *)
(* operands it was given and that are still there (LiveOperands, which the *)
(* run rooting finds of each of 266 primitives), the stack, the roots and  *)
(* every object hold allocated objects only (TypeOK).  That is so for any  *)
(* table of primitives, any size of the object table and any number of     *)
(* rounds.  What makes it hold is that marking reaches everything: Reach   *)
(* goes MaxHandle rounds, and a round that marks nothing new ends it.      *)
(***************************************************************************)
EXTENDS Rooting, FiniteSetTheorems, SequenceTheorems, WellFoundedInduction, TLAPS

LEMMA LeastNumber ==
    ASSUME NEW T \in SUBSET Nat, T # {}
    PROVE  \E x \in T : \A y \in T : x <= y
<1>1. \E R : IsWellFoundedOn(R, Nat) /\ \A x, y \in Nat : <<y, x>> \in R <=> y < x
  <2>1. \A x, y \in Nat : <<y, x>> \in OpToRel(<, Nat) <=> y < x
    BY DEF OpToRel
  <2> QED BY <2>1, NatLessThanWellFounded
<1>2. PICK R : IsWellFoundedOn(R, Nat) /\ \A x, y \in Nat : <<y, x>> \in R <=> y < x
  BY <1>1
<1>3. PICK x \in T : \A y \in T : <<y, x>> \notin R
  BY <1>2, WFMin
<1>4. \A y \in T : ~(y < x)
  BY <1>2, <1>3
<1>5. QED BY <1>4

------------------------------------------------------------------------------
(* Marking.                                                                *)

Marked(hp, S) == S \cup ((UNION {hp[h] : h \in S}) \cap DOMAIN hp)

(* f is the sets marked after 0 .. n rounds.                               *)
Rounds(hp, f, from, n) ==
    f = [i \in 0 .. n |-> IF i = 0 THEN from \cap DOMAIN hp ELSE Marked(hp, f[i - 1])]

LEMMA RoundsAre ==
    ASSUME NEW hp, NEW from, NEW n \in Nat, NEW f, Rounds(hp, f, from, n)
    PROVE  /\ f[0] = from \cap DOMAIN hp
           /\ \A i \in 1 .. n : i - 1 \in 0 .. n /\ f[i] = Marked(hp, f[i - 1])
<1>1. \A i \in 0 .. n : f[i] = IF i = 0 THEN from \cap DOMAIN hp ELSE Marked(hp, f[i - 1])
  BY Zenon DEF Rounds
<1>2. 0 \in 0 .. n /\ \A i \in 1 .. n : i \in 0 .. n /\ i # 0 /\ i - 1 \in 0 .. n
  OBVIOUS
<1>3. QED BY <1>1, <1>2, Zenon

LEMMA OneMoreRound ==
    ASSUME NEW hp, NEW from, NEW n \in Nat, NEW f, Rounds(hp, f, from, n)
    PROVE  \E g : Rounds(hp, g, from, n + 1)
<1>0. f[0] = from \cap DOMAIN hp /\ \A i \in 1 .. n : f[i] = Marked(hp, f[i - 1])
  BY RoundsAre
<1> DEFINE g == [i \in 0 .. n + 1 |-> IF i = n + 1 THEN Marked(hp, f[n]) ELSE f[i]]
<1>1. ASSUME NEW i \in 0 .. n + 1
      PROVE  g[i] = IF i = 0 THEN from \cap DOMAIN hp ELSE Marked(hp, g[i - 1])
  <2>1. CASE i = 0
    <3>1. g[0] = f[0]
      OBVIOUS
    <3>2. QED BY <1>0, <2>1, <3>1
  <2>2. CASE i \in 1 .. n
    <3>1. g[i] = f[i] /\ g[i - 1] = f[i - 1]
      BY <2>2
    <3>2. i # 0
      BY <2>2
    <3> HIDE DEF g
    <3>3. f[i] = Marked(hp, f[i - 1])
      BY <1>0, <2>2, Zenon
    <3>4. QED BY <3>1, <3>2, <3>3
  <2>3. CASE i = n + 1
    <3>1. g[i] = Marked(hp, f[n]) /\ g[i - 1] = f[n]
      BY <2>3
    <3>2. QED BY <2>3, <3>1
  <2>4. QED BY <2>1, <2>2, <2>3
<1>2. g = [i \in 0 .. n + 1 |-> g[i]]
  OBVIOUS
<1> HIDE DEF g
<1>3. Rounds(hp, g, from, n + 1)
  BY <1>1, <1>2 DEF Rounds
<1>4. QED BY <1>3

LEMMA RoundsExist ==
    ASSUME NEW hp, NEW from, NEW n \in Nat
    PROVE  \E f : Rounds(hp, f, from, n)
<1> DEFINE T == {m \in Nat : ~ \E f : Rounds(hp, f, from, m)}
<1>1. SUFFICES ASSUME T # {} PROVE FALSE
  OBVIOUS
<1>2. PICK m \in T : \A k \in T : m <= k
  BY <1>1, LeastNumber
<1>3. CASE m = 0
  <2> DEFINE f == [i \in 0 .. 0 |-> from \cap DOMAIN hp]
  <2>1. f = [i \in 0 .. 0 |-> IF i = 0 THEN from \cap DOMAIN hp ELSE Marked(hp, f[i - 1])]
    OBVIOUS
  <2>2. Rounds(hp, f, from, 0)
    BY <2>1 DEF Rounds
  <2>3. QED BY <1>2, <1>3, <2>2
<1>4. CASE m # 0
  <2>1. m - 1 \in Nat /\ m - 1 \notin T /\ m = (m - 1) + 1
    BY <1>2, <1>4
  <2>2. PICK f : Rounds(hp, f, from, m - 1)
    BY <2>1
  <2>3. \E g : Rounds(hp, g, from, (m - 1) + 1)
    BY <2>1, <2>2, OneMoreRound
  <2>4. QED BY <1>2, <2>1, <2>3
<1>5. QED BY <1>3, <1>4

(* Reach is the set marked after MaxHandle rounds.                         *)
LEMMA ReachIs ==
    ASSUME NEW from
    PROVE  \E f : Rounds(heap, f, from, MaxHandle) /\ Reach(from) = f[MaxHandle]
<1> DEFINE Equation(f) ==
      f = [n \in 0 .. MaxHandle |->
             IF n = 0 THEN from \cap DOMAIN heap
             ELSE LET g == f[n - 1] IN g \cup ((UNION {heap[h] : h \in g}) \cap DOMAIN heap)]
    grow == CHOOSE f : Equation(f)
<1>1. \A f : Equation(f) <=> Rounds(heap, f, from, MaxHandle)
  BY DEF Rounds, Marked
<1>2. \E f : Equation(f)
  BY <1>1, RoundsExist, RootingAssumption
<1>3. Equation(grow)
  BY <1>2
<1>4. Reach(from) = grow[MaxHandle]
  BY DEF Reach
<1>5. QED BY <1>1, <1>3, <1>4

Closed(hp) == DOMAIN hp \subseteq Handles /\ \A h \in DOMAIN hp : hp[h] \subseteq DOMAIN hp

LEMMA RoundsGrow ==
    ASSUME NEW hp, Closed(hp), NEW from, NEW n \in Nat, NEW f, Rounds(hp, f, from, n), NEW i \in 0 .. n
    PROVE  f[i] \subseteq DOMAIN hp /\ f[0] \subseteq f[i]
<1> DEFINE T == {k \in 0 .. n : ~(f[k] \subseteq DOMAIN hp /\ f[0] \subseteq f[k])}
<1>1. SUFFICES ASSUME T # {} PROVE FALSE
  OBVIOUS
<1>2. PICK k \in T : \A j \in T : k <= j
  <2>1. T \subseteq Nat
    OBVIOUS
  <2>2. QED BY <1>1, <2>1, LeastNumber
<1>3. k \in 0 .. n /\ ~(f[k] \subseteq DOMAIN hp /\ f[0] \subseteq f[k])
  BY <1>2
<1>4. k # 0
  <2>1. f[0] = from \cap DOMAIN hp
    BY RoundsAre
  <2>2. QED BY <1>3, <2>1
<1>5. k \in 1 .. n /\ k - 1 \in 0 .. n
  BY <1>3, <1>4
<1>6. f[k - 1] \subseteq DOMAIN hp /\ f[0] \subseteq f[k - 1]
  <2>1. ~(k <= k - 1)
    BY <1>5
  <2>2. k - 1 \notin T
    BY <1>2, <2>1
  <2>3. QED BY <1>5, <2>2
<1>7. f[k] = Marked(hp, f[k - 1])
  BY <1>5, RoundsAre
<1>8. f[k] \subseteq DOMAIN hp /\ f[0] \subseteq f[k]
  BY <1>6, <1>7 DEF Marked
<1>9. QED BY <1>3, <1>8

(* A round that marks nothing new is the last one that could.              *)
LEMMA RoundsEnd ==
    ASSUME NEW hp, NEW from, NEW n \in Nat, NEW f, Rounds(hp, f, from, n), NEW k \in 1 .. n, f[k] = f[k - 1]
    PROVE  Marked(hp, f[n]) = f[n]
<1>1. Marked(hp, f[k]) = f[k]
  BY RoundsAre
<1> DEFINE T == {i \in k .. n : f[i] # f[k]}
<1>2. SUFFICES ASSUME T # {} PROVE FALSE
  BY <1>1
<1>3. PICK i \in T : \A j \in T : i <= j
  <2>1. T \subseteq Nat
    OBVIOUS
  <2>2. QED BY <1>2, <2>1, LeastNumber
<1>4. i # k
  BY <1>3
<1>5. i - 1 \in k .. n /\ i - 1 \notin T /\ i \in 1 .. n
  BY <1>3, <1>4
<1>6. f[i - 1] = f[k] /\ f[i] = Marked(hp, f[i - 1])
  BY <1>5, RoundsAre
<1>7. QED BY <1>1, <1>3, <1>6

LEMMA HeapFinite ==
    ASSUME NEW hp, Closed(hp), NEW S, S \subseteq DOMAIN hp
    PROVE  IsFiniteSet(S) /\ Cardinality(S) \in Nat /\ Cardinality(S) <= MaxHandle
<1>1. IsFiniteSet(Handles) /\ Cardinality(Handles) = MaxHandle
  BY RootingAssumption, FS_Interval DEF Handles
<1>2. S \subseteq Handles
  BY DEF Closed
<1>3. QED BY <1>1, <1>2, FS_Subset, FS_CardinalityType

(* Every round marks one more object, or the marking is over.              *)
LEMMA MarkingEnds ==
    ASSUME NEW hp, Closed(hp), NEW from, NEW f, Rounds(hp, f, from, MaxHandle)
    PROVE  Marked(hp, f[MaxHandle]) = f[MaxHandle]
<1>0. MaxHandle \in Nat
  BY RootingAssumption
<1> DEFINE T == {i \in 0 .. MaxHandle : Cardinality(f[i]) < i}
<1>1. \A i \in 0 .. MaxHandle : /\ f[i] \subseteq DOMAIN hp /\ IsFiniteSet(f[i])
                                /\ Cardinality(f[i]) \in Nat /\ Cardinality(f[i]) <= MaxHandle
  BY <1>0, RoundsGrow, HeapFinite
<1>2. CASE T # {}
  <2>1. PICK k \in T : \A j \in T : k <= j
    <3>1. T \subseteq Nat
      OBVIOUS
    <3>2. QED BY <1>2, <3>1, LeastNumber
  <2>2. k # 0
    BY <1>0, <1>1, <2>1
  <2>3. k \in 1 .. MaxHandle /\ k - 1 \in 0 .. MaxHandle /\ k - 1 \notin T
    BY <1>0, <2>1, <2>2
  <2>4. Cardinality(f[k - 1]) >= k - 1 /\ Cardinality(f[k]) < k
    BY <1>0, <1>1, <2>1, <2>3
  <2>5. f[k - 1] \subseteq f[k]
    <3>1. f[k] = Marked(hp, f[k - 1])
      BY <1>0, <2>3, RoundsAre
    <3>2. QED BY <3>1 DEF Marked
  <2>6. f[k - 1] = f[k]
    <3>1. IsFiniteSet(f[k]) /\ Cardinality(f[k]) \in Nat /\ Cardinality(f[k - 1]) \in Nat
      BY <1>1, <2>3
    <3>2. f[k - 1] # f[k] => Cardinality(f[k - 1]) < Cardinality(f[k])
      BY <2>5, <3>1, FS_Subset
    <3>3. QED BY <2>3, <2>4, <3>1, <3>2
  <2>7. QED BY <1>0, <2>3, <2>6, RoundsEnd
<1>3. CASE T = {}
  <2>1. MaxHandle \in 0 .. MaxHandle /\ MaxHandle \notin T
    BY <1>0, <1>3
  <2>2. Cardinality(f[MaxHandle]) = MaxHandle
    BY <1>0, <1>1, <2>1
  <2>3. f[MaxHandle] = DOMAIN hp
    <3> DEFINE all == DOMAIN hp
               last == f[MaxHandle]
    <3>1. /\ last \in SUBSET all /\ IsFiniteSet(all) /\ Cardinality(last) = MaxHandle
          /\ Cardinality(all) \in Nat /\ Cardinality(all) <= MaxHandle
      BY <1>1, <2>1, <2>2, HeapFinite
    <3> HIDE DEF all, last
    <3>2. Cardinality(last) <= Cardinality(all)
      BY <3>1, FS_Subset
    <3>3. last = all
      BY <1>0, <3>1, <3>2, FS_Subset
    <3>4. QED BY <3>3 DEF all, last
  <2>4. QED BY <2>3 DEF Marked, Closed
<1>4. QED BY <1>2, <1>3

(* What is reached is allocated, holds what it was reached from, and what  *)
(* it holds is reached.                                                    *)
LEMMA ReachFacts ==
    ASSUME Closed(heap), NEW from
    PROVE  /\ Reach(from) \subseteq DOMAIN heap
           /\ from \cap DOMAIN heap \subseteq Reach(from)
           /\ \A h \in Reach(from) : heap[h] \subseteq Reach(from)
<1>0. MaxHandle \in Nat /\ MaxHandle \in 0 .. MaxHandle
  BY RootingAssumption
<1>1. PICK f : Rounds(heap, f, from, MaxHandle) /\ Reach(from) = f[MaxHandle]
  BY ReachIs
<1>2. f[MaxHandle] \subseteq DOMAIN heap /\ f[0] \subseteq f[MaxHandle]
  BY <1>0, <1>1, RoundsGrow, Zenon
<1>3. f[0] = from \cap DOMAIN heap
  BY <1>0, <1>1, RoundsAre, Zenon
<1>4. Marked(heap, f[MaxHandle]) = f[MaxHandle]
  BY <1>1, MarkingEnds
<1>5. QED BY <1>1, <1>2, <1>3, <1>4 DEF Marked, Closed

LEMMA FreshIs ==
    ASSUME NEW hp, DOMAIN hp \subseteq Handles, Handles # DOMAIN hp
    PROVE  Fresh(hp) \in Handles \ DOMAIN hp
<1> DEFINE T == Handles \ DOMAIN hp
<1>1. T \in SUBSET Nat /\ T # {}
  <2>1. Handles \subseteq Nat
    BY RootingAssumption DEF Handles
  <2>2. T # {}
    OBVIOUS
  <2>3. QED BY <2>1, <2>2
<1>2. \E h \in T : \A g \in T : h <= g
  <2> HIDE DEF T
  <2>1. QED BY <1>1, LeastNumber
<1>3. QED BY <1>2 DEF Fresh

------------------------------------------------------------------------------
(* What lies on the stack below the operands of a quotation about to run.  *)
Remaining == IF Op = "call" THEN SubSeq(stack, 1, Len(stack) - Taken) ELSE stack

(* What is reached from stk and the roots stays what it is, except that a  *)
(* handler may store more in it.                                           *)
NothingLost(stk) == \A g \in Live(stk) : g \in DOMAIN heap' /\ heap[g] \subseteq heap'[g]

(* The object an allocation or a quotation makes gets a handle that        *)
(* nothing reached has.                                                    *)
HandleUnused ==
    /\ Op \in {"new", "newquiet"} => reg'[Head1.reg] \notin Live(stack)
    /\ Op = "call" => /\ Len(stack') <= Len(Remaining) + 1
                      /\ Len(stack') > Len(Remaining) => stack'[Len(stack')] \notin Live(Remaining)

(* What a collection leaves is closed: a set of objects that holds what    *)
(* the roots hold and what its own members hold.                           *)
Survivors(live, stk) ==
    /\ live \subseteq DOMAIN heap
    /\ \A h \in live : heap[h] \subseteq live
    /\ \A v \in Elements(stk) \cup Elements(roots) : v \in live \cup NoObject

LEMMA ElementsOf ==
    ASSUME NEW S, NEW s \in Seq(S)
    PROVE  Elements(s) \subseteq S
BY DEF Elements

LEMMA SeqOfElements ==
    ASSUME NEW S, NEW s \in Seq(S), NEW T, Elements(s) \subseteq T
    PROVE  s \in Seq(T)
<1>1. /\ Len(s) \in Nat /\ DOMAIN s = 1 .. Len(s) /\ s = [i \in 1 .. Len(s) |-> s[i]]
      /\ \A i \in 1 .. Len(s) : s[i] \in T
  BY DEF Elements
<1>2. s \in [1 .. Len(s) -> T]
  BY <1>1
<1>3. QED BY <1>1, <1>2, SeqDef

LEMMA LiveFacts ==
    ASSUME TypeOK, NEW stk, stk \in Seq(DOMAIN heap \cup NoObject),
           NEW live, live = Live(stk) \/ live = DOMAIN heap
    PROVE  Survivors(live, stk)
<1>1. Closed(heap)
  BY DEF TypeOK, Closed
<1>2. Elements(stk) \cup Elements(roots) \subseteq DOMAIN heap \cup NoObject
  BY ElementsOf DEF TypeOK
<1>3. CASE live = Live(stk)
  BY <1>1, <1>2, <1>3, ReachFacts DEF Live, Survivors
<1>4. CASE live = DOMAIN heap
  BY <1>1, <1>2, <1>4 DEF Closed, Survivors
<1>5. QED BY <1>3, <1>4

(* What is reached is what a collection that marks from stk leaves, or     *)
(* some of it.                                                             *)
LEMMA LiveSurvives ==
    ASSUME TypeOK, NEW stk, NEW live, live = Live(stk) \/ live = DOMAIN heap
    PROVE  Live(stk) \subseteq live
<1>1. Live(stk) \subseteq DOMAIN heap
  BY ReachFacts DEF Live, TypeOK, Closed
<1>2. QED BY <1>1

LEMMA SweptHeap ==
    ASSUME TypeOK, NEW stk, stk \in Seq(DOMAIN heap \cup NoObject), NEW live, Survivors(live, stk)
    PROVE  /\ Swept(live) = [h \in live |-> heap[h]]
           /\ DOMAIN Swept(live) = live
           /\ Closed(Swept(live))
           /\ stk \in Seq(live \cup NoObject)
           /\ roots \in Seq(live \cup NoObject)
<1>1. Swept(live) = [h \in live |-> heap[h]]
  BY DEF Swept
<1>2. Closed(Swept(live))
  BY <1>1 DEF Closed, Survivors, TypeOK
<1>3. Elements(stk) \subseteq live \cup NoObject /\ Elements(roots) \subseteq live \cup NoObject
  BY DEF Survivors
<1>4. stk \in Seq(live \cup NoObject) /\ roots \in Seq(live \cup NoObject)
  BY <1>3, SeqOfElements DEF TypeOK
<1>5. QED BY <1>1, <1>2, <1>4

LEMMA SweptRegisters ==
    ASSUME TypeOK, NEW live, live \subseteq DOMAIN heap
    PROVE  /\ DOMAIN AfterSweep(live, reg) = DOMAIN reg
           /\ \A r \in DOMAIN reg : AfterSweep(live, reg)[r] \in live \cup NoObject \cup {Freed}
<1>1. \A r \in DOMAIN reg : reg[r] \in Handles \cup NoObject \cup {Freed}
  BY DEF TypeOK
<1>2. 0 \notin Handles
  BY DEF Handles
<1>3. ASSUME NEW r \in DOMAIN reg
      PROVE  AfterSweep(live, reg)[r] \in live \cup NoObject \cup {Freed}
  <2>1. AfterSweep(live, reg)[r] = IF reg[r] \in Handles \ live THEN Freed ELSE reg[r]
    BY DEF AfterSweep
  <2>2. QED BY <1>1, <2>1
<1>4. QED BY <1>3 DEF AfterSweep

(* A collection, with the stack it finds.                                  *)
LEMMA SweepKeeps ==
    ASSUME TypeOK, stack' \in Seq(DOMAIN heap \cup NoObject), NEW live, Survivors(live, stack'),
           NEW old, Live(old) \subseteq live, heap' = Swept(live), unwritten' = unwritten \cap live, roots' = roots, err' \in BOOLEAN,
           \A r \in DOMAIN reg' : reg'[r] \in live \cup NoObject \cup {Freed}
    PROVE  TypeOK' /\ NothingLost(old)
<1>1. /\ DOMAIN heap' = live /\ Closed(heap') /\ heap' = [h \in live |-> heap[h]]
      /\ stack' \in Seq(live \cup NoObject) /\ roots' \in Seq(live \cup NoObject)
  BY SweptHeap
<1>2. TypeOK'
  BY <1>1 DEF TypeOK, Closed, Handles
<1>3. NothingLost(old)
  BY <1>1 DEF NothingLost
<1>4. QED BY <1>2, <1>3

(* A collection, with the stack it finds, and a new object.                *)
LEMMA SweepAndMake ==
    ASSUME TypeOK, NEW stk, stk \in Seq(DOMAIN heap \cup NoObject), NEW live, Survivors(live, stk),
           NEW h, h = Fresh(Swept(live)), Handles # live, NEW old, Live(old) \subseteq live,
           heap' = [g \in live \cup {h} |-> IF g = h THEN {} ELSE Swept(live)[g]],
           unwritten' \subseteq (unwritten \cap live) \cup {h}, roots' = roots, err' \in BOOLEAN,
           stack' = stk \/ stack' = Append(stk, h),
           \A r \in DOMAIN reg' : reg'[r] \in live \cup NoObject \cup {h, Freed}
    PROVE  TypeOK' /\ NothingLost(old) /\ h \notin Live(old)
<1>1. /\ Closed(Swept(live)) /\ DOMAIN Swept(live) = live /\ Swept(live) = [g \in live |-> heap[g]]
      /\ stk \in Seq(live \cup NoObject) /\ roots \in Seq(live \cup NoObject)
  BY SweptHeap
<1>2. h \in Handles \ live
  BY <1>1, FreshIs DEF Closed
<1>3. /\ DOMAIN heap' = live \cup {h}
      /\ \A g \in live : heap'[g] = Swept(live)[g]
      /\ heap'[h] = {}
  BY <1>2
<1>4. DOMAIN heap' \subseteq Handles /\ \A g \in DOMAIN heap' : heap'[g] \subseteq DOMAIN heap'
  BY <1>1, <1>2, <1>3 DEF Closed
<1>5. live \cup NoObject \subseteq DOMAIN heap' \cup NoObject
  BY <1>3
<1>6. stk \in Seq(DOMAIN heap' \cup NoObject) /\ roots' \in Seq(DOMAIN heap' \cup NoObject)
  BY <1>1, <1>5, SeqMonotonic
<1>7. stack' \in Seq(DOMAIN heap' \cup NoObject)
  <2> DEFINE S == DOMAIN heap' \cup NoObject
  <2>1. h \in S /\ stk \in Seq(S)
    BY <1>3, <1>6
  <2> HIDE DEF S
  <2>2. stack' \in Seq(S)
    BY <2>1
  <2>3. QED BY <2>2 DEF S
<1>8. /\ \A r \in DOMAIN reg' : reg'[r] \in DOMAIN heap' \cup NoObject \cup {Freed}
      /\ unwritten' \subseteq DOMAIN heap'
  BY <1>3
<1>9. Handles' = Handles
  BY DEF Handles
<1>10. TypeOK'
  BY <1>4, <1>6, <1>7, <1>8, <1>9 DEF TypeOK, NoObject, Missing, Freed
<1>11. NothingLost(old)
  BY <1>1, <1>3 DEF NothingLost
<1>12. QED BY <1>2, <1>10, <1>11

------------------------------------------------------------------------------
(* The steps of a handler.                                                 *)

LEMMA Initially == Init => TypeOK
<1> SUFFICES ASSUME Init PROVE TypeOK
  OBVIOUS
<1> DEFINE n == Words[word].takes
           top == 2 * n + 1
<1>1. n \in Nat /\ MaxHandle \in Nat /\ top <= MaxHandle /\ top \in Nat
  BY RootingAssumption DEF Init
<1>2. /\ stack = [i \in 1 .. n + 1 |-> IF i = 1 THEN Parked ELSE 2 * (i - 1)]
      /\ heap = [h \in 1 .. top |-> IF h % 2 = 0 THEN {h + 1} ELSE {}]
      /\ roots = <<Parked>> /\ reg = [r \in {} |-> 0] /\ unwritten = {} /\ err = FALSE
  BY DEF Init
<1> HIDE DEF n, top
<1>3. DOMAIN heap = 1 .. top /\ Parked \in 1 .. top
  <2>1. top >= 1
    BY <1>1 DEF top
  <2>2. QED BY <1>1, <1>2, <2>1 DEF Parked
<1>4. stack \in Seq(DOMAIN heap \cup NoObject)
  <2>1. ASSUME NEW i \in 1 .. n + 1
        PROVE  (IF i = 1 THEN Parked ELSE 2 * (i - 1)) \in DOMAIN heap \cup NoObject
    <3>1. CASE i = 1
      BY <1>3, <3>1
    <3>2. CASE i # 1
      BY <1>1, <1>3, <3>2 DEF top
    <3>3. QED BY <3>1, <3>2
  <2>2. stack \in [1 .. n + 1 -> DOMAIN heap \cup NoObject]
    BY <1>2, <2>1
  <2>3. n + 1 \in Nat
    BY <1>1
  <2>4. QED BY <2>2, <2>3, SeqDef
<1>5. ASSUME NEW h \in DOMAIN heap PROVE heap[h] \subseteq DOMAIN heap
  <2>1. h \in 1 .. top /\ heap[h] = IF h % 2 = 0 THEN {h + 1} ELSE {}
    BY <1>2, <1>3
  <2>2. h % 2 = 0 => h + 1 \in 1 .. top
    BY <1>1, <2>1 DEF top
  <2>3. QED BY <1>3, <2>1, <2>2
<1>6. roots \in Seq(DOMAIN heap \cup NoObject)
  <2>1. Parked \in DOMAIN heap \cup NoObject
    BY <1>3
  <2>2. QED BY <1>2, <2>1
<1>7. DOMAIN heap \subseteq Handles
  BY <1>1, <1>3 DEF Handles
<1>8. QED BY <1>2, <1>4, <1>5, <1>6, <1>7 DEF TypeOK

LEMMA RegisterSet ==
    ASSUME TypeOK, heap' = heap, NEW r, NEW v \in DOMAIN heap \cup NoObject \cup {Freed}, SetReg(r, v)
    PROVE  \A x \in DOMAIN reg' : reg'[x] \in DOMAIN heap' \cup NoObject \cup {Freed}
BY DEF SetReg, TypeOK

LEMMA StackStepKeeps ==
    ASSUME TypeOK, LiveOperands, StackStep
    PROVE  TypeOK'
<1> DEFINE S == DOMAIN heap \cup NoObject
<1>1. UNCHANGED <<roots, heap, unwritten, err>>
  BY DEF StackStep
<1>2. stack \in Seq(S) /\ Len(stack) \in Nat
  BY DEF TypeOK
<1>3. SUFFICES /\ stack' \in Seq(S)
               /\ \A x \in DOMAIN reg' : reg'[x] \in DOMAIN heap' \cup NoObject \cup {Freed}
  BY <1>1 DEF TypeOK, Handles, NoObject, Missing, Freed
<1>4. CASE /\ Op = "pop" /\ SetReg(Head1.reg, Top(0))
           /\ stack' = SubSeq(stack, 1, Len(stack) - 1)
  <2>1. Len(stack) > 1
    BY <1>4 DEF LiveOperands, OwnOperands
  <2>2. Top(0) \in S
    BY <1>2, <2>1 DEF Top
  <2>3. stack' \in Seq(S)
    <3> HIDE DEF S
    <3>1. QED BY <1>2, <1>4, <2>1
  <2>4. QED BY <1>1, <1>4, <2>2, <2>3, RegisterSet
<1>5. CASE /\ Op = "peek" /\ SetReg(Head1.reg, Top(Head1.arg)) /\ stack' = stack
  <2>1. Head1.arg \in 0 .. Len(stack) - 1
    BY <1>5 DEF LiveOperands, OwnOperands
  <2>2. Top(Head1.arg) \in S
    <3>1. Len(stack) - Head1.arg \in 1 .. Len(stack)
      BY <1>2, <2>1
    <3>2. QED BY <1>2, <3>1 DEF Top
  <2>3. QED BY <1>1, <1>2, <1>5, <2>2, RegisterSet
<1>6. CASE /\ Op = "drop" /\ reg' = reg /\ stack' = SubSeq(stack, 1, Len(stack) - Head1.arg)
  <2>1. Head1.arg \in 0 .. Len(stack) - 1
    BY <1>6 DEF LiveOperands, OwnOperands
  <2>2. stack' \in Seq(S)
    <3> HIDE DEF S
    <3>1. QED BY <1>2, <1>6, <2>1
  <2>3. QED BY <1>1, <1>6, <2>2 DEF TypeOK
<1>7. CASE /\ Op = "push" /\ reg' = reg /\ stack' = Append(stack, reg[Head1.reg])
  <2>1. Head1.reg \in DOMAIN reg /\ reg[Head1.reg] # Freed
    BY <1>7 DEF LiveOperands, Operands
  <2>2. reg[Head1.reg] \in S
    BY <2>1 DEF TypeOK
  <2>3. stack' \in Seq(S)
    <3> HIDE DEF S
    <3>1. QED BY <1>2, <1>7, <2>2
  <2>4. QED BY <1>1, <1>7, <2>3 DEF TypeOK
<1>8. CASE /\ Op = "plain" /\ reg' = reg /\ stack' = Append(stack, 0)
  <2>1. 0 \in S
    BY DEF NoObject
  <2>2. stack' \in Seq(S)
    <3> HIDE DEF S
    <3>1. QED BY <1>2, <1>8, <2>1
  <2>3. QED BY <1>1, <1>8, <2>2 DEF TypeOK
<1>9. QED BY <1>4, <1>5, <1>6, <1>7, <1>8 DEF StackStep

LEMMA RootStepKeeps ==
    ASSUME TypeOK, LiveOperands, RootStep
    PROVE  TypeOK'
<1> DEFINE S == DOMAIN heap \cup NoObject
<1>1. UNCHANGED <<stack, reg, heap, unwritten, err>>
  BY DEF RootStep
<1>2. roots \in Seq(S) /\ Len(roots) \in Nat
  BY DEF TypeOK
<1>3. SUFFICES roots' \in Seq(S)
  BY <1>1 DEF TypeOK, Handles, NoObject, Missing, Freed
<1>4. Op \in {"root", "setroot"} => reg[Head1.reg] \in S
  BY DEF LiveOperands, Operands, TypeOK
<1> HIDE DEF S
<1>5. CASE Op = "root" /\ roots' = Append(roots, reg[Head1.reg])
  BY <1>2, <1>4, <1>5
<1>6. CASE Op = "unroot" /\ roots' = SubSeq(roots, 1, Len(roots) - 1)
  <2>1. Len(roots) > 1
    BY <1>6 DEF LiveOperands, OwnOperands
  <2>2. QED BY <1>2, <1>6, <2>1
<1>7. CASE Op = "setroot" /\ roots' = [roots EXCEPT ![Len(roots)] = reg[Head1.reg]]
  <2>1. Len(roots) > 1
    BY <1>7 DEF LiveOperands, OwnOperands
  <2>2. QED BY <1>2, <1>4, <1>7, <2>1
<1>8. QED BY <1>5, <1>6, <1>7 DEF RootStep

LEMMA AllocateKeeps ==
    ASSUME TypeOK, Allocate
    PROVE  TypeOK' /\ NothingLost(stack) /\ reg'[Head1.reg] \notin Live(stack)
<1>1. PICK full \in (IF Op = "newquiet" THEN {FALSE} ELSE FullAt) :
         LET live == IF full THEN Live(stack) ELSE DOMAIN heap
             hp == Swept(live)
             h == Fresh(hp)
             kept == AfterSweep(live, reg)
         IN  \/ /\ Handles # live
                /\ heap' = [g \in live \cup {h} |-> IF g = h THEN {} ELSE hp[g]]
                /\ reg' = [x \in DOMAIN reg \cup {Head1.reg} |->
                             IF x = Head1.reg THEN h ELSE kept[x]]
                /\ unwritten' = (unwritten \cap live) \cup (IF Head1.arg THEN {h} ELSE {})
                /\ err' = err
             \/ /\ heap' = hp
                /\ reg' = [x \in DOMAIN reg \cup {Head1.reg} |->
                             IF x = Head1.reg THEN Missing ELSE kept[x]]
                /\ unwritten' = unwritten \cap live
                /\ err' = TRUE
  BY Zenon DEF Allocate
<1> DEFINE live == IF full THEN Live(stack) ELSE DOMAIN heap
           h == Fresh(Swept(live))
           kept == AfterSweep(live, reg)
<1>2. UNCHANGED <<stack, roots>> /\ stack \in Seq(DOMAIN heap \cup NoObject)
  BY DEF Allocate, TypeOK
<1>3. Survivors(live, stack)
  BY <1>2, LiveFacts
<1>4. live \subseteq DOMAIN heap /\ Live(stack) \subseteq live
  BY <1>3, LiveSurvives DEF Survivors
<1>5. /\ DOMAIN kept = DOMAIN reg
      /\ \A r \in DOMAIN reg : kept[r] \in live \cup NoObject \cup {Freed}
  BY <1>4, SweptRegisters
<1>6. err \in BOOLEAN
  BY DEF TypeOK
<1>7. CASE /\ Handles # live
           /\ heap' = [g \in live \cup {h} |-> IF g = h THEN {} ELSE Swept(live)[g]]
           /\ reg' = [x \in DOMAIN reg \cup {Head1.reg} |-> IF x = Head1.reg THEN h ELSE kept[x]]
           /\ unwritten' = (unwritten \cap live) \cup (IF Head1.arg THEN {h} ELSE {})
           /\ err' = err
  <2>1. \A r \in DOMAIN reg' : reg'[r] \in live \cup NoObject \cup {h, Freed}
    <3> HIDE DEF live, h, kept
    <3>1. QED BY <1>5, <1>7
  <2>2. unwritten' \subseteq (unwritten \cap live) \cup {h}
    <3> HIDE DEF live, h
    <3>1. QED BY <1>7
  <2> DEFINE made == h
             left == live
  <2>3. /\ made = Fresh(Swept(left)) /\ Handles # left /\ Survivors(left, stack)
        /\ heap' = [g \in left \cup {made} |-> IF g = made THEN {} ELSE Swept(left)[g]]
        /\ unwritten' \subseteq (unwritten \cap left) \cup {made} /\ err' \in BOOLEAN
        /\ \A r \in DOMAIN reg' : reg'[r] \in left \cup NoObject \cup {made, Freed}
    BY <1>3, <1>6, <1>7, <2>1, <2>2
  <2>4. Live(stack) \subseteq left
    BY <1>4
  <2> HIDE DEF made, left
  <2>5. reg'[Head1.reg] = made
    BY <1>7 DEF made
  <2>6. QED BY <1>2, <2>3, <2>4, <2>5, SweepAndMake
<1>8. CASE /\ heap' = Swept(live)
           /\ reg' = [x \in DOMAIN reg \cup {Head1.reg} |->
                        IF x = Head1.reg THEN Missing ELSE kept[x]]
           /\ unwritten' = unwritten \cap live
           /\ err' = TRUE
  <2>1. \A r \in DOMAIN reg' : reg'[r] \in live \cup NoObject \cup {Freed}
    <3> HIDE DEF live, kept
    <3>1. QED BY <1>5, <1>8 DEF NoObject
  <2>2. reg'[Head1.reg] = Missing
    <3> HIDE DEF live, kept
    <3>1. QED BY <1>8
  <2> HIDE DEF live
  <2>3. Missing \notin live
    BY <1>4 DEF TypeOK, Handles, Missing
  <2>4. QED BY <1>2, <1>3, <1>4, <1>8, <2>1, <2>2, <2>3, SweepKeeps
<1>9. QED BY <1>1, <1>7, <1>8, Zenon

LEMMA ComparisonKeeps ==
    ASSUME TypeOK, Comparison
    PROVE  TypeOK' /\ NothingLost(stack)
<1> DEFINE both == Live(stack) \cup Reach({reg[Head1.reg], reg[Head1.arg]})
<1>1. PICK live : /\ live = DOMAIN heap \/ live = both
                  /\ heap' = Swept(live) /\ reg' = AfterSweep(live, reg)
                  /\ unwritten' = unwritten \cap live
  BY Zenon DEF Comparison
<1>2. UNCHANGED <<stack, roots>> /\ stack \in Seq(DOMAIN heap \cup NoObject) /\ err' \in BOOLEAN
  BY DEF Comparison, TypeOK
<1>3. Survivors(live, stack) /\ Live(stack) \subseteq live
  <2>1. CASE live = DOMAIN heap
    BY <1>2, <2>1, LiveFacts, LiveSurvives
  <2>2. CASE live = both
    <3> DEFINE more == Reach({reg[Head1.reg], reg[Head1.arg]})
    <3>1. Survivors(Live(stack), stack)
      BY <1>2, LiveFacts
    <3>2. more \subseteq DOMAIN heap /\ \A h \in more : heap[h] \subseteq more
      BY ReachFacts DEF TypeOK, Closed
    <3>3. live = Live(stack) \cup more
      BY <2>2
    <3> HIDE DEF more
    <3>4. QED BY <3>1, <3>2, <3>3 DEF Survivors
  <2>3. QED BY <1>1, <2>1, <2>2
<1>4. \A r \in DOMAIN reg' : reg'[r] \in live \cup NoObject \cup {Freed}
  BY <1>1, <1>3, SweptRegisters DEF Survivors
<1>5. QED BY <1>1, <1>2, <1>3, <1>4, SweepKeeps

LEMMA DataStepKeeps ==
    ASSUME TypeOK, LiveOperands, DataStep
    PROVE  TypeOK'
<1>1. UNCHANGED <<stack, roots, err>>
  BY DEF DataStep
<1>2. CASE /\ UNCHANGED <<heap, unwritten>>
           /\ \E v \in DOMAIN heap \cup NoObject \cup {Freed} : SetReg(Head1.reg, v)
  <2>1. \A x \in DOMAIN reg' : reg'[x] \in DOMAIN heap' \cup NoObject \cup {Freed}
    BY <1>2, RegisterSet
  <2>2. QED BY <1>1, <1>2, <2>1 DEF TypeOK, Handles, NoObject, Missing, Freed
<1>3. CASE UNCHANGED reg /\ UNCHANGED heap /\ unwritten' \subseteq unwritten
  BY <1>1, <1>3 DEF TypeOK, Handles, NoObject, Missing, Freed
<1>4. CASE /\ Op = "store" /\ UNCHANGED <<reg, unwritten>>
           /\ heap' = [h \in DOMAIN heap |->
                         IF h = reg[Head1.arg] THEN heap[h] \cup ({reg[Head1.reg]} \ NoObject) ELSE heap[h]]
  <2>1. Head1.reg \in DOMAIN reg /\ reg[Head1.reg] # Freed
    BY <1>4 DEF LiveOperands, Operands
  <2>2. {reg[Head1.reg]} \ NoObject \subseteq DOMAIN heap
    BY <2>1 DEF TypeOK
  <2>3. DOMAIN heap' = DOMAIN heap
    BY <1>4
  <2>4. \A h \in DOMAIN heap' : heap'[h] \subseteq DOMAIN heap'
    BY <1>4, <2>2, <2>3 DEF TypeOK
  <2>5. QED BY <1>1, <1>4, <2>3, <2>4 DEF TypeOK, Handles, NoObject, Missing, Freed
<1>5. CASE /\ Op = "part" /\ UNCHANGED <<heap, unwritten>>
           /\ \E p \in {0} \cup (IF reg[Head1.arg] \in DOMAIN heap THEN heap[reg[Head1.arg]] ELSE {}) :
                SetReg(Head1.reg, p)
  <2>1. {0} \cup (IF reg[Head1.arg] \in DOMAIN heap THEN heap[reg[Head1.arg]] ELSE {})
          \subseteq DOMAIN heap \cup NoObject \cup {Freed}
    BY DEF TypeOK, NoObject
  <2>2. QED BY <1>2, <1>5, <2>1
<1>6. CASE Op = "copy" /\ SetReg(Head1.reg, reg[Head1.arg]) /\ UNCHANGED <<heap, unwritten>>
  <2>1. reg[Head1.arg] \in DOMAIN heap \cup NoObject \cup {Freed}
    BY <1>6 DEF LiveOperands, Operands, TypeOK
  <2>2. QED BY <1>2, <1>6, <2>1
<1>7. CASE Op = "toproot" /\ SetReg(Head1.reg, roots[Len(roots)]) /\ UNCHANGED <<heap, unwritten>>
  <2>1. Len(roots) > 1
    BY <1>7 DEF LiveOperands, OwnOperands
  <2>2. roots[Len(roots)] \in DOMAIN heap \cup NoObject
    BY <2>1 DEF TypeOK
  <2>3. QED BY <1>2, <1>7, <2>2
<1>8. CASE Op = "nothing" /\ SetReg(Head1.reg, 0) /\ UNCHANGED <<heap, unwritten>>
  BY <1>2, <1>8 DEF NoObject
<1>9. QED BY <1>3, <1>4, <1>5, <1>6, <1>7, <1>8, Zenon DEF DataStep

LEMMA RunCallableKeeps ==
    ASSUME TypeOK, LiveOperands, RunCallable
    PROVE  TypeOK' /\ NothingLost(Remaining) /\ HandleUnused
<1> DEFINE left == SubSeq(stack, 1, Len(stack) - Taken)
<1>1. PICK full \in FullAt :
         LET live == IF full THEN Live(left) ELSE DOMAIN heap
             hp == Swept(live)
             h == Fresh(hp)
         IN  /\ reg' = AfterSweep(live, reg)
             /\ unwritten' = unwritten \cap live
             /\ \/ /\ err' = TRUE
                   /\ heap' = hp
                   /\ stack' = left
                \/ /\ Head1.arg.leaves = 0
                   /\ heap' = hp
                   /\ stack' = left
                   /\ err' = err
                \/ /\ Head1.arg.leaves = 1
                   /\ Handles # live
                   /\ heap' = [g \in live \cup {h} |-> IF g = h THEN {} ELSE hp[g]]
                   /\ stack' = Append(left, h)
                   /\ err' = err
  BY DEF RunCallable
<1> DEFINE live == IF full THEN Live(left) ELSE DOMAIN heap
           h == Fresh(Swept(live))
<1>2. roots' = roots /\ Op = "call"
  BY DEF RunCallable
<1>3. left \in Seq(DOMAIN heap \cup NoObject)
  <2> DEFINE S == DOMAIN heap \cup NoObject
  <2>1. Taken \in 0 .. Len(stack) - 1
    BY <1>2 DEF LiveOperands, OwnOperands
  <2>2. stack \in Seq(S)
    BY DEF TypeOK
  <2> HIDE DEF S
  <2>3. left \in Seq(S)
    BY <2>1, <2>2
  <2>4. QED BY <2>3 DEF S
<1>4. live = Live(left) \/ live = DOMAIN heap
  OBVIOUS
<1>13. Remaining = left
  BY <1>2 DEF Remaining
<1> HIDE DEF left
<1>5. Survivors(live, left) /\ Live(left) \subseteq live
  BY <1>3, <1>4, LiveFacts, LiveSurvives
<1>6. /\ reg' = AfterSweep(live, reg) /\ unwritten' = unwritten \cap live
      /\ \/ /\ heap' = Swept(live) /\ stack' = left /\ err' \in BOOLEAN
         \/ /\ Handles # live
            /\ heap' = [g \in live \cup {h} |-> IF g = h THEN {} ELSE Swept(live)[g]]
            /\ stack' = Append(left, h) /\ err' \in BOOLEAN
  <2>1. err \in BOOLEAN
    BY DEF TypeOK
  <2>2. QED BY <1>1, <2>1, Zenon
<1> DEFINE kept == live
           made == h
<1>7. made = Fresh(Swept(kept)) /\ Survivors(kept, left) /\ Live(left) \subseteq kept
  BY <1>5
<1>8. /\ reg' = AfterSweep(kept, reg) /\ unwritten' = unwritten \cap kept
      /\ \/ /\ heap' = Swept(kept) /\ stack' = left /\ err' \in BOOLEAN
         \/ /\ Handles # kept
            /\ heap' = [g \in kept \cup {made} |-> IF g = made THEN {} ELSE Swept(kept)[g]]
            /\ stack' = Append(left, made) /\ err' \in BOOLEAN
  BY <1>6
<1> HIDE DEF kept, made
<1>9. \A r \in DOMAIN reg' : reg'[r] \in kept \cup NoObject \cup {Freed}
  <2>1. kept \subseteq DOMAIN heap
    BY <1>7 DEF Survivors
  <2>2. QED BY <1>8, <2>1, SweptRegisters
<1>10. CASE heap' = Swept(kept) /\ stack' = left /\ err' \in BOOLEAN
  <2>1. TypeOK' /\ NothingLost(left)
    BY <1>2, <1>3, <1>7, <1>8, <1>9, <1>10, SweepKeeps
  <2>2. Len(left) \in Nat
    BY <1>3
  <2>3. QED BY <1>2, <1>10, <1>13, <2>1, <2>2 DEF HandleUnused
<1>11. CASE /\ Handles # kept
            /\ heap' = [g \in kept \cup {made} |-> IF g = made THEN {} ELSE Swept(kept)[g]]
            /\ stack' = Append(left, made) /\ err' \in BOOLEAN
  <2>1. /\ \A r \in DOMAIN reg' : reg'[r] \in kept \cup NoObject \cup {made, Freed}
        /\ unwritten' \subseteq (unwritten \cap kept) \cup {made}
    BY <1>8, <1>9
  <2>2. TypeOK' /\ NothingLost(left) /\ made \notin Live(left)
    BY <1>2, <1>3, <1>7, <1>11, <2>1, SweepAndMake, SMTT(30)
  <2>3. /\ Len(stack') = Len(left) + 1 /\ Len(left) \in Nat
        /\ stack'[Len(left) + 1] = made
    <3> DEFINE S == DOMAIN heap \cup NoObject \cup {made}
    <3>1. left \in Seq(S) /\ made \in S
      BY <1>3, SeqMonotonic
    <3> HIDE DEF S
    <3>2. QED BY <1>11, <3>1
  <2>4. QED BY <1>2, <1>13, <2>2, <2>3 DEF HandleUnused
<1>12. QED BY <1>8, <1>10, <1>11

LEMMA NoValueTouched ==
    ASSUME TypeOK, UNCHANGED <<stack, roots, reg, heap, unwritten>>, err' \in BOOLEAN
    PROVE  TypeOK'
BY DEF TypeOK, Handles, NoObject, Missing, Freed

LEMMA HeapGrows ==
    ASSUME TypeOK, NEW stk, DOMAIN heap' = DOMAIN heap, \A g \in DOMAIN heap : heap[g] \subseteq heap'[g]
    PROVE  NothingLost(stk)
<1>1. Live(stk) \subseteq DOMAIN heap
  BY ReachFacts DEF Live, TypeOK, Closed
<1>2. QED BY <1>1 DEF NothingLost

LEMMA StepKeeps ==
    ASSUME TypeOK, LiveOperands, [Next]_vars
    PROVE  /\ TypeOK' /\ NothingLost(Remaining)
           /\ HandleUnused \/ UNCHANGED vars
<1>1. CASE StackStep \/ RootStep \/ Control \/ UNCHANGED vars
  <2>1. heap' = heap
    BY <1>1 DEF StackStep, RootStep, Control, vars
  <2>2. NothingLost(Remaining)
    BY <2>1, HeapGrows
  <2>3. CASE StackStep
    BY <2>2, <2>3, StackStepKeeps DEF HandleUnused, StackStep
  <2>4. CASE RootStep
    BY <2>2, <2>4, RootStepKeeps DEF HandleUnused, RootStep
  <2>5. CASE Control \/ UNCHANGED vars
    <3>1. UNCHANGED <<stack, roots, reg, heap, unwritten>> /\ err' \in {TRUE, err}
      BY <2>5 DEF Control, vars
    <3>2. TypeOK'
      BY <3>1, NoValueTouched DEF TypeOK
    <3>3. HandleUnused \/ UNCHANGED vars
      BY <2>5 DEF HandleUnused, Control
    <3>4. QED BY <2>2, <3>2, <3>3
  <2>6. QED BY <1>1, <2>3, <2>4, <2>5
<1>2. CASE Allocate
  <2>1. Remaining = stack /\ Op # "call"
    BY <1>2 DEF Remaining, Allocate
  <2>2. QED BY <1>2, <2>1, AllocateKeeps DEF HandleUnused
<1>3. CASE Comparison
  <2>1. Remaining = stack /\ Op = "compare"
    BY <1>3 DEF Remaining, Comparison
  <2>2. QED BY <1>3, <2>1, ComparisonKeeps DEF HandleUnused
<1>4. CASE DataStep
  <2>1. DOMAIN heap' = DOMAIN heap /\ \A g \in DOMAIN heap : heap[g] \subseteq heap'[g]
    BY <1>4 DEF DataStep
  <2>2. HandleUnused
    BY <1>4 DEF HandleUnused, DataStep
  <2>3. QED BY <1>4, <2>1, <2>2, HeapGrows, DataStepKeeps
<1>5. CASE RunCallable
  BY <1>5, RunCallableKeeps
<1>6. QED BY <1>1, <1>2, <1>3, <1>4, <1>5 DEF Next, Finished

(* As long as a handler uses only operands it was given and that no        *)
(* collection has taken, the stack, the roots, the registers that are not  *)
(* stale and every object hold allocated objects only: whatever the        *)
(* handler is, and whenever object_alloc_slot or a quotation collects.     *)
THEOREM HeapStaysClosed == Spec /\ []LiveOperands => []TypeOK
<1>1. Init => TypeOK BY Initially
<1>2. TypeOK /\ LiveOperands /\ [Next]_vars => TypeOK' BY StepKeeps
<1>3. QED BY <1>1, <1>2, PTL DEF Spec

(* And a collection takes nothing that is reached from the stack or from   *)
(* gc_roots, nor is its handle handed out again: what is reached before a  *)
(* step is there after it and still holds what it held, and a new object   *)
(* is none of it.                                                          *)
THEOREM ReachedSurvives == Spec /\ []LiveOperands => [][NothingLost(Remaining) /\ HandleUnused]_vars
<1>1. TypeOK /\ LiveOperands /\ [Next]_vars => [NothingLost(Remaining) /\ HandleUnused]_vars
  BY StepKeeps
<1>2. QED BY <1>1, HeapStaysClosed, PTL DEF Spec
==============================================================================
