------------------------- MODULE ParallelForProofs -------------------------
(***************************************************************************)
(* Proofs about ParallelFor for any number of threads, items and items per *)
(* claim, on the condition NoOverflow: the shared int index has room for   *)
(* one claim past the domain by every thread.  MCParallelForWrap shows     *)
(* that the condition is needed.                                           *)
(***************************************************************************)
EXTENDS ParallelFor, FiniteSetTheorems, SequenceTheorems, TLAPS

\* An int that does not exceed IntMax does not wrap.
LEMMA WrapInRange ==
  ASSUME NEW i \in Nat, i <= IntMax
  PROVE  Wrap(i) = i
<1>1. IntMax \in Nat
  BY ParallelForAssumption
<1>2. (i + IntMax + 1) % (2 * (IntMax + 1)) = i + IntMax + 1
  <2> DEFINE k == i + IntMax + 1
             m == 2 * (IntMax + 1)
  <2>1. k \in Nat /\ m \in Nat \ {0} /\ k < m
    BY <1>1
  <2> HIDE DEF k, m
  <2>2. k % m = k
    BY <2>1
  <2> QED BY <2>2 DEF k, m
<1> QED BY <1>1, <1>2 DEF Wrap

\* Claims are ranges.
LEMMA ClaimTypes ==
  ASSUME TypeOK
  PROVE  /\ Len(claims) \in Nat
         /\ DOMAIN claims = 1 .. Len(claims)
         /\ \A k \in DOMAIN claims : claims[k] \in [from : Int, to : Int]
<1> DEFINE R == [from : Int, to : Int]
<1>1. claims \in Seq(R)
  BY DEF TypeOK
<1> HIDE DEF R
<1>2. \A k \in 1 .. Len(claims) : claims[k] \in R
  BY <1>1, ElementOfSeq
<1>3. Len(claims) \in Nat /\ DOMAIN claims = 1 .. Len(claims)
  BY <1>1, LenProperties
<1> QED BY <1>2, <1>3 DEF R

\* The threads that have stopped are finitely many, and fewer than all while
\* one still runs.
LEMMA StoppedCount ==
  ASSUME TypeOK
  PROVE  /\ IsFiniteSet(Stopped)
         /\ Cardinality(Stopped) \in Nat
         /\ Cardinality(Threads) \in Nat
         /\ \A t \in Threads : t \notin Stopped => Cardinality(Stopped) + 1 <= Cardinality(Threads)
<1>1. IsFiniteSet(Threads) /\ Cardinality(Threads) \in Nat
  BY FS_CardinalityType, ParallelForAssumption
<1>2. Stopped \subseteq Threads
  BY DEF Stopped
<1>3. IsFiniteSet(Stopped) /\ Cardinality(Stopped) \in Nat
  BY <1>1, <1>2, FS_Subset, FS_CardinalityType
<1>4. ASSUME NEW t \in Threads, t \notin Stopped
      PROVE  Cardinality(Stopped) + 1 <= Cardinality(Threads)
  <2>1. Cardinality(Stopped \cup {t}) = Cardinality(Stopped) + 1
    BY <1>3, <1>4, FS_AddElement
  <2>2. Cardinality(Stopped \cup {t}) <= Cardinality(Threads)
    BY <1>1, <1>2, FS_Subset
  <2> QED BY <2>1, <2>2
<1> QED BY <1>1, <1>3, <1>4

\* A running thread can add one claim to the index without wrapping it.
LEMMA IndexHasRoom ==
  ASSUME NoOverflow, TypeOK, IndexInv, NEW t \in Threads, thread[t] # "stopped"
  PROVE  /\ Wrap(nextIndex + ItemsPerClaim) = nextIndex + ItemsPerClaim
         /\ nextIndex + ItemsPerClaim \in 0 .. IntMax
<1> DEFINE s == Cardinality(Stopped)
           a == Cardinality(Threads)
<1>1. IntMax \in Nat /\ ItemsPerClaim \in Nat \ {0} /\ NItems \in Nat
  BY ParallelForAssumption DEF NoOverflow
<1>2. s \in Nat /\ a \in Nat /\ s + 1 <= a
  BY StoppedCount DEF Stopped
<1>3. nextIndex \in Nat /\ nextIndex <= NItems + ItemsPerClaim * (s + 1)
  BY DEF TypeOK, IndexInv
<1>4. NItems + ItemsPerClaim * (a + 1) <= IntMax
  BY DEF NoOverflow
<1> HIDE DEF s, a
<1>5. ItemsPerClaim * (s + 2) <= ItemsPerClaim * (a + 1)
  BY <1>1, <1>2
<1>6. ItemsPerClaim * (s + 2) = ItemsPerClaim * (s + 1) + ItemsPerClaim
  BY <1>1, <1>2
<1>7. nextIndex + ItemsPerClaim \in 0 .. IntMax
  <2> DEFINE p == ItemsPerClaim * (s + 1)
             q == ItemsPerClaim * (a + 1)
  <2>1. p \in Int /\ q \in Int
    BY <1>1, <1>2
  <2>2. p + ItemsPerClaim <= q
    BY <1>5, <1>6
  <2>3. nextIndex <= NItems + p /\ NItems + q <= IntMax
    BY <1>3, <1>4
  <2> HIDE DEF p, q
  <2> QED BY <1>1, <1>3, <2>1, <2>2, <2>3
<1> QED BY <1>1, <1>7, WrapInRange

\* Nothing is claimed at first.
LEMMA InitInvariant == ASSUME NoOverflow, Init PROVE IInv
<1>1. TypeOK
  BY ParallelForAssumption DEF Init, TypeOK, NoRange
<1>2. Stopped = {}
  BY DEF Init, Stopped
<1>3. Cardinality(Stopped) = 0
  BY <1>2, FS_EmptySet
<1>4. IndexInv
  BY <1>2, <1>3, ParallelForAssumption DEF Init, IndexInv, NoOverflow
<1>5. ClaimsInv
  BY ParallelForAssumption DEF Init, ClaimsInv, ClaimsDisjoint, Indices
<1>6. CallerInv
  BY ParallelForAssumption DEF Init, CallerInv
<1> QED BY <1>1, <1>4, <1>5, <1>6 DEF IInv

\* The claim of the next items of the domain keeps the invariant.
LEMMA ClaimItemsKeepsInvariant ==
  ASSUME NoOverflow, IInv, NEW t \in Threads, ClaimItems(t)
  PROVE  IInv'
<1> DEFINE r == [from |-> nextIndex, to |-> Minimum(nextIndex + ItemsPerClaim, NItems)]
<1>1. /\ IntMax \in Nat /\ ItemsPerClaim \in Nat \ {0} /\ NItems \in Nat
      /\ nextIndex \in Nat /\ nextIndex < NItems
  BY ParallelForAssumption DEF NoOverflow, IInv, TypeOK, IndexInv, ClaimItems
<1>2. /\ Wrap(nextIndex + ItemsPerClaim) = nextIndex + ItemsPerClaim
      /\ nextIndex + ItemsPerClaim \in 0 .. IntMax
  BY IndexHasRoom DEF IInv, ClaimItems
<1>3. /\ nextIndex' = nextIndex + ItemsPerClaim
      /\ thread' = [thread EXCEPT ![t] = "working"]
      /\ range' = [range EXCEPT ![t] = r]
      /\ claims' = Append(claims, r)
  BY <1>2 DEF ClaimItems
<1>4. /\ r.from = nextIndex /\ r.from < r.to /\ r.to <= nextIndex' /\ r.to <= NItems
      /\ r \in [from : Int, to : Int]
      /\ \A i \in Indices : nextIndex <= i /\ i < nextIndex' => i \in Items(r)
  BY <1>1, <1>3 DEF Minimum, Indices, Items
<1> HIDE DEF r
<1>5. TypeOK'
  BY <1>1, <1>2, <1>3, <1>4 DEF IInv, TypeOK
<1>6. Stopped' = Stopped
  BY <1>3 DEF IInv, TypeOK, ClaimItems, Stopped
<1>7. IndexInv'
  <2>1. Stopped = {}
    BY <1>1 DEF IInv, IndexInv
  <2>2. Cardinality(Stopped') = 0
    BY <1>6, <2>1, FS_EmptySet
  <2> QED BY <1>1, <1>3, <1>6, <2>1, <2>2 DEF IndexInv
<1>8. ClaimsInv'
  <2> DEFINE m == Len(claims)
  <2>1. /\ m \in Nat /\ DOMAIN claims = 1 .. m /\ DOMAIN claims' = 1 .. (m + 1)
        /\ claims'[m + 1] = r
        /\ \A k \in 1 .. m : claims'[k] = claims[k] /\ claims[k] \in [from : Int, to : Int]
    <3> DEFINE R == [from : Int, to : Int]
    <3>1. claims \in Seq(R) /\ r \in R
      BY <1>4 DEF IInv, TypeOK
    <3>2. \A k \in DOMAIN claims : claims[k] \in R
      BY ClaimTypes DEF IInv
    <3> HIDE DEF R
    <3>3. m \in Nat /\ DOMAIN claims = 1 .. m
      BY <3>1, LenProperties
    <3>4. /\ DOMAIN claims' = 1 .. (m + 1)
          /\ claims'[m + 1] = r
          /\ \A k \in 1 .. m : claims'[k] = claims[k]
      BY <1>3, <3>1, AppendProperties
    <3> QED BY <3>2, <3>3, <3>4 DEF R
  <2> HIDE DEF m
  <2>2. \A k \in 1 .. m : /\ 0 <= claims[k].from /\ claims[k].from < claims[k].to
                          /\ claims[k].to <= nextIndex /\ claims[k].to <= NItems
    BY <2>1 DEF IInv, ClaimsInv
  <2>3. \A k \in 1 .. (m + 1) : /\ 0 <= claims'[k].from /\ claims'[k].from < claims'[k].to
                                /\ claims'[k].to <= nextIndex' /\ claims'[k].to <= NItems
    <3> SUFFICES ASSUME NEW k \in 1 .. (m + 1)
                 PROVE  /\ 0 <= claims'[k].from /\ claims'[k].from < claims'[k].to
                        /\ claims'[k].to <= nextIndex' /\ claims'[k].to <= NItems
      OBVIOUS
    <3>1. CASE k \in 1 .. m
      BY <1>1, <1>3, <2>1, <2>2, <3>1
    <3>2. CASE k = m + 1
      BY <1>1, <1>4, <2>1, <3>2
    <3> QED BY <2>1, <3>1, <3>2
  <2>4. \A i \in Indices : i < nextIndex' => \E k \in DOMAIN claims' : i \in Items(claims'[k])
    <3> SUFFICES ASSUME NEW i \in Indices, i < nextIndex'
                 PROVE  \E k \in 1 .. (m + 1) : i \in Items(claims'[k])
      BY <2>1
    <3>1. CASE i < nextIndex
      <4>1. PICK k \in 1 .. m : i \in Items(claims[k])
        BY <2>1, <3>1 DEF IInv, ClaimsInv
      <4> QED BY <2>1, <4>1
    <3>2. CASE nextIndex <= i
      BY <1>3, <1>4, <2>1, <3>2
    <3> QED BY <1>1, <3>1, <3>2 DEF Indices
  <2>5. \A k \in 1 .. m : Items(claims[k]) \cap Items(r) = {}
    BY <1>1, <1>4, <2>1, <2>2 DEF Items
  <2>6. ClaimsDisjoint'
    <3> SUFFICES ASSUME NEW j \in 1 .. (m + 1), NEW k \in 1 .. (m + 1), j # k
                 PROVE  Items(claims'[j]) \cap Items(claims'[k]) = {}
      BY <2>1 DEF ClaimsDisjoint, Items
    <3>1. CASE j \in 1 .. m /\ k \in 1 .. m
      BY <2>1, <3>1 DEF IInv, ClaimsInv, ClaimsDisjoint
    <3>2. CASE j = m + 1 \/ k = m + 1
      BY <2>1, <2>5, <3>2
    <3> QED BY <2>1, <3>1, <3>2
  <2> QED BY <2>1, <2>3, <2>4, <2>6 DEF ClaimsInv, Indices, Items
<1>9. CallerInv'
  BY <1>3 DEF IInv, TypeOK, CallerInv
<1> QED BY <1>5, <1>7, <1>8, <1>9 DEF IInv

\* So does the end of a range.
LEMMA FinishRangeKeepsInvariant ==
  ASSUME IInv, NEW t \in Threads, FinishRange(t)
  PROVE  IInv'
<1>1. TypeOK'
  BY DEF IInv, TypeOK, FinishRange, NoRange
<1>2. Stopped' = Stopped
  BY DEF IInv, TypeOK, FinishRange, Stopped
<1>3. IndexInv'
  BY <1>2 DEF IInv, IndexInv, FinishRange
<1>4. ClaimsInv'
  BY DEF IInv, ClaimsInv, ClaimsDisjoint, FinishRange
<1>5. CallerInv'
  BY DEF IInv, TypeOK, CallerInv, FinishRange
<1> QED BY <1>1, <1>3, <1>4, <1>5 DEF IInv

\* So does a thread's last claim, which finds the domain used up.
LEMMA StopKeepsInvariant ==
  ASSUME NoOverflow, IInv, NEW t \in Threads, Stop(t)
  PROVE  IInv'
<1>1. /\ IntMax \in Nat /\ ItemsPerClaim \in Nat \ {0} /\ NItems \in Nat
      /\ nextIndex \in Nat /\ nextIndex >= NItems
  BY ParallelForAssumption DEF NoOverflow, IInv, TypeOK, IndexInv, Stop
<1>2. /\ Wrap(nextIndex + ItemsPerClaim) = nextIndex + ItemsPerClaim
      /\ nextIndex + ItemsPerClaim \in 0 .. IntMax
  BY IndexHasRoom DEF IInv, Stop
<1>3. /\ nextIndex' = nextIndex + ItemsPerClaim
      /\ thread' = [thread EXCEPT ![t] = "stopped"]
      /\ UNCHANGED <<range, claims>>
  BY <1>2 DEF Stop
<1>4. TypeOK'
  BY <1>1, <1>2, <1>3 DEF IInv, TypeOK
<1>5. Stopped' = Stopped \cup {t} /\ t \notin Stopped
  BY <1>3 DEF IInv, TypeOK, Stop, Stopped
<1>6. IsFiniteSet(Stopped) /\ Cardinality(Stopped) \in Nat
  BY StoppedCount DEF IInv
<1>7. Cardinality(Stopped') = Cardinality(Stopped) + 1
  BY <1>5, <1>6, FS_AddElement
<1>8. IndexInv'
  <2> DEFINE s == Cardinality(Stopped)
  <2>1. s \in Nat /\ nextIndex <= NItems + ItemsPerClaim * (s + 1)
    BY <1>6 DEF IInv, IndexInv
  <2> HIDE DEF s
  <2>2. ItemsPerClaim * (s + 2) = ItemsPerClaim * (s + 1) + ItemsPerClaim
    BY <1>1, <2>1
  <2>3. nextIndex' <= NItems + ItemsPerClaim * (s + 1 + 1)
    BY <1>1, <1>3, <2>1, <2>2
  <2> QED BY <1>1, <1>3, <1>7, <2>3 DEF IndexInv, s
<1>9. ClaimsInv'
  <2>1. \A i \in Indices : i < nextIndex
    BY <1>1 DEF Indices
  <2>2. \A k \in DOMAIN claims : claims[k] \in [from : Int, to : Int]
    BY ClaimTypes DEF IInv
  <2> QED BY <1>1, <1>3, <2>1, <2>2 DEF IInv, ClaimsInv, ClaimsDisjoint, Indices, Items
<1>10. CallerInv'
  BY <1>3 DEF IInv, TypeOK, CallerInv
<1> QED BY <1>4, <1>8, <1>9, <1>10 DEF IInv

\* The bookkeeping of claims and index holds throughout.
THEOREM Invariance == NoOverflow /\ Spec => []IInv
<1>1. NoOverflow /\ Init => IInv
  BY InitInvariant
<1>2. NoOverflow /\ IInv /\ [Next]_forVars => IInv'
  <2> SUFFICES ASSUME NoOverflow, IInv, [Next]_forVars PROVE IInv'
    OBVIOUS
  <2>1. CASE \E t \in Threads : ClaimItems(t) \/ FinishRange(t) \/ Stop(t)
    BY <2>1, ClaimItemsKeepsInvariant, FinishRangeKeepsInvariant, StopKeepsInvariant
  <2>2. CASE Done \/ UNCHANGED forVars
    <3>1. UNCHANGED <<nextIndex, thread, range, claims>>
      BY <2>2 DEF Done, forVars
    <3>2. TypeOK' /\ CallerInv' /\ Stopped' = Stopped
      BY <3>1 DEF IInv, TypeOK, CallerInv, Stopped
    <3>3. IndexInv'
      BY <3>1, <3>2 DEF IInv, IndexInv
    <3>4. ClaimsInv'
      BY <3>1 DEF IInv, ClaimsInv, ClaimsDisjoint
    <3> QED BY <3>2, <3>3, <3>4 DEF IInv
  <2> QED BY <2>1, <2>2 DEF Next
<1>3. NoOverflow => NoOverflow'
  BY DEF NoOverflow
<1> QED BY <1>1, <1>2, <1>3, PTL DEF Spec

\* A kernel is handed items of the domain only.
THEOREM DomainRespected == NoOverflow /\ Spec => []ClaimsInDomain
<1>1. IInv => ClaimsInDomain
  BY ClaimTypes, ParallelForAssumption DEF IInv, ClaimsInv, ClaimsInDomain, Items, Indices
<1> QED BY <1>1, Invariance, PTL

\* No item is handed out twice.
THEOREM NoItemTwice == NoOverflow /\ Spec => []ClaimsDisjoint
<1>1. IInv => ClaimsDisjoint
  BY DEF IInv, ClaimsInv
<1> QED BY <1>1, Invariance, PTL

\* When the threads are joined no item was missed.
THEOREM NoItemMissed == NoOverflow /\ Spec => []JoinedMeansAllClaimed
<1>1. IInv => JoinedMeansAllClaimed
  <2> SUFFICES ASSUME IInv, Joined PROVE UNION {Items(claims[k]) : k \in DOMAIN claims} = Indices
    BY DEF JoinedMeansAllClaimed
  <2>1. Caller \in Stopped
    BY ParallelForAssumption DEF IInv, TypeOK, CallerInv, Joined, Stopped
  <2>2. nextIndex >= NItems /\ nextIndex \in Int
    BY <2>1 DEF IInv, IndexInv, TypeOK
  <2>3. \A i \in Indices : i < nextIndex
    BY <2>2, ParallelForAssumption DEF Indices
  <2>4. \A i \in Indices : \E k \in DOMAIN claims : i \in Items(claims[k])
    BY <2>3 DEF IInv, ClaimsInv
  <2>5. \A k \in DOMAIN claims : Items(claims[k]) \subseteq Indices
    BY ClaimTypes, ParallelForAssumption DEF IInv, ClaimsInv, Items, Indices
  <2> QED BY <2>4, <2>5
<1> QED BY <1>1, Invariance, PTL
=============================================================================
