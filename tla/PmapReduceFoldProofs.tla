------------------------ MODULE PmapReduceFoldProofs ------------------------
(***************************************************************************)
(* Proofs about PmapReduceFold for any number of threads, items and items  *)
(* per claim, when nextIndex has room for one claim past the domain by     *)
(* every thread (NoOverflow).                                              *)
(***************************************************************************)
EXTENDS PmapReduceFold, ParallelForProofs, SequenceTheorems

(* Sequences of items.                                                      *)

LEMMA RangeItemsFacts ==
  ASSUME NEW from \in Nat, NEW to \in Nat, from <= to, NEW r, r = [from |-> from, to |-> to]
  PROVE  /\ RangeItems(r) \in Seq(Nat)
         /\ Len(RangeItems(r)) = to - from
         /\ DOMAIN RangeItems(r) = 1 .. (to - from)
         /\ \A i \in 1 .. (to - from) : RangeItems(r)[i] = from + i - 1
         /\ ToSet(RangeItems(r)) = Items(r)
<1>1. /\ RangeItems(r) = [i \in 1 .. (to - from) |-> from + i - 1]
      /\ to - from \in Nat
  BY DEF RangeItems
<1>2. \A i \in 1 .. (to - from) : from + i - 1 \in Nat
  OBVIOUS
<1>3. RangeItems(r) \in Seq(Nat) /\ Len(RangeItems(r)) = to - from
  BY <1>1, <1>2
<1>4. ASSUME NEW i \in from .. (to - 1)
      PROVE  \E k \in 1 .. (to - from) : i = RangeItems(r)[k]
  <2>1. i - from + 1 \in 1 .. (to - from) /\ RangeItems(r)[i - from + 1] = i
    BY <1>1
  <2> QED BY <2>1
<1>5. \A k \in 1 .. (to - from) : RangeItems(r)[k] \in from .. (to - 1)
  BY <1>1
<1>6. ToSet(RangeItems(r)) = Items(r)
  <2>1. ToSet(RangeItems(r)) = {RangeItems(r)[k] : k \in 1 .. (to - from)} /\ Items(r) = from .. (to - 1)
    BY <1>3 DEF ToSet, Items
  <2>2. \A x : x \in {RangeItems(r)[k] : k \in 1 .. (to - from)} <=> x \in from .. (to - 1)
    BY <1>4, <1>5
  <2> QED BY <2>1, <2>2
<1> QED BY <1>1, <1>3, <1>6

LEMMA SequenceOf ==
  ASSUME NEW S, NEW m \in Nat, NEW f, f = [i \in 1 .. m |-> f[i]], \A i \in 1 .. m : f[i] \in S
  PROVE  f \in Seq(S)
<1>1. f \in [1 .. m -> S]
  OBVIOUS
<1> QED BY <1>1, SeqDef

\* The items of two sequences put together, and their order.
LEMMA ConcatFacts ==
  ASSUME NEW S, NEW s \in Seq(S), NEW t \in Seq(S)
  PROVE  /\ s \o t \in Seq(S)
         /\ ToSet(s \o t) = ToSet(s) \cup ToSet(t)
         /\ \A i \in DOMAIN (s \o t) :
              \/ i \in DOMAIN s /\ (s \o t)[i] = s[i]
              \/ i - Len(s) \in DOMAIN t /\ (s \o t)[i] = t[i - Len(s)] /\ i > Len(s)
<1>1. /\ s \o t \in Seq(S) /\ Len(s \o t) = Len(s) + Len(t)
      /\ DOMAIN s = 1 .. Len(s) /\ DOMAIN t = 1 .. Len(t)
      /\ DOMAIN (s \o t) = 1 .. (Len(s) + Len(t))
      /\ Len(s) \in Nat /\ Len(t) \in Nat
  OBVIOUS
<1>2. \A i \in 1 .. (Len(s) + Len(t)) :
        (s \o t)[i] = IF i <= Len(s) THEN s[i] ELSE t[i - Len(s)]
  OBVIOUS
<1>3. \A i \in DOMAIN (s \o t) :
        \/ i \in DOMAIN s /\ (s \o t)[i] = s[i]
        \/ i - Len(s) \in DOMAIN t /\ (s \o t)[i] = t[i - Len(s)] /\ i > Len(s)
  BY <1>1, <1>2
<1>4. ToSet(s \o t) \subseteq ToSet(s) \cup ToSet(t)
  BY <1>3 DEF ToSet
<1>5. ToSet(s) \subseteq ToSet(s \o t)
  BY <1>1, <1>2 DEF ToSet
<1>6. ASSUME NEW k \in DOMAIN t
      PROVE  t[k] \in ToSet(s \o t)
  <2>1. k + Len(s) \in DOMAIN (s \o t) /\ (s \o t)[k + Len(s)] = t[k]
    BY <1>1, <1>2
  <2> QED BY <2>1 DEF ToSet
<1> QED BY <1>1, <1>3, <1>4, <1>5, <1>6 DEF ToSet

LEMMA ConcatDistinct ==
  ASSUME NEW S, NEW s \in Seq(S), NEW t \in Seq(S), IsInjective(s), IsInjective(t),
         ToSet(s) \cap ToSet(t) = {}
  PROVE  IsInjective(s \o t)
<1> SUFFICES ASSUME NEW i \in DOMAIN (s \o t), NEW j \in DOMAIN (s \o t), (s \o t)[i] = (s \o t)[j]
             PROVE  i = j
  BY DEF IsInjective
<1>1. i \in Nat /\ j \in Nat /\ Len(s) \in Nat
  OBVIOUS
<1>2. CASE i \in DOMAIN s /\ j \in DOMAIN s /\ s[i] = s[j]
  BY <1>2 DEF IsInjective
<1>3. CASE /\ i - Len(s) \in DOMAIN t /\ j - Len(s) \in DOMAIN t
           /\ t[i - Len(s)] = t[j - Len(s)]
  <2>1. i - Len(s) = j - Len(s)
    BY <1>3 DEF IsInjective
  <2> QED BY <1>1, <2>1
<1>4. CASE \E k \in DOMAIN s, l \in DOMAIN t : s[k] = t[l]
  BY <1>4 DEF ToSet
<1> QED BY <1>2, <1>3, <1>4, ConcatFacts

\* Appending what comes after keeps a sequence in increasing order.
LEMMA ConcatIncreasing ==
  ASSUME NEW s \in Seq(Nat), NEW t \in Seq(Nat),
         \A i, j \in DOMAIN s : i < j => s[i] < s[j],
         \A i, j \in DOMAIN t : i < j => t[i] < t[j],
         \A x \in ToSet(s), y \in ToSet(t) : x < y,
         NEW i \in DOMAIN (s \o t), NEW j \in DOMAIN (s \o t), i < j
  PROVE  (s \o t)[i] < (s \o t)[j]
<1>1. /\ DOMAIN s = 1 .. Len(s) /\ DOMAIN t = 1 .. Len(t) /\ Len(s) \in Nat
      /\ i \in Nat /\ j \in Nat
  OBVIOUS
<1>2. CASE i \in DOMAIN s /\ (s \o t)[i] = s[i] /\ j \in DOMAIN s /\ (s \o t)[j] = s[j]
  BY <1>2
<1>3. CASE /\ i - Len(s) \in DOMAIN t /\ (s \o t)[i] = t[i - Len(s)]
           /\ j - Len(s) \in DOMAIN t /\ (s \o t)[j] = t[j - Len(s)]
  <2>1. i - Len(s) < j - Len(s)
    BY <1>1
  <2> QED BY <1>3, <2>1
<1>4. CASE /\ i \in DOMAIN s /\ (s \o t)[i] = s[i]
           /\ j - Len(s) \in DOMAIN t /\ (s \o t)[j] = t[j - Len(s)]
  BY <1>4 DEF ToSet
<1>5. CASE i > Len(s) /\ j \in DOMAIN s
  BY <1>1, <1>5
<1>6. \A k \in DOMAIN (s \o t) :
        \/ k \in DOMAIN s /\ (s \o t)[k] = s[k]
        \/ k - Len(s) \in DOMAIN t /\ (s \o t)[k] = t[k - Len(s)] /\ k > Len(s)
  BY ConcatFacts
<1> QED BY <1>2, <1>3, <1>4, <1>5, <1>6

-----------------------------------------------------------------------------
(* The inductive invariant.                                                 *)

FoldIInv == IInv /\ FoldInv

LEMMA FoldTypes ==
  ASSUME FoldIInv
  PROVE  /\ NItems \in Nat /\ nextIndex \in Nat /\ Cardinality(Threads) \in Nat
         /\ combined \in Nat /\ combined <= Cardinality(Threads)
         /\ thread \in [Threads -> {"claiming", "working", "stopped", "absent"}]
         /\ range \in [Threads -> [from : Int, to : Int]]
<1>1. Cardinality(Threads) \in Nat
  BY FS_CardinalityType, ParallelForAssumption
<1>2. NItems \in Nat
  BY ParallelForAssumption
<1>3. nextIndex \in Nat
  BY ParallelForAssumption DEF FoldIInv, IInv, TypeOK, IndexInv
<1> QED BY <1>1, <1>2, <1>3 DEF FoldIInv, FoldInv, ResultInv, IInv, TypeOK

LEMMA SequenceTypes ==
  ASSUME FoldIInv
  PROVE  /\ slots \in Seq(Threads) /\ partials \in [Threads -> Seq(Indices)]
         /\ result \in Seq(Indices)
         /\ DOMAIN slots = 1 .. Len(slots) /\ Len(slots) \in Nat
         /\ \A t \in Threads : /\ partials[t] \in Seq(Indices) /\ partials[t] \in Seq(Nat)
                               /\ ToSet(partials[t]) \subseteq Indices
<1>1. Indices \subseteq Nat
  BY ParallelForAssumption DEF Indices
<1>2. \A s \in Seq(Indices) : s \in Seq(Nat) /\ ToSet(s) \subseteq Indices
  <2>1. ASSUME NEW s \in Seq(Indices) PROVE s \in Seq(Nat)
    BY <1>1, SeqMonotonic
  <2>2. ASSUME NEW s \in Seq(Indices) PROVE ToSet(s) \subseteq Indices
    BY DEF ToSet
  <2> QED BY <2>1, <2>2
<1> QED BY <1>2 DEF FoldIInv, FoldInv, SlotsInv, ResultInv

\* What a thread holds lies in the domain and below the index.
LEMMA HeldRange ==
  ASSUME FoldIInv, NEW t \in Threads, NEW x \in Held(t)
  PROVE  x \in Indices /\ x \in Nat /\ x < nextIndex
<1>1. x \in Indices
  <2>1. CASE x \in ToSet(partials[t])
    BY <2>1, SequenceTypes
  <2>2. CASE x \in Items(range[t])
    <3>1. x \in range[t].from .. (range[t].to - 1)
      BY <2>2 DEF Items
    <3>2. thread[t] = "working" => 0 <= range[t].from /\ range[t].to <= NItems
      BY DEF FoldIInv, FoldInv, RangesInv
    <3>3. thread[t] # "working" => range[t].from = 0 /\ range[t].to = 0
      BY DEF FoldIInv, FoldInv, RangesInv, NoRange
    <3>4. range[t].from \in Int /\ range[t].to \in Int /\ NItems \in Nat
      BY FoldTypes
    <3> QED BY <3>1, <3>2, <3>3, <3>4 DEF Indices
  <2> QED BY <2>1, <2>2 DEF Held
<1>2. x < nextIndex
  BY <1>1 DEF FoldIInv, FoldInv, HeldInv
<1> QED BY <1>1, <1>2, ParallelForAssumption DEF Indices

LEMMA HeldUnchanged ==
  ASSUME NEW t, partials'[t] = partials[t], range'[t] = range[t]
  PROVE  Held(t)' = Held(t)
  BY DEF Held, Items, ToSet

\* A thread that does not work on a range holds what it has folded.
LEMMA HeldAtRest ==
  ASSUME FoldIInv, NEW t \in Threads, thread[t] # "working"
  PROVE  range[t] = NoRange /\ Items(range[t]) = {} /\ Held(t) = ToSet(partials[t])
<1>1. range[t] = NoRange
  BY DEF FoldIInv, FoldInv, RangesInv
<1> QED BY <1>1 DEF NoRange, Items, Held

\* Before the join the serial loop has not begun.
LEMMA NotCombinedYet ==
  ASSUME FoldIInv, NEW t \in Threads, thread[t] \in {"claiming", "working"}
  PROVE  combined = 0 /\ \A x \in Indices : x \notin ToSet(result)
<1>1. combined = 0
  <2>1. ~Joined /\ combined \in Nat
    BY FoldTypes DEF Joined
  <2>2. combined > 0 => Joined
    BY DEF FoldIInv, FoldInv, ResultInv
  <2> QED BY <2>1, <2>2
<1>2. \A k \in DOMAIN slots : ~(k <= combined)
  BY <1>1, SequenceTypes
<1> QED BY <1>1, <1>2 DEF FoldIInv, FoldInv, ResultInv

LEMMA ResultStays ==
  ASSUME FoldIInv, NEW t \in Threads, thread[t] \in {"claiming", "working"},
         UNCHANGED <<combined, result>>, slots' \in Seq(Threads)
  PROVE  ResultInv'
<1>1. combined' = 0 /\ \A x \in Indices : x \notin ToSet(result')
  BY NotCombinedYet
<1>2. \A k \in DOMAIN slots' : ~(k <= combined')
  BY <1>1
<1>3. result \in Seq(Indices) /\ IsInjective(result) /\ combined \in 0 .. Cardinality(Threads)
  BY DEF FoldIInv, FoldInv, ResultInv
<1>4. ToSet(result)' = ToSet(result') /\ IsInjective(result)' = IsInjective(result)
  BY DEF ToSet, IsInjective
<1> QED BY <1>1, <1>2, <1>3, <1>4 DEF ResultInv, Indices

\* The range a thread claims begins at the index and lies in the domain.
LEMMA ClaimedRange ==
  ASSUME NoOverflow, FoldIInv, NEW t \in Threads, ClaimItems(t)
  PROVE  \E r : /\ range' = [range EXCEPT ![t] = r] /\ thread' = [thread EXCEPT ![t] = "working"]
                /\ r.from = nextIndex /\ r.to \in Nat /\ nextIndex <= r.to
                /\ r.to <= nextIndex' /\ r.to <= NItems
                /\ nextIndex' \in Nat /\ nextIndex <= nextIndex'
                /\ \A i \in Indices : i < nextIndex' <=> i < nextIndex \/ i \in Items(r)
<1>1. nextIndex \in Nat /\ ItemsPerClaim \in Nat \ {0} /\ NItems \in Nat /\ nextIndex < NItems
  <2>1. ItemsPerClaim \in Nat \ {0}
    BY ParallelForAssumption DEF NoOverflow
  <2> QED BY <2>1, FoldTypes DEF ClaimItems
<1>2. Wrap(nextIndex + ItemsPerClaim) = nextIndex + ItemsPerClaim
  BY IndexHasRoom DEF FoldIInv, IInv, ClaimItems
<1> DEFINE r == [from |-> nextIndex, to |-> Minimum(nextIndex + ItemsPerClaim, NItems)]
<1>3. /\ nextIndex' = nextIndex + ItemsPerClaim
      /\ range' = [range EXCEPT ![t] = r] /\ thread' = [thread EXCEPT ![t] = "working"]
  BY <1>2 DEF ClaimItems
<1>4. /\ r.from = nextIndex /\ r.to \in Nat /\ nextIndex <= r.to
      /\ r.to <= nextIndex' /\ r.to <= NItems
      /\ r.to = nextIndex' \/ r.to = NItems
      /\ nextIndex' \in Nat /\ nextIndex <= nextIndex'
  BY <1>1, <1>3 DEF Minimum
<1> HIDE DEF r
<1>5. \A i \in Indices : i < nextIndex' <=> i < nextIndex \/ i \in Items(r)
  BY <1>1, <1>4 DEF Indices, Items
<1> QED BY <1>3, <1>4, <1>5

LEMMA ClaimKeepsFold ==
  ASSUME NoOverflow, FoldIInv, NEW t \in Threads, Claim(t)
  PROVE  FoldInv'
<1>1. /\ ClaimItems(t) /\ UNCHANGED <<slots, partials, combined, result>>
      /\ thread[t] = "claiming"
  BY DEF Claim, foldVars, ClaimItems
<1>2. PICK r : /\ range' = [range EXCEPT ![t] = r] /\ thread' = [thread EXCEPT ![t] = "working"]
               /\ r.from = nextIndex /\ r.to \in Nat /\ nextIndex <= r.to
               /\ r.to <= nextIndex' /\ r.to <= NItems
               /\ nextIndex' \in Nat /\ nextIndex <= nextIndex'
               /\ \A i \in Indices : i < nextIndex' <=> i < nextIndex \/ i \in Items(r)
  BY <1>1, ClaimedRange
<1>3. /\ range'[t] = r /\ thread'[t] = "working"
      /\ \A u \in Threads \ {t} : range'[u] = range[u] /\ thread'[u] = thread[u]
  BY <1>2, FoldTypes
<1>4. SlotsInv' /\ SlotsInOrder'
  BY <1>1 DEF FoldIInv, FoldInv, SlotsInv, SlotsInOrder, IsInjective, ToSet, Indices
<1>5. RangesInv'
  <2>1. \A x \in ToSet(partials[t]) : x < nextIndex
    BY HeldRange DEF Held
  <2>2. ASSUME NEW u \in Threads, u # t
        PROVE  IF thread'[u] = "working"
               THEN /\ 0 <= range'[u].from /\ range'[u].from <= range'[u].to
                    /\ range'[u].to <= NItems /\ range'[u].to <= nextIndex'
                    /\ \A i \in ToSet(partials[u]) : i < range'[u].from
               ELSE range'[u] = NoRange
    BY <1>2, <1>3, <2>2, FoldTypes DEF FoldIInv, FoldInv, RangesInv
  <2>3. \A u \in Threads : ToSet(partials[u])' = ToSet(partials[u])
    BY <1>1 DEF ToSet
  <2> QED BY <1>2, <1>3, <2>1, <2>2, <2>3, FoldTypes DEF RangesInv
<1>6. Held(t)' = Held(t) \cup Items(r)
  BY <1>1, <1>3, HeldAtRest DEF Held, Items, ToSet
<1>7. \A u \in Threads \ {t} : Held(u)' = Held(u)
  BY <1>1, <1>3, HeldUnchanged
<1>8. \A u \in Threads : Held(u) \cap Items(r) = {}
  BY <1>2, HeldRange, FoldTypes DEF Items
<1>9. HeldInv'
  <2>1. \A u, v \in Threads : u # v => Held(u)' \cap Held(v)' = {}
    BY <1>6, <1>7, <1>8 DEF FoldIInv, FoldInv, HeldInv
  <2>2. \A i \in Indices : i < nextIndex' <=> \E u \in Threads : i \in Held(u)'
    BY <1>2, <1>6, <1>7 DEF FoldIInv, FoldInv, HeldInv
  <2> QED BY <2>1, <2>2 DEF HeldInv, Indices
<1>10. ResultInv'
  BY <1>1, ResultStays, SequenceTypes
<1> QED BY <1>4, <1>5, <1>9, <1>10 DEF FoldInv

LEMMA ClaimWorkerKeepsFold ==
  ASSUME FoldIInv, NEW t \in Threads, ClaimWorker(t)
  PROVE  FoldInv'
<1>1. /\ slots' = Append(slots, t) /\ thread[t] = "working"
      /\ UNCHANGED <<nextIndex, thread, range, claims, partials, combined, result>>
      /\ ~ \E i \in 1 .. Len(slots) : slots[i] = t
  BY DEF ClaimWorker, forVars, Contains
<1>2. SlotsInv'
  <2>1. /\ slots' \in Seq(Threads) /\ DOMAIN slots' = 1 .. (Len(slots) + 1)
        /\ slots'[Len(slots) + 1] = t
        /\ \A i \in 1 .. Len(slots) : slots'[i] = slots[i]
    BY <1>1, SequenceTypes
  <2>2. DOMAIN slots = 1 .. Len(slots) /\ Len(slots) \in Nat /\ IsInjective(slots)
    BY SequenceTypes DEF FoldIInv, FoldInv, SlotsInv
  <2>3. IsInjective(slots')
    BY <1>1, <2>1, <2>2 DEF IsInjective
  <2>4. ToSet(slots) \subseteq ToSet(slots')
    <3>1. \A i \in DOMAIN slots : i \in DOMAIN slots' /\ slots'[i] = slots[i]
      BY <2>1, <2>2
    <3> QED BY <3>1 DEF ToSet
  <2>5. IsInjective(slots)' = IsInjective(slots') /\ ToSet(slots)' = ToSet(slots') /\ Indices' = Indices
    BY DEF IsInjective, ToSet, Indices
  <2> QED BY <1>1, <2>1, <2>3, <2>4, <2>5 DEF FoldIInv, FoldInv, SlotsInv
<1>3. SlotsInOrder' /\ RangesInv' /\ HeldInv'
  <2>1. \A u \in Threads : Held(u)' = Held(u)
    BY <1>1, HeldUnchanged
  <2>2. SlotsInOrder' /\ HeldInv'
    BY <1>1, <2>1 DEF FoldIInv, FoldInv, SlotsInOrder, HeldInv, Indices
  <2>3. RangesInv'
    BY <1>1 DEF FoldIInv, FoldInv, RangesInv, ToSet
  <2> QED BY <2>2, <2>3
<1>4. ResultInv'
  BY <1>1, <1>2, ResultStays DEF SlotsInv
<1> QED BY <1>2, <1>3, <1>4 DEF FoldInv

LEMMA RunKernelKeepsFold ==
  ASSUME FoldIInv, NEW t \in Threads, RunKernel(t)
  PROVE  FoldInv'
<1> DEFINE r == range[t]
           more == RangeItems(r)
<1>1. /\ thread[t] = "working" /\ \E i \in 1 .. Len(slots) : slots[i] = t
      /\ thread' = [thread EXCEPT ![t] = "claiming"] /\ range' = [range EXCEPT ![t] = NoRange]
      /\ partials' = [partials EXCEPT ![t] = partials[t] \o more]
      /\ UNCHANGED <<nextIndex, slots, combined, result>>
  BY DEF RunKernel, FinishRange, Contains
<1>2. /\ 0 <= r.from /\ r.from <= r.to /\ r.to <= NItems
      /\ \A x \in ToSet(partials[t]) : x < r.from
  BY <1>1 DEF FoldIInv, FoldInv, RangesInv
<1>3. /\ r.from \in Nat /\ r.to \in Nat /\ r = [from |-> r.from, to |-> r.to]
  BY <1>2, FoldTypes
<1>4. /\ more \in Seq(Nat) /\ Len(more) = r.to - r.from /\ DOMAIN more = 1 .. (r.to - r.from)
      /\ \A i \in 1 .. (r.to - r.from) : more[i] = r.from + i - 1
      /\ ToSet(more) = Items(r)
  BY <1>2, <1>3, RangeItemsFacts
<1>5. more \in Seq(Indices)
  <2>1. \A i \in 1 .. (r.to - r.from) : more[i] \in Indices
    <3>1. ASSUME NEW i \in 1 .. (r.to - r.from) PROVE r.from + i - 1 \in 0 .. (NItems - 1)
      BY <1>2, <1>3, FoldTypes
    <3> QED BY <1>4, <3>1 DEF Indices
  <2>2. r.to - r.from \in Nat /\ more = [i \in 1 .. (r.to - r.from) |-> more[i]]
    BY <1>2, <1>3 DEF RangeItems
  <2> HIDE DEF more, r
  <2> QED BY <2>1, <2>2, SequenceOf
<1> HIDE DEF more
<1>6. /\ partials[t] \in Seq(Indices) /\ partials[t] \in Seq(Nat)
      /\ partials \in [Threads -> Seq(Indices)]
  BY SequenceTypes
<1>7. /\ partials[t] \o more \in Seq(Indices)
      /\ ToSet(partials[t] \o more) = ToSet(partials[t]) \cup Items(r)
  BY <1>4, <1>5, <1>6, ConcatFacts
<1>8. /\ partials'[t] = partials[t] \o more /\ range'[t] = NoRange /\ thread'[t] = "claiming"
      /\ \A u \in Threads \ {t} : /\ partials'[u] = partials[u] /\ range'[u] = range[u]
                                  /\ thread'[u] = thread[u]
  BY <1>1, <1>6, FoldTypes
<1>9. SlotsInv'
  <2>1. t \in ToSet(slots)
    BY <1>1, SequenceTypes DEF ToSet
  <2>2. \A u \in Threads : partials'[u] # Identity => u \in ToSet(slots)
    BY <1>8, <2>1 DEF FoldIInv, FoldInv, SlotsInv
  <2>3. partials' \in [Threads -> Seq(Indices)]
    BY <1>1, <1>6, <1>7
  <2> QED BY <1>1, <2>2, <2>3 DEF FoldIInv, FoldInv, SlotsInv, IsInjective, ToSet, Indices, Identity
<1>10. SlotsInOrder'
  <2>1. \A i, j \in DOMAIN partials[t] : i < j => partials[t][i] < partials[t][j]
    BY DEF FoldIInv, FoldInv, SlotsInOrder
  <2>2. \A i, j \in DOMAIN more : i < j => more[i] < more[j]
    BY <1>3, <1>4
  <2>3. \A x \in ToSet(partials[t]), y \in ToSet(more) : x < y
    <3>1. ASSUME NEW x \in ToSet(partials[t]), NEW y \in r.from .. (r.to - 1) PROVE x < y
      <4>1. x \in Nat /\ x < r.from
        BY <1>2, SequenceTypes, ParallelForAssumption DEF Indices
      <4> QED BY <1>3, <4>1
    <3> QED BY <1>4, <3>1 DEF Items
  <2>4. ASSUME NEW i \in DOMAIN (partials[t] \o more), NEW j \in DOMAIN (partials[t] \o more), i < j
        PROVE  (partials[t] \o more)[i] < (partials[t] \o more)[j]
    BY <1>4, <1>6, <2>1, <2>2, <2>3, <2>4, ConcatIncreasing
  <2>5. ASSUME NEW u \in Threads, NEW i \in DOMAIN partials'[u], NEW j \in DOMAIN partials'[u], i < j
        PROVE  partials'[u][i] < partials'[u][j]
    <3>1. CASE u = t
      BY <1>8, <2>4, <2>5, <3>1
    <3>2. CASE u # t
      BY <1>8, <2>5, <3>2 DEF FoldIInv, FoldInv, SlotsInOrder
    <3> QED BY <3>1, <3>2
  <2> QED BY <2>5 DEF SlotsInOrder
<1>11. RangesInv'
  <2>1. ASSUME NEW u \in Threads, u # t
        PROVE  IF thread'[u] = "working"
               THEN /\ 0 <= range'[u].from /\ range'[u].from <= range'[u].to
                    /\ range'[u].to <= NItems /\ range'[u].to <= nextIndex'
                    /\ \A i \in ToSet(partials'[u]) : i < range'[u].from
               ELSE range'[u] = NoRange
    BY <1>1, <1>8, <2>1 DEF FoldIInv, FoldInv, RangesInv
  <2>2. \A u \in Threads : ToSet(partials[u])' = ToSet(partials'[u])
    BY DEF ToSet
  <2> QED BY <1>8, <2>1, <2>2 DEF RangesInv, NoRange
<1>12. \A u \in Threads : Held(u)' = Held(u)
  <2>1. Items(NoRange) = {}
    BY DEF Items, NoRange
  <2>2. Held(t)' = ToSet(partials'[t]) \cup Items(range'[t])
    BY DEF Held, ToSet, Items
  <2>3. Held(t)' = Held(t)
    BY <1>7, <1>8, <2>1, <2>2 DEF Held
  <2> QED BY <1>8, <2>3, HeldUnchanged
<1>13. HeldInv'
  BY <1>1, <1>12 DEF FoldIInv, FoldInv, HeldInv, Indices
<1>14. ResultInv'
  BY <1>1, ResultStays, SequenceTypes
<1> QED BY <1>9, <1>10, <1>11, <1>13, <1>14 DEF FoldInv

\* The last claim of a thread moves the index past the domain once more.
LEMMA LastClaimKeepsFold ==
  ASSUME NoOverflow, FoldIInv, NEW t \in Threads, LastClaim(t)
  PROVE  FoldInv'
<1>1. /\ thread[t] = "claiming" /\ nextIndex >= NItems
      /\ nextIndex' = Wrap(nextIndex + ItemsPerClaim)
      /\ thread' = [thread EXCEPT ![t] = "stopped"]
      /\ UNCHANGED <<range, slots, partials, combined, result>>
  BY DEF LastClaim, Stop, foldVars
<1>2. nextIndex \in Nat /\ NItems \in Nat /\ ItemsPerClaim \in Nat
  BY FoldTypes, ParallelForAssumption DEF NoOverflow
<1>3. nextIndex' = nextIndex + ItemsPerClaim
  BY <1>1, IndexHasRoom DEF FoldIInv, IInv
<1>4. nextIndex' \in Nat /\ nextIndex <= nextIndex' /\ \A i \in Indices : i < nextIndex /\ i < nextIndex'
  BY <1>1, <1>2, <1>3 DEF Indices
<1>5. SlotsInv' /\ SlotsInOrder'
  BY <1>1 DEF FoldIInv, FoldInv, SlotsInv, SlotsInOrder, IsInjective, ToSet, Indices
<1>6. RangesInv'
  <2>1. /\ thread'[t] = "stopped" /\ range[t] = NoRange
        /\ \A u \in Threads \ {t} : thread'[u] = thread[u]
    BY <1>1, FoldTypes, HeldAtRest
  <2>2. ASSUME NEW u \in Threads, u # t
        PROVE  IF thread'[u] = "working"
               THEN /\ 0 <= range[u].from /\ range[u].from <= range[u].to
                    /\ range[u].to <= NItems /\ range[u].to <= nextIndex'
                    /\ \A i \in ToSet(partials[u]) : i < range[u].from
               ELSE range[u] = NoRange
    BY <1>2, <1>4, <2>1, <2>2, FoldTypes DEF FoldIInv, FoldInv, RangesInv
  <2>3. \A u \in Threads : ToSet(partials[u])' = ToSet(partials[u])
    BY <1>1 DEF ToSet
  <2> QED BY <1>1, <2>1, <2>2, <2>3 DEF RangesInv, NoRange
<1>7. \A u \in Threads : Held(u)' = Held(u)
  BY <1>1, HeldUnchanged
<1>8. HeldInv'
  BY <1>4, <1>7 DEF FoldIInv, FoldInv, HeldInv, Indices
<1>9. ResultInv'
  BY <1>1, ResultStays, SequenceTypes
<1> QED BY <1>5, <1>6, <1>8, <1>9 DEF FoldInv

\* The serial loop takes the next slot's items, none of which it has.
LEMMA CombineSlotKeepsFold ==
  ASSUME FoldIInv, CombineSlot
  PROVE  FoldInv'
<1> DEFINE next == IF combined + 1 \in DOMAIN slots THEN partials[slots[combined + 1]] ELSE Identity
<1>1. /\ Joined /\ combined < Cardinality(Threads) /\ combined' = combined + 1
      /\ result' = result \o next
      /\ UNCHANGED <<nextIndex, thread, range, slots, partials>>
  BY DEF CombineSlot, forVars
<1>2. SlotsInv' /\ SlotsInOrder' /\ RangesInv'
  BY <1>1 DEF FoldIInv, FoldInv, SlotsInv, SlotsInOrder, RangesInv, IsInjective, ToSet, Indices
<1>3. HeldInv'
  <2>1. \A u \in Threads : Held(u)' = Held(u)
    BY <1>1, HeldUnchanged
  <2> QED BY <1>1, <2>1 DEF FoldIInv, FoldInv, HeldInv, Indices
<1>4. \A k \in DOMAIN slots : slots[k] \in Threads
  BY SequenceTypes
<1>5. next \in Seq(Indices) /\ IsInjective(next)
  <2>1. CASE combined + 1 \in DOMAIN slots
    <3>1. \A s \in Threads : partials[s] \in Seq(Indices) /\ partials[s] \in Seq(Nat)
      BY SequenceTypes
    <3>2. ASSUME NEW s \in Threads PROVE IsInjective(partials[s])
      <4>1. \A i, j \in DOMAIN partials[s] : i < j => partials[s][i] < partials[s][j]
        BY DEF FoldIInv, FoldInv, SlotsInOrder
      <4>2. \A i \in DOMAIN partials[s] : i \in Nat /\ partials[s][i] \in Nat
        BY <3>1
      <4> QED BY <4>1, <4>2 DEF IsInjective
    <3> QED BY <1>4, <2>1, <3>1, <3>2
  <2>2. CASE combined + 1 \notin DOMAIN slots
    BY <2>2 DEF Identity, IsInjective
  <2> QED BY <2>1, <2>2
<1>6. \A x : x \in ToSet(next) <=> \E k \in DOMAIN slots : k = combined + 1 /\ x \in ToSet(partials[slots[k]])
  BY DEF Identity, ToSet
<1> HIDE DEF next
<1>7. \A x \in ToSet(result) : \E k \in DOMAIN slots : k <= combined /\ x \in ToSet(partials[slots[k]])
  <2>1. ToSet(result) \subseteq Indices
    BY SequenceTypes DEF ToSet
  <2> QED BY <2>1 DEF FoldIInv, FoldInv, ResultInv
<1>8. ToSet(result) \cap ToSet(next) = {}
  <2> SUFFICES ASSUME NEW x \in ToSet(result), x \in ToSet(next) PROVE FALSE
    OBVIOUS
  <2>1. PICK k \in DOMAIN slots : k <= combined /\ x \in ToSet(partials[slots[k]])
    BY <1>7
  <2>2. PICK l \in DOMAIN slots : l = combined + 1 /\ x \in ToSet(partials[slots[l]])
    BY <1>6
  <2>3. k # l
    BY <2>1, <2>2, FoldTypes, SequenceTypes
  <2>4. slots[k] # slots[l]
    BY <2>3 DEF FoldIInv, FoldInv, SlotsInv, IsInjective
  <2>5. Held(slots[k]) \cap Held(slots[l]) = {}
    BY <1>4, <2>4 DEF FoldIInv, FoldInv, HeldInv
  <2> QED BY <2>1, <2>2, <2>5 DEF Held
<1>9. result \in Seq(Indices) /\ IsInjective(result) /\ combined \in Nat
  BY FoldTypes DEF FoldIInv, FoldInv, ResultInv
<1>10. /\ result' \in Seq(Indices) /\ IsInjective(result')
       /\ ToSet(result') = ToSet(result) \cup ToSet(next)
  BY <1>1, <1>5, <1>8, <1>9, ConcatFacts, ConcatDistinct
<1>11. ASSUME NEW x \in Indices
       PROVE  x \in ToSet(result') <=>
                \E k \in DOMAIN slots : k <= combined + 1 /\ x \in ToSet(partials[slots[k]])
  <2>1. x \in ToSet(result) <=> \E k \in DOMAIN slots : k <= combined /\ x \in ToSet(partials[slots[k]])
    BY DEF FoldIInv, FoldInv, ResultInv
  <2>2. \A k \in DOMAIN slots : k <= combined + 1 <=> k <= combined \/ k = combined + 1
    BY <1>9, SequenceTypes
  <2> QED BY <1>6, <1>10, <2>1, <2>2
<1>12. ResultInv'
  <2>1. combined' \in 0 .. Cardinality(Threads) /\ Joined'
    BY <1>1, <1>9, FoldTypes DEF Joined
  <2>2. /\ ToSet(result)' = ToSet(result') /\ IsInjective(result)' = IsInjective(result')
        /\ Indices' = Indices
        /\ \A k \in DOMAIN slots : ToSet(partials[slots[k]])' = ToSet(partials[slots[k]])
    BY <1>1 DEF ToSet, IsInjective, Indices
  <2> QED BY <1>1, <1>10, <1>11, <2>1, <2>2 DEF ResultInv
<1> QED BY <1>2, <1>3, <1>12 DEF FoldInv

LEMMA InitFold ==
  ASSUME NoOverflow, FoldInit
  PROVE  FoldIInv
<1>1. IInv
  BY InitInvariant DEF FoldInit
<1>2. /\ nextIndex = 0 /\ range = [t \in Threads |-> NoRange] /\ slots = <<>>
      /\ partials = [t \in Threads |-> Identity] /\ combined = 0 /\ result = Identity
      /\ \A t \in Threads : thread[t] # "working"
  BY DEF FoldInit, Init
<1>3. ToSet(Identity) = {} /\ Identity \in Seq(Indices) /\ DOMAIN Identity = {} /\ IsInjective(Identity)
  BY DEF Identity, ToSet, IsInjective
<1>4. SlotsInv /\ SlotsInOrder
  BY <1>2, <1>3 DEF SlotsInv, SlotsInOrder, IsInjective
<1>5. RangesInv
  BY <1>2 DEF RangesInv
<1>6. HeldInv
  <2>1. \A t \in Threads : Held(t) = {}
    BY <1>2, <1>3 DEF Held, Items, NoRange
  <2> QED BY <1>2, <2>1 DEF HeldInv, Indices
<1>7. ResultInv
  <2>1. Cardinality(Threads) \in Nat
    BY FS_CardinalityType, ParallelForAssumption
  <2>2. DOMAIN slots = {}
    BY <1>2
  <2> QED BY <1>2, <1>3, <2>1, <2>2 DEF ResultInv
<1> QED BY <1>1, <1>4, <1>5, <1>6, <1>7 DEF FoldIInv, FoldInv

\* However the threads claim, fold and end, the parts of the invariant hold
\* while they run and while their partial results are put together.
THEOREM FoldInvariance == NoOverflow /\ FoldSpec => [](IInv /\ FoldInv)
<1>1. NoOverflow /\ FoldInit => FoldIInv
  BY InitFold
<1>2. NoOverflow /\ FoldIInv /\ [FoldNext]_vars => FoldIInv'
  <2> SUFFICES ASSUME NoOverflow, FoldIInv, [FoldNext]_vars PROVE FoldIInv'
    OBVIOUS
  <2>1. ASSUME NEW t \in Threads, Claim(t) PROVE FoldIInv'
    BY <2>1, ClaimKeepsFold, ClaimItemsKeepsInvariant DEF FoldIInv, Claim
  <2>2. ASSUME UNCHANGED forVars PROVE IInv'
    BY <2>2 DEF FoldIInv, forVars, IInv, TypeOK, IndexInv, ClaimsInv, ClaimsDisjoint, CallerInv, Stopped
  <2>3. ASSUME NEW t \in Threads, ClaimWorker(t) PROVE FoldIInv'
    BY <2>2, <2>3, ClaimWorkerKeepsFold DEF FoldIInv, ClaimWorker
  <2>4. ASSUME NEW t \in Threads, RunKernel(t) PROVE FoldIInv'
    BY <2>4, RunKernelKeepsFold, FinishRangeKeepsInvariant DEF FoldIInv, RunKernel
  <2>5. ASSUME NEW t \in Threads, LastClaim(t) PROVE FoldIInv'
    BY <2>5, LastClaimKeepsFold, StopKeepsInvariant DEF FoldIInv, LastClaim
  <2>6. CASE CombineSlot
    BY <2>2, <2>6, CombineSlotKeepsFold DEF FoldIInv, CombineSlot
  <2>7. CASE FoldDone \/ UNCHANGED vars
    <3>1. UNCHANGED <<nextIndex, thread, range, claims, slots, partials, combined, result>>
          /\ UNCHANGED forVars
      BY <2>7 DEF FoldDone, vars, forVars, foldVars
    <3>2. \A u \in Threads : Held(u)' = Held(u)
      BY <3>1, HeldUnchanged
    <3>3. SlotsInv' /\ SlotsInOrder' /\ RangesInv'
      BY <3>1 DEF FoldIInv, FoldInv, SlotsInv, SlotsInOrder, RangesInv, IsInjective, ToSet, Indices
    <3>4. HeldInv'
      BY <3>1, <3>2 DEF FoldIInv, FoldInv, HeldInv, Indices
    <3>5. ResultInv'
      BY <3>1 DEF FoldIInv, FoldInv, ResultInv, Joined, IsInjective, ToSet, Indices
    <3> QED BY <2>2, <3>1, <3>3, <3>4, <3>5 DEF FoldIInv, FoldInv
  <2> QED BY <2>1, <2>3, <2>4, <2>5, <2>6, <2>7 DEF FoldNext
<1>3. NoOverflow => NoOverflow'
  BY DEF NoOverflow
<1> QED BY <1>1, <1>2, <1>3, PTL DEF FoldSpec, FoldIInv

\* A worker never folds an earlier item after a later one.
THEOREM PartialsInOrder == NoOverflow /\ FoldSpec => []SlotsInOrder
<1>1. FoldInv => SlotsInOrder
  BY DEF FoldInv
<1> QED BY <1>1, FoldInvariance, PTL

\* The threads that have a slot are no more than the threads asked for.
LEMMA SlotsBounded ==
  ASSUME FoldIInv
  PROVE  Len(slots) <= Cardinality(Threads)
<1>1. slots \in [1 .. Len(slots) -> Threads] /\ Len(slots) \in Nat /\ IsInjective(slots)
  BY SequenceTypes DEF FoldIInv, FoldInv, SlotsInv
<1>2. slots \in Injection(1 .. Len(slots), Threads)
  BY <1>1 DEF Injection, IsInjective
<1>3. Cardinality(1 .. Len(slots)) <= Cardinality(Threads)
  BY <1>2, FS_Injection, ParallelForAssumption
<1>4. Cardinality(1 .. Len(slots)) = Len(slots)
  <2>1. Cardinality(1 .. Len(slots)) = IF 1 > Len(slots) THEN 0 ELSE Len(slots) - 1 + 1
    BY <1>1, FS_Interval
  <2> QED BY <1>1, <2>1
<1> QED BY <1>3, <1>4

\* Every item enters the result of the word exactly once.
THEOREM EveryItemOnce == NoOverflow /\ FoldSpec => []ResultHasEveryItem
<1>1. IInv /\ FoldInv => ResultHasEveryItem
  <2> SUFFICES ASSUME FoldIInv, Returned PROVE Len(result) = NItems /\ ToSet(result) = Indices
    BY DEF ResultHasEveryItem, FoldIInv
  <2>1. Joined /\ combined = Cardinality(Threads)
    <3>1. Cardinality(Threads) # 0
      BY ParallelForAssumption, FS_EmptySet
    <3>2. combined > 0
      BY <3>1, FoldTypes DEF Returned
    <3> QED BY <3>2 DEF FoldIInv, FoldInv, ResultInv, Returned
  <2>2. \A i \in Indices : i < nextIndex
    <3>1. Caller \in Stopped
      BY <2>1, ParallelForAssumption DEF FoldIInv, IInv, TypeOK, CallerInv, Joined, Stopped
    <3>2. nextIndex >= NItems
      BY <3>1 DEF FoldIInv, IInv, IndexInv
    <3> QED BY <3>2, FoldTypes DEF Indices
  <2>3. Indices \subseteq ToSet(result)
    <3> SUFFICES ASSUME NEW i \in Indices PROVE i \in ToSet(result)
      OBVIOUS
    <3>1. PICK t \in Threads : i \in Held(t)
      BY <2>2 DEF FoldIInv, FoldInv, HeldInv
    <3>2. i \in ToSet(partials[t])
      BY <2>1, <3>1, HeldAtRest DEF Joined
    <3>3. partials[t] # Identity
      BY <3>2 DEF ToSet, Identity
    <3>4. PICK k \in DOMAIN slots : slots[k] = t
      BY <3>3 DEF FoldIInv, FoldInv, SlotsInv, ToSet
    <3>5. k <= combined
      BY <2>1, SequenceTypes, SlotsBounded, FoldTypes
    <3> QED BY <3>2, <3>4, <3>5 DEF FoldIInv, FoldInv, ResultInv
  <2>4. ToSet(result) = Indices
    <3>1. ToSet(result) \subseteq Indices
      BY SequenceTypes DEF ToSet
    <3> QED BY <2>3, <3>1
  <2>5. /\ result \in [1 .. Len(result) -> Indices] /\ Len(result) \in Nat
        /\ DOMAIN result = 1 .. Len(result) /\ IsInjective(result)
    BY SequenceTypes DEF FoldIInv, FoldInv, ResultInv
  <2>6. result \in Bijection(1 .. Len(result), Indices)
    <3>1. \A i \in Indices : \E k \in 1 .. Len(result) : result[k] = i
      BY <2>4, <2>5 DEF ToSet
    <3> QED BY <2>5, <3>1 DEF Bijection, Injection, IsInjective, Surjection
  <2>7. Cardinality(Indices) = Len(result)
    BY <2>5, <2>6, FS_CountingElements DEF ExistsBijection
  <2>8. Cardinality(Indices) = NItems
    <3>1. NItems \in Nat
      BY FoldTypes
    <3>2. Cardinality(0 .. (NItems - 1)) = IF 0 > NItems - 1 THEN 0 ELSE (NItems - 1) - 0 + 1
      BY <3>1, FS_Interval
    <3> QED BY <3>1, <3>2 DEF Indices
  <2> QED BY <2>4, <2>7, <2>8
<1> QED BY <1>1, FoldInvariance, PTL

\* The fold shares out the domain exactly as worker_entry does for any kernel:
\* whatever holds of ParallelFor holds of pmap-reduce.  An index that may wrap
\* is no exception.
THEOREM FoldSharesDomain == FoldSpec => Spec
<1>1. FoldInit => Init
  BY DEF FoldInit
<1>2. [FoldNext]_vars => [Next]_forVars
  <2> SUFFICES ASSUME [FoldNext]_vars PROVE [Next]_forVars
    OBVIOUS
  <2>1. ASSUME NEW t \in Threads, Claim(t) PROVE Next
    BY <2>1 DEF Claim, Next
  <2>2. ASSUME NEW t \in Threads, RunKernel(t) PROVE Next
    BY <2>2 DEF RunKernel, Next
  <2>3. ASSUME NEW t \in Threads, LastClaim(t) PROVE Next
    BY <2>3 DEF LastClaim, Next
  <2>4. ASSUME (\E t \in Threads : ClaimWorker(t)) \/ CombineSlot \/ FoldDone \/ UNCHANGED vars
        PROVE  UNCHANGED forVars
    BY <2>4 DEF ClaimWorker, CombineSlot, FoldDone, vars
  <2> QED BY <2>1, <2>2, <2>3, <2>4 DEF FoldNext
<1> QED BY <1>1, <1>2, PTL DEF FoldSpec, Spec
=============================================================================
