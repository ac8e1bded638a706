------------------------ MODULE ParallelRegionProofs ------------------------
(***************************************************************************)
(* Proofs about ParallelRegion for any number of workers, items and        *)
(* handles, when nextIndex has room for one claim past the domain by every *)
(* worker (For!NoOverflow).                                                *)
(*                                                                         *)
(* What HandleSpaceProofs and ParallelForProofs show of the two components *)
(* is used here through the instances SP and FP.  They are the same        *)
(* operators as those of Space and For, which the first lemmas state.      *)
(***************************************************************************)
EXTENDS ParallelRegion, FiniteSetTheorems, TLAPS

SP == INSTANCE HandleSpaceProofs
FP == INSTANCE ParallelForProofs WITH Threads <- Workers

\* The assumptions of the two components hold of their instances here.
LEMMA ComponentAssumptions ==
  /\ SP!IsFiniteSet(Workers) /\ FP!IsFiniteSet(Workers)
  /\ SlotsPerClaim \in Nat \ {0} /\ Base \in Nat /\ Cap \in Nat /\ Base <= Cap
  /\ OldObjects \subseteq 0 .. (Base - 1)
  /\ Caller \in Workers /\ IntMax \in Nat /\ NItems \in 0 .. IntMax
  /\ ItemsPerClaim \in -(IntMax + 1) .. IntMax
<1>1. IsFiniteSet(Workers)
  BY ParallelRegionAssumption
<1>2. SP!IsFiniteSet(Workers) /\ FP!IsFiniteSet(Workers)
  BY <1>1 DEF IsFiniteSet, SP!IsFiniteSet, FP!IsFiniteSet
<1> QED BY <1>2, ParallelRegionAssumption

LEMMA SameSettled == Space!Settled = SP!Settled
<1>1. Space!Cardinality(undoing) = SP!Cardinality(undoing)
  BY DEF Space!Cardinality, SP!Cardinality
<1> QED BY <1>1 DEF Space!Settled, SP!Settled, Space!Debt, SP!Debt

LEMMA SameSwept == ASSUME NEW w PROVE Space!Swept(w) = SP!Swept(w)
  BY DEF Space!Swept, SP!Swept, Space!SweepEnd, SP!SweepEnd, Space!Handles, SP!Handles

\* The invariant of the handle space, conjunct by conjunct.
LEMMA SameSpaceInv ==
  /\ Space!TypeOK <=> SP!TypeOK
  /\ Space!CounterInv <=> SP!CounterInv
  /\ Space!ChunkInv <=> SP!ChunkInv
  /\ Space!OpenChunkInv <=> SP!OpenChunkInv
  /\ Space!IInv <=> SP!IInv
<1>1. Space!TypeOK <=> SP!TypeOK
  BY DEF Space!TypeOK, SP!TypeOK
<1>2. Space!CounterInv <=> SP!CounterInv
  BY SameSettled DEF Space!CounterInv, SP!CounterInv
<1>3. Space!ChunkInv <=> SP!ChunkInv
  BY SameSettled DEF Space!ChunkInv, SP!ChunkInv, Space!Apart, SP!Apart
<1>4. Space!OpenChunkInv <=> SP!OpenChunkInv
  BY DEF Space!OpenChunkInv, SP!OpenChunkInv
<1>5. Space!OwnershipInv <=> SP!OwnershipInv
  BY SameSettled, SameSwept DEF Space!OwnershipInv, SP!OwnershipInv
<1>6. Space!NoDanglingRoot <=> SP!NoDanglingRoot
  BY DEF Space!NoDanglingRoot, SP!NoDanglingRoot
<1> QED BY <1>1, <1>2, <1>3, <1>4, <1>5, <1>6 DEF Space!IInv, SP!IInv

LEMMA SameSpaceInvNext ==
  /\ (Space!Settled = SP!Settled)'
  /\ (\A w \in Workers : Space!Swept(w) = SP!Swept(w))'
  /\ Space!IInv' <=> SP!IInv'
<1>1. \A w \in Workers : Space!Swept(w) = SP!Swept(w)
  BY SameSwept
<1>2. Space!IInv <=> SP!IInv
  BY SameSpaceInv
<1> QED BY <1>1, <1>2, SameSettled, PTL

\* The steps of one worker on the handle space.
SpaceStep(w) ==
  \/ Space!Alloc(w)
  \/ Space!ClaimPastEnd(w)
  \/ Space!TakeClaimBack(w)
  \/ \E h \in roots[w] \ kept[w] : Space!DropHandle(w, h)
  \/ Space!WorkerLocalGc(w)

LEMMA SpaceStepCases ==
  ASSUME NEW w \in Workers, SpaceStep(w)
  PROVE  \/ SP!AllocFromFree(w) \/ SP!AllocFromChunk(w) \/ SP!AllocFromClaim(w)
         \/ SP!ClaimPastEnd(w) \/ SP!TakeClaimBack(w) \/ SP!Drop(w) \/ SP!WorkerLocalGc(w)
<1>1. Space!Alloc(w) => SP!AllocFromFree(w) \/ SP!AllocFromChunk(w) \/ SP!AllocFromClaim(w)
  BY DEF Space!Alloc, Space!AllocFromFree, Space!AllocFromChunk, Space!AllocFromClaim,
         Space!NewObject, Space!MayRequestGc, Space!MustClaim,
         SP!AllocFromFree, SP!AllocFromChunk, SP!AllocFromClaim,
         SP!NewObject, SP!MayRequestGc, SP!MustClaim
<1>2. Space!ClaimPastEnd(w) => SP!ClaimPastEnd(w)
  BY DEF Space!ClaimPastEnd, Space!MayRequestGc, Space!MustClaim,
         SP!ClaimPastEnd, SP!MayRequestGc, SP!MustClaim
<1>3. Space!TakeClaimBack(w) => SP!TakeClaimBack(w)
  BY DEF Space!TakeClaimBack, SP!TakeClaimBack
<1>4. ASSUME NEW h \in roots[w], Space!DropHandle(w, h) PROVE SP!Drop(w)
  BY <1>4 DEF Space!DropHandle, Space!allocVars, SP!Drop, SP!DropHandle, SP!allocVars
<1>5. Space!WorkerLocalGc(w) => SP!WorkerLocalGc(w)
  BY SameSwept DEF Space!WorkerLocalGc, SP!WorkerLocalGc
<1> QED BY <1>1, <1>2, <1>3, <1>4, <1>5 DEF SpaceStep

LEMMA SpaceStepKeepsInvariant ==
  ASSUME Space!IInv, NEW w \in Workers, SpaceStep(w)
  PROVE  Space!IInv'
<1>1. SP!IInv
  BY SameSpaceInv
<1>2. SP!IInv'
  <2>1. CASE SP!AllocFromFree(w)
    BY <1>1, <2>1, ComponentAssumptions, SP!AllocFromFreeIInv
  <2>2. CASE SP!AllocFromChunk(w)
    BY <1>1, <2>2, ComponentAssumptions, SP!AllocFromChunkIInv
  <2>3. CASE SP!AllocFromClaim(w)
    BY <1>1, <2>3, ComponentAssumptions, SP!AllocFromClaimIInv
  <2>4. CASE SP!ClaimPastEnd(w)
    BY <1>1, <2>4, ComponentAssumptions, SP!ClaimPastEndIInv
  <2>5. CASE SP!TakeClaimBack(w)
    BY <1>1, <2>5, ComponentAssumptions, SP!TakeClaimBackIInv
  <2>6. CASE SP!Drop(w)
    BY <1>1, <2>6, ComponentAssumptions, SP!DropIInv
  <2>7. CASE SP!WorkerLocalGc(w)
    BY <1>1, <2>7, ComponentAssumptions, SP!WorkerLocalGcIInv
  <2> QED BY <2>1, <2>2, <2>3, <2>4, <2>5, <2>6, <2>7, SpaceStepCases
<1> QED BY <1>2, SameSpaceInvNext
-----------------------------------------------------------------------------
(* What one worker's step on the handle space does to the others.           *)

LEMMA SpaceFacts ==
  ASSUME Space!IInv
  PROVE  /\ Space!Settled \in Int /\ Base <= Space!Settled /\ Space!Settled <= Cap
         /\ Space!Settled <= n
         /\ undoing = {} => Space!Settled = n
         /\ \A w \in Workers : \A h \in Space!Swept(w) :
              h \in Nat /\ Base <= h /\ h < Space!Settled /\ InChunk(h, w)
         /\ \A v, w \in Workers : \A h \in Space!Swept(v) : v # w => ~InChunk(h, w)
<1>1. SP!IInv /\ SP!TypeOK /\ SP!CounterInv /\ SP!ChunkInv /\ SP!OpenChunkInv
  BY SameSpaceInv DEF SP!IInv
<1>2. /\ SP!Settled \in Int /\ SP!Settled <= n
      /\ undoing = {} => SP!Settled = n
  BY <1>1, ComponentAssumptions, SP!SettledType
<1>3. Base <= SP!Settled /\ SP!Settled <= Cap
  BY <1>1 DEF SP!CounterInv
<1>4. ASSUME NEW w \in Workers, NEW h \in SP!Swept(w)
      PROVE  h \in Nat /\ Base <= h /\ h < SP!Settled
  BY <1>1, <1>4, ComponentAssumptions, SP!SweptRange
<1>5. ASSUME NEW w \in Workers, NEW h \in SP!Swept(w)
      PROVE  InChunk(h, w)
  BY <1>1, <1>5, ComponentAssumptions, SP!SweptInChunk DEF InChunk
<1>6. ASSUME NEW v \in Workers, NEW w \in Workers, NEW h \in SP!Swept(v), v # w, InChunk(h, w)
      PROVE  FALSE
  <2>1. PICK c \in chunks[v] : c <= h /\ h < c + SlotsPerClaim
    BY <1>5, <1>6 DEF InChunk
  <2>2. PICK d \in chunks[w] : d <= h /\ h < d + SlotsPerClaim
    BY <1>6 DEF InChunk
  <2>3. h \in Nat /\ c \in Nat /\ d \in Nat
    BY <1>1, <1>4, <1>6 DEF SP!TypeOK
  <2>4. SP!Apart(c, d)
    BY <1>1, <1>6 DEF SP!ChunkInv
  <2> QED BY <2>1, <2>2, <2>3, <2>4, ComponentAssumptions DEF SP!Apart
<1> QED BY <1>2, <1>3, <1>4, <1>5, <1>6, SameSettled, SameSwept

\* The step changes what is the worker's own, and nothing else.
LEMMA SpaceStepIsLocal ==
  ASSUME Space!TypeOK, NEW w \in Workers, SpaceStep(w)
  PROVE  /\ \A u \in Workers \ {w} :
              /\ free'[u] = free[u] /\ roots'[u] = roots[u]
              /\ chunks'[u] = chunks[u] /\ next'[u] = next[u] /\ end'[u] = end[u]
         /\ roots[w] \cap kept[w] \subseteq roots'[w]
         /\ \A h \in objects : h \in objects' \/ h \in Space!Swept(w) \ roots[w]
         /\ \A h \in objects' : h \in objects \/ h \in roots'[w]
         /\ undoing' \subseteq undoing \cup {w}
<1>1. CASE Space!Alloc(w)
  <2>1. CASE Space!AllocFromFree(w)
    BY <2>1 DEF Space!AllocFromFree, Space!NewObject, Space!TypeOK
  <2>2. CASE Space!AllocFromChunk(w)
    BY <2>2 DEF Space!AllocFromChunk, Space!NewObject, Space!TypeOK
  <2>3. CASE Space!AllocFromClaim(w)
    BY <2>3 DEF Space!AllocFromClaim, Space!NewObject, Space!TypeOK
  <2> QED BY <1>1, <2>1, <2>2, <2>3 DEF Space!Alloc
<1>2. CASE Space!ClaimPastEnd(w)
  BY <1>2 DEF Space!ClaimPastEnd
<1>3. CASE Space!TakeClaimBack(w)
  BY <1>3 DEF Space!TakeClaimBack
<1>4. ASSUME NEW h \in roots[w] \ kept[w], Space!DropHandle(w, h)
      PROVE  /\ roots' = [roots EXCEPT ![w] = @ \ {h}]
             /\ UNCHANGED <<n, undoing, next, end, chunks, free, objects>>
  BY <1>4 DEF Space!DropHandle, Space!allocVars
<1>5. CASE \E h \in roots[w] \ kept[w] : Space!DropHandle(w, h)
  BY <1>4, <1>5 DEF Space!TypeOK
<1>6. CASE Space!WorkerLocalGc(w)
  BY <1>6 DEF Space!WorkerLocalGc, Space!TypeOK
<1> QED BY <1>1, <1>2, <1>3, <1>5, <1>6 DEF SpaceStep

\* It claims at most the chunk that begins at Settled.
LEMMA SpaceStepClaims ==
  ASSUME Space!IInv, NEW w \in Workers, SpaceStep(w)
  PROVE  /\ Space!Settled' \in Int /\ Space!Settled <= Space!Settled'
         /\ \A u \in Workers : Space!Swept(u) \subseteq Space!Swept(u)'
         /\ \A u \in Workers : \A h \in Int : h < Space!Settled /\ InChunk(h, u)' => InChunk(h, u)
<1>1. SP!IInv /\ SP!TypeOK /\ SP!CounterInv /\ SP!ChunkInv /\ SP!OpenChunkInv
  BY SameSpaceInv DEF SP!IInv
<1>2. SP!Settled \in Int /\ SP!Settled <= n
  BY <1>1, ComponentAssumptions, SP!SettledType
<1>3. SUFFICES
        /\ SP!Settled' \in Int /\ SP!Settled <= SP!Settled'
        /\ \A u \in Workers : SP!Swept(u) \subseteq SP!Swept(u)'
        /\ \A u \in Workers : \A h \in Int : h < SP!Settled /\ InChunk(h, u)' => InChunk(h, u)
  BY SameSettled, SameSwept, SameSpaceInvNext
<1>4. CASE SP!AllocFromClaim(w)
  <2>1. SP!Settled = n /\ SP!Settled' = n + SlotsPerClaim
    BY <1>1, <1>4, ComponentAssumptions, SP!SettledClaim
  <2>2. /\ SP!Swept(w)' = SP!Swept(w) \cup {n}
        /\ \A v \in Workers \ {w} : SP!Swept(v)' = SP!Swept(v)
    BY <1>1, <1>4, ComponentAssumptions, SP!SweptClaim
  <2>3. chunks' = [chunks EXCEPT ![w] = chunks[w] \cup {n}]
    BY <1>4 DEF SP!AllocFromClaim
  <2>4. \A u \in Workers : chunks'[u] \subseteq chunks[u] \cup {n}
    BY <1>1, <2>3 DEF SP!TypeOK
  <2>5. \A u \in Workers : \A h \in Int : h < n /\ InChunk(h, u)' => InChunk(h, u)
    BY <1>2, <2>1, <2>4 DEF InChunk
  <2> QED BY <1>2, <2>1, <2>2, <2>5, ComponentAssumptions
<1>5. CASE SP!AllocFromChunk(w)
  <2>1. SP!Settled' = SP!Settled
    BY <1>5, ComponentAssumptions, SP!SettledUnchanged DEF SP!AllocFromChunk
  <2>2. \A u \in Workers : SP!Swept(u) \subseteq SP!Swept(u)'
    BY <1>1, <1>5, ComponentAssumptions, SP!SweptNext
  <2> QED BY <1>2, <1>5, <2>1, <2>2 DEF SP!AllocFromChunk, InChunk
<1>6. CASE UNCHANGED <<next, end, chunks>> /\ SP!Settled' = SP!Settled
  BY <1>2, <1>6, SP!SweptUnchanged, ComponentAssumptions DEF InChunk
<1>7. CASE SP!AllocFromFree(w) \/ SP!Drop(w) \/ SP!WorkerLocalGc(w)
  <2>1. UNCHANGED <<n, undoing, next, end, chunks>>
    BY <1>7 DEF SP!AllocFromFree, SP!Drop, SP!DropHandle, SP!allocVars, SP!WorkerLocalGc
  <2> QED BY <1>6, <2>1, SP!SettledUnchanged, ComponentAssumptions
<1>8. CASE SP!ClaimPastEnd(w)
  <2>1. UNCHANGED <<next, end, chunks>>
    BY <1>8 DEF SP!ClaimPastEnd
  <2>2. SP!Settled' = SP!Settled
    BY <1>1, <1>8, SP!SettledPastEnd, ComponentAssumptions
  <2> QED BY <1>6, <2>1, <2>2
<1>9. CASE SP!TakeClaimBack(w)
  <2>1. UNCHANGED <<next, end, chunks>>
    BY <1>9 DEF SP!TakeClaimBack
  <2>2. SP!Settled' = SP!Settled
    BY <1>1, <1>9, SP!SettledBack, ComponentAssumptions
  <2> QED BY <1>6, <2>1, <2>2
<1> QED BY <1>4, <1>5, <1>7, <1>8, <1>9, SpaceStepCases
\* A worker's stack may come to reach any of its own objects that it has not
\* recovered.
LEMMA RootsReplaced ==
  ASSUME Space!IInv, NEW w \in Workers, NEW R, R \subseteq Space!Swept(w) \ free[w],
         R \subseteq objects, roots' = [roots EXCEPT ![w] = R],
         UNCHANGED <<n, undoing, next, end, chunks, free, gcPending, objects>>
  PROVE  /\ Space!IInv' /\ Space!Settled' = Space!Settled
         /\ \A u \in Workers : Space!Swept(u)' = Space!Swept(u)
<1>1. Space!Settled' = Space!Settled
  BY DEF Space!Settled, Space!Debt
<1>2. \A u : Space!Swept(u)' = Space!Swept(u)
  BY DEF Space!Swept, Space!SweepEnd
<1>3. Space!TypeOK'
  <2>1. R \subseteq Nat
    BY SpaceFacts
  <2> QED BY <2>1 DEF Space!IInv, Space!TypeOK
<1>4. Space!CounterInv' /\ Space!ChunkInv' /\ Space!OpenChunkInv'
  BY <1>1 DEF Space!IInv, Space!CounterInv, Space!ChunkInv, Space!OpenChunkInv, Space!Apart
<1>5. Space!OwnershipInv'
  BY <1>1, <1>2 DEF Space!IInv, Space!TypeOK, Space!OwnershipInv
<1>6. Space!NoDanglingRoot'
  BY DEF Space!IInv, Space!TypeOK, Space!NoDanglingRoot
<1> QED BY <1>1, <1>2, <1>3, <1>4, <1>5, <1>6 DEF Space!IInv

\* A thread that ends gives up its chunks; what they hold stays where it is.
LEMMA StopKeepsSpace ==
  ASSUME Space!IInv, NEW w \in Workers, StopWorker(w)
  PROVE  /\ Space!IInv' /\ Space!Settled' = Space!Settled
         /\ \A u \in Workers \ {w} : Space!Swept(u)' = Space!Swept(u)
         /\ \A u \in Workers : chunks'[u] \subseteq chunks[u]
         /\ chunks'[w] = {}
<1>1. /\ next' = [next EXCEPT ![w] = 0] /\ end' = [end EXCEPT ![w] = 0]
      /\ chunks' = [chunks EXCEPT ![w] = {}] /\ free' = [free EXCEPT ![w] = {}]
      /\ roots' = [roots EXCEPT ![w] = {}]
      /\ UNCHANGED <<n, undoing, gcPending, objects>>
  BY DEF StopWorker
<1>2. Space!TypeOK
  BY DEF Space!IInv
<1>3. Space!Settled' = Space!Settled
  BY <1>1 DEF Space!Settled, Space!Debt
<1>4. \A u \in Workers \ {w} :
        /\ next'[u] = next[u] /\ end'[u] = end[u] /\ chunks'[u] = chunks[u]
        /\ free'[u] = free[u] /\ roots'[u] = roots[u]
  BY <1>1, <1>2 DEF Space!TypeOK
<1>5. next'[w] = 0 /\ end'[w] = 0 /\ chunks'[w] = {} /\ free'[w] = {} /\ roots'[w] = {}
  BY <1>1, <1>2 DEF Space!TypeOK
<1>6. \A u \in Workers \ {w} : Space!Swept(u)' = Space!Swept(u)
  BY <1>4 DEF Space!Swept, Space!SweepEnd
<1>7. Space!TypeOK'
  BY <1>1, <1>2 DEF Space!TypeOK
<1>8. Space!CounterInv'
  BY <1>1, <1>3 DEF Space!IInv, Space!CounterInv
<1>9. Space!ChunkInv'
  BY <1>3, <1>4, <1>5 DEF Space!IInv, Space!ChunkInv, Space!Apart
<1>10. Space!OpenChunkInv'
  BY <1>4, <1>5 DEF Space!IInv, Space!OpenChunkInv
<1>11. Space!OwnershipInv'
  BY <1>1, <1>3, <1>4, <1>5, <1>6 DEF Space!IInv, Space!OwnershipInv
<1>12. Space!NoDanglingRoot'
  BY <1>1, <1>4, <1>5 DEF Space!IInv, Space!NoDanglingRoot
<1> QED BY <1>3, <1>4, <1>5, <1>6, <1>7, <1>8, <1>9, <1>10, <1>11, <1>12 DEF Space!IInv

LEMMA InitSpace == Init => Space!IInv
<1>1. Space!Init => SP!Init
  BY DEF Space!Init, SP!Init
<1> QED BY <1>1, ComponentAssumptions, SP!InitIInv, SameSpaceInv DEF Init

-----------------------------------------------------------------------------
(* The sharing of the domain, the same way.                                 *)

LEMMA SameForInv == For!IInv <=> FP!IInv
<1>1. For!Cardinality(For!Stopped) = FP!Cardinality(FP!Stopped)
  BY DEF For!Cardinality, FP!Cardinality, For!Stopped, FP!Stopped
<1>2. For!TypeOK <=> FP!TypeOK
  BY DEF For!TypeOK, FP!TypeOK
<1>3. For!IndexInv <=> FP!IndexInv
  BY <1>1 DEF For!IndexInv, FP!IndexInv, For!Stopped, FP!Stopped
<1>4. For!ClaimsInv <=> FP!ClaimsInv
  BY DEF For!ClaimsInv, FP!ClaimsInv, For!ClaimsDisjoint, FP!ClaimsDisjoint,
         For!Items, FP!Items, For!Indices, FP!Indices
<1>5. For!CallerInv <=> FP!CallerInv
  BY DEF For!CallerInv, FP!CallerInv
<1> QED BY <1>2, <1>3, <1>4, <1>5 DEF For!IInv, FP!IInv

LEMMA SameForInvNext == For!IInv' <=> FP!IInv'
  BY SameForInv, PTL

LEMMA SameNoOverflow == For!NoOverflow <=> FP!NoOverflow
<1>1. For!Cardinality(Workers) = FP!Cardinality(Workers)
  BY DEF For!Cardinality, FP!Cardinality
<1> QED BY <1>1 DEF For!NoOverflow, FP!NoOverflow

LEMMA InitFor == For!NoOverflow /\ Init => For!IInv
<1>1. \A S : For!Cardinality(S) = FP!Cardinality(S)
  BY DEF For!Cardinality, FP!Cardinality
<1>2. For!Init => FP!Init
  BY <1>1 DEF For!Init, FP!Init, For!NoRange, FP!NoRange
<1> QED BY <1>2, SameForInv, SameNoOverflow, ComponentAssumptions, FP!InitInvariant DEF Init

LEMMA ForStep ==
  ASSUME For!NoOverflow, For!IInv, NEW w \in Workers,
         For!ClaimItems(w) \/ For!FinishRange(w) \/ For!Stop(w) \/ UNCHANGED forVars
  PROVE  For!IInv'
<1>1. FP!NoOverflow /\ FP!IInv
  BY SameForInv, SameNoOverflow
<1>2. CASE For!ClaimItems(w)
  <2>1. FP!ClaimItems(w)
    BY <1>2 DEF For!ClaimItems, FP!ClaimItems, For!Minimum, FP!Minimum, For!Wrap, FP!Wrap
  <2>2. FP!IInv'
    BY <1>1, <2>1, ComponentAssumptions, FP!ClaimItemsKeepsInvariant
  <2> QED BY <2>2, SameForInvNext
<1>3. CASE For!FinishRange(w)
  <2>1. FP!FinishRange(w)
    BY <1>3 DEF For!FinishRange, FP!FinishRange, For!NoRange, FP!NoRange
  <2>2. FP!IInv'
    BY <1>1, <2>1, ComponentAssumptions, FP!FinishRangeKeepsInvariant
  <2> QED BY <2>2, SameForInvNext
<1>4. CASE For!Stop(w)
  <2>1. FP!Stop(w)
    BY <1>4 DEF For!Stop, FP!Stop, For!Wrap, FP!Wrap
  <2>2. FP!IInv'
    BY <1>1, <2>1, ComponentAssumptions, FP!StopKeepsInvariant
  <2> QED BY <2>2, SameForInvNext
<1>5. CASE UNCHANGED forVars
  <2>1. For!Stopped' = For!Stopped
    BY <1>5 DEF forVars, For!Stopped
  <2> QED BY <1>5, <2>1 DEF forVars, For!IInv, For!TypeOK, For!IndexInv, For!ClaimsInv,
         For!ClaimsDisjoint, For!CallerInv
<1> QED BY <1>2, <1>3, <1>4, <1>5
\* The range a worker claims starts at the index and lies in the domain.
LEMMA ClaimedRange ==
  ASSUME For!NoOverflow, For!IInv, NEW w \in Workers, For!ClaimItems(w)
  PROVE  /\ nextIndex \in Nat /\ nextIndex < NItems /\ NItems \in Nat
         /\ nextIndex' \in Nat /\ nextIndex < nextIndex'
         /\ \E r : /\ range' = [range EXCEPT ![w] = r]
                   /\ r.from = nextIndex /\ r.to \in Nat /\ nextIndex < r.to
                   /\ r.to <= nextIndex' /\ r.to <= NItems
                   /\ r.to = nextIndex' \/ r.to = NItems
<1>1. FP!NoOverflow /\ FP!IInv
  BY SameForInv, SameNoOverflow
<1>2. thread[w] # "stopped" /\ nextIndex < NItems
  BY DEF For!ClaimItems
<1>3. FP!Wrap(nextIndex + ItemsPerClaim) = nextIndex + ItemsPerClaim
  BY <1>1, <1>2, ComponentAssumptions, FP!IndexHasRoom DEF FP!IInv
<1>4. For!Wrap(nextIndex + ItemsPerClaim) = nextIndex + ItemsPerClaim
  BY <1>3 DEF For!Wrap, FP!Wrap
<1>5. nextIndex \in Nat /\ ItemsPerClaim \in Nat \ {0} /\ NItems \in Nat
  BY ComponentAssumptions DEF For!IInv, For!TypeOK, For!IndexInv, For!NoOverflow
<1> DEFINE r == [from |-> nextIndex, to |-> For!Minimum(nextIndex + ItemsPerClaim, NItems)]
<1>6. nextIndex' = nextIndex + ItemsPerClaim /\ range' = [range EXCEPT ![w] = r]
  BY <1>4 DEF For!ClaimItems
<1>7. /\ r.from = nextIndex /\ r.to \in Nat /\ nextIndex < r.to
      /\ r.to <= nextIndex' /\ r.to <= NItems
      /\ r.to = nextIndex' \/ r.to = NItems
  BY <1>2, <1>5, <1>6 DEF For!Minimum
<1>8. nextIndex' \in Nat /\ nextIndex < nextIndex'
  BY <1>5, <1>6
<1> HIDE DEF r
<1> QED BY <1>2, <1>5, <1>6, <1>7, <1>8

-----------------------------------------------------------------------------
(* The steps of the workers.                                                *)

\* Once the threads are joined no worker takes a step.
LEMMA WorkerInRegion ==
  ASSUME IInv, NEW w \in Workers, Worker(w)
  PROVE  phase = "region" /\ thread[w] \in {"claiming", "working"}
<1>1. thread[w] \in {"claiming", "working"}
  BY DEF Worker, ClaimRange, StartItem, ItemAllocates, ItemStep, FinishItem, FaultItem,
         LeaveRange, StopWorker, For!ClaimItems, For!FinishRange, For!Stop, IInv, ThreadInv
<1> QED BY <1>1 DEF IInv, PhaseInv, For!Joined

LEMMA WorkerKeepsFor ==
  ASSUME For!NoOverflow, IInv, NEW w \in Workers, Worker(w)
  PROVE  For!IInv'
<1>1. For!ClaimItems(w) \/ For!FinishRange(w) \/ For!Stop(w) \/ UNCHANGED forVars
  BY DEF Worker, ClaimRange, StartItem, ItemAllocates, ItemStep, FinishItem, FaultItem,
         LeaveRange, StopWorker
<1> QED BY <1>1, ForStep DEF IInv

\* What the quotation of an item does to the handle space.
LEMMA ItemIsSpaceStep ==
  ASSUME NEW w \in Workers, ItemAllocates(w) \/ ItemStep(w)
  PROVE  /\ w \in busy /\ SpaceStep(w)
         /\ UNCHANGED <<forVars, item, busy, kept, faulted, parallelError, image, partials, applied>>
  BY DEF ItemAllocates, ItemStep, SpaceStep, kernelVars

LEMMA SpaceUnchanged ==
  ASSUME UNCHANGED handleVars
  PROVE  /\ Space!IInv' <=> Space!IInv
         /\ Space!Settled' = Space!Settled
         /\ \A u : Space!Swept(u)' = Space!Swept(u)
         /\ \A u, h : InChunk(h, u)' = InChunk(h, u)
<1>1. UNCHANGED <<n, undoing, next, end, chunks, free, gcPending, objects, roots>>
  BY DEF handleVars, allocVars
<1>2. Space!Settled' = Space!Settled
  BY <1>1 DEF Space!Settled, Space!Debt
<1>3. \A u : Space!Swept(u)' = Space!Swept(u)
  BY <1>1 DEF Space!Swept, Space!SweepEnd
<1>4. Space!IInv' <=> Space!IInv
  BY <1>1, <1>2, <1>3 DEF Space!IInv, Space!TypeOK, Space!CounterInv, Space!ChunkInv, Space!Apart,
     Space!OpenChunkInv, Space!OwnershipInv, Space!NoDanglingRoot
<1> QED BY <1>1, <1>2, <1>3, <1>4 DEF InChunk

LEMMA WorkerKeepsThreadInv ==
  ASSUME For!NoOverflow, IInv, NEW w \in Workers, Worker(w)
  PROVE  ThreadInv'
<1>1. /\ TypeOK /\ ThreadInv /\ For!IInv /\ Space!TypeOK
      /\ thread \in [Workers -> {"claiming", "working", "stopped", "absent"}]
      /\ busy \subseteq Workers /\ item \in [Workers -> Nat]
      /\ range \in [Workers -> [from : Int, to : Int]]
  BY DEF IInv, TypeOK, For!TypeOK
<1>2. CASE ClaimRange(w)
  <2>1. /\ w \notin busy
        /\ thread' = [thread EXCEPT ![w] = "working"] /\ item' = [item EXCEPT ![w] = nextIndex]
        /\ UNCHANGED <<busy, undoing, chunks, next, end, free, roots>>
    BY <1>1, <1>2 DEF ClaimRange, For!ClaimItems, ThreadInv, handleVars, allocVars
  <2>2. \A u \in Workers \ {w} : range'[u] = range[u]
    BY <1>1, <1>2 DEF ClaimRange, For!ClaimItems
  <2> QED BY <1>1, <2>1, <2>2 DEF ThreadInv
<1>3. CASE StartItem(w)
  BY <1>1, <1>3 DEF StartItem, ThreadInv, forVars, allocVars, Space!TypeOK
<1>4. CASE ItemAllocates(w) \/ ItemStep(w)
  <2>1. /\ w \in busy /\ SpaceStep(w) /\ UNCHANGED <<thread, range, item, busy>>
    BY <1>4, ItemIsSpaceStep DEF forVars
  <2> QED BY <1>1, <2>1, SpaceStepIsLocal DEF ThreadInv
<1>5. CASE FinishItem(w)
  <2>1. /\ w \in busy \ undoing /\ busy' = busy \ {w} /\ roots' = [roots EXCEPT ![w] = kept'[w]]
        /\ item' = [item EXCEPT ![w] = @ + 1]
        /\ UNCHANGED <<thread, range, undoing, chunks, next, end, free>>
    BY <1>5 DEF FinishItem, forVars, allocVars
  <2> QED BY <1>1, <2>1 DEF ThreadInv, Space!TypeOK
<1>6. CASE FaultItem(w)
  BY <1>1, <1>6 DEF FaultItem, ThreadInv, forVars, handleVars, allocVars
<1>7. CASE LeaveRange(w)
  BY <1>1, <1>7 DEF LeaveRange, For!FinishRange, ThreadInv, kernelVars, handleVars, allocVars
<1>8. CASE StopWorker(w)
  BY <1>1, <1>8 DEF StopWorker, For!Stop, ThreadInv, kernelVars, Space!TypeOK
<1> QED BY <1>2, <1>3, <1>4, <1>5, <1>6, <1>7, <1>8 DEF Worker

LEMMA WorkerKeepsPhaseInv ==
  ASSUME IInv, NEW w \in Workers, Worker(w)
  PROVE  PhaseInv'
<1>1. phase = "region" /\ UNCHANGED callVars
  BY WorkerInRegion DEF Worker
<1>2. parallelError' <=> faulted' # {}
  BY DEF Worker, ClaimRange, StartItem, ItemAllocates, ItemStep, FinishItem, FaultItem,
         LeaveRange, StopWorker, kernelVars, IInv, PhaseInv
<1> QED BY <1>1, <1>2 DEF IInv, PhaseInv, callVars
\* When nothing that ItemsInv speaks of changes but for faults.
LEMMA ItemsUnchanged ==
  ASSUME ItemsInv, UNCHANGED <<nextIndex, thread, range, item, applied, outcome>>,
         faulted \subseteq faulted'
  PROVE  ItemsInv'
<1>1. \A u \in Workers : Ahead(u)' = Ahead(u)
  BY DEF Ahead
<1> QED BY <1>1 DEF ItemsInv

LEMMA ClaimRangeKeepsItems ==
  ASSUME For!NoOverflow, IInv, NEW w \in Workers, ClaimRange(w), UNCHANGED callVars
  PROVE  ItemsInv'
<1>1. PICK r : /\ range' = [range EXCEPT ![w] = r]
               /\ r.from = nextIndex /\ r.to \in Nat /\ nextIndex < r.to
               /\ r.to <= nextIndex' /\ r.to <= NItems
               /\ r.to = nextIndex' \/ r.to = NItems
  BY ClaimedRange DEF ClaimRange, IInv
<1>2. /\ nextIndex \in Nat /\ nextIndex < NItems /\ NItems \in Nat
      /\ nextIndex' \in Nat /\ nextIndex < nextIndex'
  BY ClaimedRange DEF ClaimRange, IInv
<1>3. /\ thread[w] = "claiming" /\ thread' = [thread EXCEPT ![w] = "working"]
      /\ item' = [item EXCEPT ![w] = nextIndex]
      /\ UNCHANGED <<faulted, applied, outcome>>
  BY DEF ClaimRange, For!ClaimItems, callVars
<1>4. /\ thread \in [Workers -> {"claiming", "working", "stopped", "absent"}]
      /\ item \in [Workers -> Nat] /\ range \in [Workers -> [from : Int, to : Int]]
      /\ applied \in [DomainItems -> Nat]
  BY DEF IInv, TypeOK, For!TypeOK
<1>5. /\ thread'[w] = "working" /\ item'[w] = nextIndex /\ range'[w] = r
      /\ \A u \in Workers \ {w} :
           thread'[u] = thread[u] /\ item'[u] = item[u] /\ range'[u] = range[u]
  BY <1>1, <1>3, <1>4
<1>6. Ahead(w) = {} /\ \A u \in Workers \ {w} : Ahead(u)' = Ahead(u)
  BY <1>3, <1>5 DEF Ahead
<1>7. Ahead(w)' = {i \in DomainItems : nextIndex <= i /\ i < r.to}
  BY <1>5 DEF Ahead
<1>8. ASSUME NEW u \in Workers \ {w}, NEW i \in Ahead(u)
      PROVE  i < nextIndex
  BY <1>2, <1>4, <1>8 DEF Ahead, DomainItems, IInv, ItemsInv
<1>9. \A u \in Workers : thread'[u] = "working" =>
        /\ range'[u].from <= item'[u] /\ item'[u] <= range'[u].to
        /\ range'[u].to <= nextIndex' /\ range'[u].to <= NItems
  <2>1. ASSUME NEW u \in Workers \ {w}, thread[u] = "working"
        PROVE  /\ range[u].from <= item[u] /\ item[u] <= range[u].to
               /\ range[u].to <= nextIndex' /\ range[u].to <= NItems
    <3>1. range[u].to \in Int /\ range[u].to <= nextIndex
      BY <1>4, <2>1 DEF IInv, ItemsInv
    <3> QED BY <1>2, <2>1, <3>1 DEF IInv, ItemsInv
  <2> QED BY <1>1, <1>2, <1>5, <2>1
<1>10. \A u, v \in Workers : u # v => Ahead(u)' \cap Ahead(v)' = {}
  <2>1. \A u \in Workers \ {w} : Ahead(u)' \cap Ahead(w)' = {}
    BY <1>2, <1>6, <1>7, <1>8 DEF DomainItems
  <2> QED BY <1>6, <2>1 DEF IInv, ItemsInv
<1>11. ASSUME NEW i \in DomainItems
       PROVE  /\ applied'[i] <= 1
              /\ i >= nextIndex' => applied'[i] = 0
              /\ \A u \in Workers : i \in Ahead(u)' => applied'[i] = 0
              /\ faulted' = {} /\ i < nextIndex' =>
                   applied'[i] = 1 \/ \E u \in Workers : i \in Ahead(u)'
  <2>1. i \in Int /\ i < NItems
    BY <1>2 DEF DomainItems
  <2>2. CASE i < nextIndex
    BY <1>2, <1>3, <1>6, <1>7, <2>1, <2>2 DEF IInv, ItemsInv
  <2>3. CASE i >= nextIndex
    <3>1. applied'[i] = 0
      BY <1>3, <2>3 DEF IInv, ItemsInv
    <3>2. i < nextIndex' => i \in Ahead(w)'
      BY <1>1, <1>2, <1>7, <2>1, <2>3
    <3> QED BY <3>1, <3>2
  <2> QED BY <1>2, <2>1, <2>2, <2>3
<1> QED BY <1>3, <1>9, <1>10, <1>11 DEF IInv, ItemsInv, DomainItems

LEMMA FinishItemKeepsItems ==
  ASSUME IInv, NEW w \in Workers, FinishItem(w), UNCHANGED callVars
  PROVE  ItemsInv' /\ item[w] \in DomainItems
<1>1. /\ thread[w] = "working" /\ item[w] < range[w].to
      /\ item' = [item EXCEPT ![w] = @ + 1]
      /\ applied' = [applied EXCEPT ![item[w]] = @ + 1]
      /\ UNCHANGED <<nextIndex, thread, range, faulted, outcome>>
  BY DEF FinishItem, IInv, ThreadInv, forVars, callVars
<1>2. /\ item \in [Workers -> Nat] /\ range \in [Workers -> [from : Int, to : Int]]
      /\ applied \in [DomainItems -> Nat] /\ nextIndex \in Int /\ NItems \in Nat
  BY ComponentAssumptions DEF IInv, TypeOK, For!TypeOK
<1>3. /\ range[w].from <= item[w] /\ range[w].to <= nextIndex /\ range[w].to <= NItems
      /\ range[w].to \in Int /\ range[w].from \in Int /\ item[w] \in Nat
  BY <1>1, <1>2 DEF IInv, ItemsInv
<1>4. item[w] \in DomainItems /\ item[w] \in Ahead(w)
  BY <1>1, <1>2, <1>3 DEF DomainItems, Ahead
<1>5. /\ item'[w] = item[w] + 1 /\ \A u \in Workers \ {w} : item'[u] = item[u]
      /\ applied'[item[w]] = 1 /\ \A i \in DomainItems \ {item[w]} : applied'[i] = applied[i]
  BY <1>1, <1>2, <1>4 DEF IInv, ItemsInv
<1>6. Ahead(w)' = Ahead(w) \ {item[w]} /\ \A u \in Workers \ {w} : Ahead(u)' = Ahead(u)
  <2>1. \A u \in Workers \ {w} : Ahead(u)' = Ahead(u)
    BY <1>1, <1>5 DEF Ahead
  <2>2. Ahead(w)' = Ahead(w) \ {item[w]}
    BY <1>1, <1>2, <1>3, <1>5 DEF Ahead, DomainItems
  <2> QED BY <2>1, <2>2
<1>7. \A u \in Workers : thread'[u] = "working" =>
        /\ range'[u].from <= item'[u] /\ item'[u] <= range'[u].to
        /\ range'[u].to <= nextIndex' /\ range'[u].to <= NItems
  <2>1. range[w].from <= item'[w] /\ item'[w] <= range[w].to
    BY <1>1, <1>3, <1>5
  <2> QED BY <1>1, <1>3, <1>5, <2>1 DEF IInv, ItemsInv
<1>8. \A u, v \in Workers : u # v => Ahead(u)' \cap Ahead(v)' = {}
  BY <1>6 DEF IInv, ItemsInv
<1>9. ASSUME NEW i \in DomainItems
      PROVE  /\ applied'[i] <= 1
             /\ i >= nextIndex' => applied'[i] = 0
             /\ \A u \in Workers : i \in Ahead(u)' => applied'[i] = 0
             /\ faulted' = {} /\ i < nextIndex' =>
                  applied'[i] = 1 \/ \E u \in Workers : i \in Ahead(u)'
  <2>1. CASE i = item[w]
    <3>1. i < nextIndex
      BY <1>1, <1>2, <1>3, <2>1
    <3>2. \A u \in Workers : i \notin Ahead(u)'
      BY <1>4, <1>6, <2>1 DEF IInv, ItemsInv
    <3> QED BY <1>1, <1>2, <1>5, <2>1, <3>1, <3>2
  <2>2. CASE i # item[w]
    BY <1>1, <1>5, <1>6, <2>2 DEF IInv, ItemsInv
  <2> QED BY <2>1, <2>2
<1> QED BY <1>1, <1>4, <1>7, <1>8, <1>9, WorkerInRegion DEF IInv, ItemsInv, DomainItems, PhaseInv

LEMMA LeaveRangeKeepsItems ==
  ASSUME IInv, NEW w \in Workers, LeaveRange(w), UNCHANGED callVars
  PROVE  ItemsInv'
<1>1. /\ w \in faulted \/ item[w] >= range[w].to
      /\ thread' = [thread EXCEPT ![w] = "claiming"]
      /\ UNCHANGED <<nextIndex, item, applied, faulted, outcome>>
      /\ \A u \in Workers \ {w} : range'[u] = range[u]
  BY DEF LeaveRange, For!FinishRange, kernelVars, callVars, IInv, TypeOK, For!TypeOK
<1>2. /\ thread'[w] = "claiming"
      /\ \A u \in Workers \ {w} : thread'[u] = thread[u]
  BY <1>1 DEF IInv, TypeOK, For!TypeOK
<1>3. Ahead(w)' = {} /\ \A u \in Workers \ {w} : Ahead(u)' = Ahead(u)
  BY <1>1, <1>2 DEF Ahead
<1>4. faulted = {} => Ahead(w) = {}
  BY <1>1 DEF Ahead, DomainItems, IInv, TypeOK, For!TypeOK
<1>5. ASSUME NEW i \in DomainItems, faulted = {}, i < nextIndex
      PROVE  applied[i] = 1 \/ \E u \in Workers : i \in Ahead(u)'
  BY <1>3, <1>4, <1>5 DEF IInv, ItemsInv
<1>6. \A i \in DomainItems : \A u \in Workers : i \in Ahead(u)' => applied[i] = 0
  BY <1>3 DEF IInv, ItemsInv
<1>7. \A u, v \in Workers : u # v => Ahead(u)' \cap Ahead(v)' = {}
  BY <1>3 DEF IInv, ItemsInv
<1>8. \A u \in Workers : thread'[u] = "working" =>
        /\ range'[u].from <= item'[u] /\ item'[u] <= range'[u].to
        /\ range'[u].to <= nextIndex' /\ range'[u].to <= NItems
  BY <1>1, <1>2 DEF IInv, ItemsInv
<1> QED BY <1>1, <1>5, <1>6, <1>7, <1>8 DEF IInv, ItemsInv

LEMMA StopWorkerKeepsItems ==
  ASSUME IInv, For!IInv', NEW w \in Workers, StopWorker(w), UNCHANGED callVars
  PROVE  ItemsInv'
<1>1. /\ nextIndex >= NItems /\ thread[w] = "claiming"
      /\ thread' = [thread EXCEPT ![w] = "stopped"]
      /\ UNCHANGED <<range, item, applied, faulted, outcome>>
  BY DEF StopWorker, For!Stop, kernelVars, callVars
<1>2. /\ thread'[w] = "stopped"
      /\ \A u \in Workers \ {w} : thread'[u] = thread[u]
  BY <1>1 DEF IInv, TypeOK, For!TypeOK
<1>3. w \in For!Stopped'
  BY <1>2 DEF For!Stopped
<1>4. nextIndex' >= NItems /\ nextIndex' \in Int /\ nextIndex \in Int /\ NItems \in Nat
  BY <1>3, ComponentAssumptions DEF For!IInv, For!IndexInv, For!TypeOK, IInv
<1>5. \A u \in Workers : Ahead(u)' = Ahead(u)
  BY <1>1, <1>2 DEF Ahead
<1>6. \A i \in DomainItems : i \in Int /\ i < nextIndex' /\ i < nextIndex
  BY <1>1, <1>4 DEF DomainItems
<1>7. \A u \in Workers : thread'[u] = "working" =>
        /\ range'[u].from <= item'[u] /\ item'[u] <= range'[u].to
        /\ range'[u].to <= nextIndex' /\ range'[u].to <= NItems
  <2>1. ASSUME NEW u \in Workers, thread'[u] = "working"
        PROVE  range[u].to <= nextIndex'
    <3>1. range[u].to \in Int /\ range[u].to <= NItems
      BY <1>1, <1>2, <2>1 DEF IInv, ItemsInv, TypeOK, For!TypeOK
    <3> QED BY <1>4, <3>1
  <2> QED BY <1>1, <1>2, <2>1 DEF IInv, ItemsInv
<1> QED BY <1>1, <1>4, <1>5, <1>6, <1>7 DEF IInv, ItemsInv

LEMMA WorkerKeepsItems ==
  ASSUME For!NoOverflow, IInv, NEW w \in Workers, Worker(w)
  PROVE  ItemsInv'
<1>1. UNCHANGED callVars
  BY DEF Worker
<1>2. CASE StartItem(w) \/ ItemAllocates(w) \/ ItemStep(w) \/ FaultItem(w)
  <2>1. UNCHANGED <<nextIndex, thread, range, item, applied, outcome>> /\ faulted \subseteq faulted'
    BY <1>1, <1>2 DEF StartItem, ItemAllocates, ItemStep, FaultItem, forVars, kernelVars, callVars
  <2> QED BY <2>1, ItemsUnchanged DEF IInv
<1> QED BY <1>1, <1>2, ClaimRangeKeepsItems, FinishItemKeepsItems, LeaveRangeKeepsItems,
           StopWorkerKeepsItems, WorkerKeepsFor DEF Worker
LEMMA HandlesInFacts ==
  ASSUME NEW f, NEW h
  PROVE  h \in HandlesIn(f) <=> h # Outside /\ \E x \in DOMAIN f : f[x] = h
  BY DEF HandlesIn, HandlesOf

\* What the parts of the invariant say while the workers run.
LEMMA RegionFacts ==
  ASSUME IInv, phase = "region"
  PROVE  /\ Space!IInv /\ Space!TypeOK /\ ImageInv /\ PartialsInv /\ MainWaits
         /\ \A h \in objects : h < Base => h \in OldObjects
         /\ \A u \in Workers : /\ roots[u] \subseteq Space!Swept(u) \ free[u]
                               /\ roots[u] \subseteq objects
         /\ thread \in [Workers -> {"claiming", "working", "stopped", "absent"}]
         /\ image \in [DomainItems -> Values] /\ partials \in [Workers -> Values]
         /\ kept \in [Workers -> SUBSET Handles]
         /\ busy \subseteq Workers
  BY DEF IInv, RegionInv, Space!IInv, Space!OwnershipInv, Space!NoDanglingRoot, TypeOK, For!TypeOK

\* A worker that works on an item has its accumulator among its objects.
LEMMA AccumulatorOwned ==
  ASSUME IInv, phase = "region", NEW w \in Workers, thread[w] # "stopped"
  PROVE  /\ HandlesOf(partials[w]) \subseteq Space!Swept(w) \ free[w]
         /\ HandlesOf(partials[w]) \subseteq objects
  BY RegionFacts DEF PartialsInv, Survives

LEMMA WorkerKeepsSpace ==
  ASSUME IInv, NEW w \in Workers, Worker(w)
  PROVE  Space!IInv'
<1>1. phase = "region" /\ Space!IInv /\ Space!TypeOK
  BY WorkerInRegion, RegionFacts
<1>2. CASE ClaimRange(w) \/ FaultItem(w) \/ LeaveRange(w)
  BY <1>1, <1>2, SpaceUnchanged DEF ClaimRange, FaultItem, LeaveRange
<1>3. CASE StartItem(w)
  <2> DEFINE R == roots[w] \cup HandlesOf(partials[w])
  <2>1. roots' = [roots EXCEPT ![w] = R] /\ thread[w] = "working"
    BY <1>3 DEF StartItem
  <2>2. R \subseteq Space!Swept(w) \ free[w] /\ R \subseteq objects
    BY <1>1, <2>1, RegionFacts, AccumulatorOwned
  <2>3. UNCHANGED <<n, undoing, next, end, chunks, free, gcPending, objects>>
    BY <1>3 DEF StartItem, allocVars
  <2> HIDE DEF R
  <2> QED BY <1>1, <2>1, <2>2, <2>3, RootsReplaced
<1>4. CASE ItemAllocates(w) \/ ItemStep(w)
  BY <1>1, <1>4, ItemIsSpaceStep, SpaceStepKeepsInvariant
<1>5. CASE FinishItem(w)
  <2> DEFINE R == kept'[w]
  <2>1. roots' = [roots EXCEPT ![w] = R]
    BY <1>5 DEF FinishItem
  <2>2. kept[w] \subseteq roots[w]
    BY <1>1, <1>5, RegionFacts DEF FinishItem, ImageInv, IInv, ThreadInv
  <2>3. R \subseteq roots[w]
    BY <1>1, <1>5, <2>2, RegionFacts DEF FinishItem, HandlesOf
  <2>4. R \subseteq Space!Swept(w) \ free[w] /\ R \subseteq objects
    BY <1>1, <2>3, RegionFacts
  <2>5. UNCHANGED <<n, undoing, next, end, chunks, free, gcPending, objects>>
    BY <1>5 DEF FinishItem, allocVars
  <2> HIDE DEF R
  <2> QED BY <1>1, <2>1, <2>4, <2>5, RootsReplaced
<1>6. CASE StopWorker(w)
  BY <1>1, <1>6, StopKeepsSpace
<1> QED BY <1>2, <1>3, <1>4, <1>5, <1>6 DEF Worker

LEMMA SweptAboveBase ==
  (Space!IInv => \A w \in Workers : \A h \in Space!Swept(w) : h \in Nat /\ Base <= h)'
<1>1. Space!IInv => \A w \in Workers : \A h \in Space!Swept(w) : h \in Nat /\ Base <= h
  BY SpaceFacts
<1> QED BY <1>1, PTL

\* No object older than the region comes into being in it.
LEMMA WorkerKeepsOldObjects ==
  ASSUME IInv, Space!IInv', NEW w \in Workers, Worker(w)
  PROVE  \A h \in objects' : h < Base => h \in OldObjects
<1>1. phase = "region" /\ \A h \in objects : h < Base => h \in OldObjects
  BY WorkerInRegion, RegionFacts
<1>2. CASE ItemAllocates(w) \/ ItemStep(w)
  <2>1. \A h \in objects' : h \in objects \/ h \in roots'[w]
    BY <1>1, <1>2, ItemIsSpaceStep, RegionFacts, SpaceStepIsLocal
  <2>2. \A h \in roots'[w] : h \in Nat /\ Base <= h
    BY SweptAboveBase DEF Space!IInv, Space!OwnershipInv
  <2> QED BY <1>1, <2>1, <2>2, ComponentAssumptions
<1>3. CASE UNCHANGED objects
  BY <1>1, <1>3
<1> QED BY <1>2, <1>3 DEF Worker, ClaimRange, StartItem, FinishItem, FaultItem, LeaveRange,
          StopWorker, handleVars, allocVars
\* The steps inside an item leave the results of the region alone: a collection
\* sweeps only its own worker's chunks, and what those hold is on its stack.
LEMMA SpaceStepKeepsResults ==
  ASSUME IInv, phase = "region", NEW w \in Workers, ItemAllocates(w) \/ ItemStep(w),
         UNCHANGED callVars
  PROVE  ImageInv' /\ PartialsInv'
<1>1. /\ w \in busy /\ thread[w] = "working" /\ SpaceStep(w)
      /\ UNCHANGED <<thread, busy, kept, image, partials, word>>
  BY ItemIsSpaceStep DEF IInv, ThreadInv, forVars, callVars
<1>2. Space!IInv /\ Space!TypeOK /\ ImageInv /\ PartialsInv
  BY RegionFacts
<1>3. /\ Space!Settled \in Int /\ Space!Settled' \in Int /\ Space!Settled <= Space!Settled'
      /\ \A u \in Workers : Space!Swept(u) \subseteq Space!Swept(u)'
      /\ \A u \in Workers : \A h \in Int : h < Space!Settled /\ InChunk(h, u)' => InChunk(h, u)
  BY <1>1, <1>2, SpaceStepClaims, SpaceFacts
<1>4. /\ \A u \in Workers \ {w} : free'[u] = free[u] /\ roots'[u] = roots[u]
      /\ roots[w] \cap kept[w] \subseteq roots'[w]
      /\ \A h \in objects : h \in objects' \/ h \in Space!Swept(w) \ roots[w]
  BY <1>1, <1>2, SpaceStepIsLocal
<1>5. \A h \in Space!Swept(w) : InChunk(h, w)
  BY <1>2, SpaceFacts
<1>6. \A h \in objects : h \in Nat
  BY <1>2 DEF Space!TypeOK
<1>7. kept[w] \subseteq roots[w]
  BY <1>1, <1>2 DEF ImageInv
<1>8. ImageInv'
  <2>1. HandlesIn(image)' = HandlesIn(image)
    BY <1>1
  <2>2. ASSUME NEW h \in HandlesIn(image)
        PROVE  Survives(h)' /\ \A u \in Workers : InChunk(h, u)' => h \in kept[u]
    <3>1. Survives(h) /\ \A u \in Workers : InChunk(h, u) => h \in kept[u]
      BY <1>2 DEF ImageInv
    <3>2. h \in objects /\ h \in Nat /\ Base <= h /\ h < Space!Settled
      BY <1>6, <3>1 DEF Survives
    <3>3. h \in objects'
      BY <1>4, <1>5, <1>7, <3>1, <3>2
    <3> QED BY <1>3, <3>1, <3>2, <3>3 DEF Survives
  <2>3. \A u \in Workers : thread'[u] # "stopped" => kept'[u] \subseteq roots'[u]
    BY <1>1, <1>2, <1>4, <1>7 DEF ImageInv
  <2> QED BY <1>1, <1>2, <2>1, <2>2, <2>3 DEF ImageInv
<1>9. PartialsInv'
  <2>1. HandlesIn(partials)' = HandlesIn(partials)
    BY <1>1
  <2>2. ASSUME NEW u \in Workers, NEW h \in HandlesOf(partials[u])
        PROVE  /\ Survives(h)'
               /\ \/ thread[u] # "stopped" /\ h \in Space!Swept(u)' \ free'[u]
                  \/ thread[u] = "stopped" /\ \A v \in Workers : ~InChunk(h, v)'
    <3>1. /\ Survives(h)
          /\ \/ thread[u] # "stopped" /\ h \in Space!Swept(u) \ free[u]
             \/ thread[u] = "stopped" /\ \A v \in Workers : ~InChunk(h, v)
      BY <1>2 DEF PartialsInv
    <3>2. h \in objects /\ h \in Nat /\ Base <= h /\ h < Space!Settled
      BY <1>6, <3>1 DEF Survives
    <3>3. u # w
      BY <1>1, <1>2 DEF PartialsInv, HandlesOf
    <3>4. ~InChunk(h, w)
      BY <1>2, <3>1, <3>3, SpaceFacts
    <3>5. h \in objects'
      BY <1>4, <1>5, <3>2, <3>4
    <3> QED BY <1>3, <1>4, <3>1, <3>2, <3>3, <3>5 DEF Survives
  <2> QED BY <1>1, <1>2, <2>1, <2>2 DEF PartialsInv
<1> QED BY <1>8, <1>9

LEMMA ClaimRangeKeepsResults ==
  ASSUME IInv, phase = "region", NEW w \in Workers,
         ClaimRange(w) \/ FaultItem(w) \/ LeaveRange(w), UNCHANGED callVars
  PROVE  ImageInv' /\ PartialsInv'
<1>1. /\ UNCHANGED <<word, kept, image, partials, objects, roots, free>>
      /\ Space!Settled' = Space!Settled
      /\ \A u : Space!Swept(u)' = Space!Swept(u)
      /\ \A u, h : InChunk(h, u)' = InChunk(h, u)
  BY SpaceUnchanged DEF ClaimRange, FaultItem, LeaveRange, handleVars, allocVars, kernelVars, callVars
<1>2. busy' \subseteq busy /\ \A u \in Workers : thread'[u] = "stopped" <=> thread[u] = "stopped"
  BY RegionFacts DEF ClaimRange, FaultItem, LeaveRange, For!ClaimItems, For!FinishRange, kernelVars,
     forVars, IInv, ThreadInv
<1>3. ImageInv /\ PartialsInv
  BY RegionFacts
<1>4. \A h : Survives(h)' <=> Survives(h)
  BY <1>1 DEF Survives
<1>5. ImageInv'
  BY <1>1, <1>2, <1>3, <1>4 DEF ImageInv
<1>6. PartialsInv'
  BY <1>1, <1>2, <1>3, <1>4 DEF PartialsInv
<1> QED BY <1>5, <1>6

LEMMA StartItemKeepsResults ==
  ASSUME IInv, phase = "region", NEW w \in Workers, StartItem(w), UNCHANGED callVars
  PROVE  ImageInv' /\ PartialsInv'
<1>1. /\ roots' = [roots EXCEPT ![w] = @ \cup HandlesOf(partials[w])]
      /\ partials' = [partials EXCEPT ![w] = Outside] /\ busy' = busy \cup {w}
      /\ UNCHANGED <<n, undoing, next, end, chunks, free, objects, thread, kept, image, word>>
  BY DEF StartItem, forVars, allocVars, callVars
<1>2. /\ ImageInv /\ PartialsInv /\ Space!TypeOK
      /\ partials \in [Workers -> Values] /\ busy \subseteq Workers
  BY RegionFacts
<1>3. /\ Space!Settled' = Space!Settled
      /\ \A u : Space!Swept(u)' = Space!Swept(u)
      /\ \A u, h : InChunk(h, u)' = InChunk(h, u)
  BY <1>1 DEF Space!Settled, Space!Debt, Space!Swept, Space!SweepEnd, InChunk
<1>4. \A h : Survives(h)' <=> Survives(h)
  BY <1>1, <1>3 DEF Survives
<1>5. \A u \in Workers : roots[u] \subseteq roots'[u]
  BY <1>1, <1>2 DEF Space!TypeOK
<1>6. ImageInv'
  BY <1>1, <1>2, <1>3, <1>4, <1>5 DEF ImageInv
<1>7. /\ \A u \in Workers \ {w} : partials'[u] = partials[u]
      /\ partials'[w] = Outside /\ HandlesOf(partials'[w]) = {}
  BY <1>1, <1>2 DEF HandlesOf
<1>8. word # "pmap-reduce" => HandlesIn(partials') = {}
  <2> SUFFICES ASSUME word # "pmap-reduce", NEW h, h \in HandlesIn(partials') PROVE FALSE
    BY <1>1
  <2>1. HandlesIn(partials) = {} /\ DOMAIN partials' = Workers /\ DOMAIN partials = Workers
    BY <1>1, <1>2 DEF PartialsInv
  <2>2. h # Outside /\ \E u \in Workers : partials'[u] = h
    BY <2>1, HandlesInFacts
  <2>3. h # Outside /\ \E u \in Workers : partials[u] = h
    BY <1>7, <2>2
  <2> QED BY <2>1, <2>3, HandlesInFacts
<1>9. PartialsInv'
  BY <1>1, <1>2, <1>3, <1>4, <1>7, <1>8 DEF PartialsInv
<1> QED BY <1>6, <1>9

LEMMA StopWorkerKeepsResults ==
  ASSUME IInv, phase = "region", NEW w \in Workers, StopWorker(w), UNCHANGED callVars
  PROVE  ImageInv' /\ PartialsInv'
<1>1. /\ thread[w] = "claiming" /\ thread' = [thread EXCEPT ![w] = "stopped"]
      /\ roots' = [roots EXCEPT ![w] = {}] /\ free' = [free EXCEPT ![w] = {}]
      /\ UNCHANGED <<objects, kept, image, partials, busy, word>>
  BY DEF StopWorker, For!Stop, kernelVars, callVars
<1>2. /\ Space!IInv /\ Space!TypeOK /\ ImageInv /\ PartialsInv
      /\ thread \in [Workers -> {"claiming", "working", "stopped", "absent"}]
  BY RegionFacts
<1>3. /\ Space!Settled' = Space!Settled
      /\ \A u \in Workers \ {w} : Space!Swept(u)' = Space!Swept(u)
      /\ \A u \in Workers : chunks'[u] \subseteq chunks[u]
      /\ chunks'[w] = {}
  BY <1>2, StopKeepsSpace
<1>4. \A h : Survives(h)' <=> Survives(h)
  BY <1>1, <1>3 DEF Survives
<1>5. /\ \A u \in Workers : \A h : InChunk(h, u)' => InChunk(h, u)
      /\ \A h : ~InChunk(h, w)'
  BY <1>3 DEF InChunk
<1>6. /\ thread'[w] = "stopped"
      /\ \A u \in Workers \ {w} :
           thread'[u] = thread[u] /\ roots'[u] = roots[u] /\ free'[u] = free[u]
  BY <1>1, <1>2 DEF Space!TypeOK
<1>7. ImageInv'
  BY <1>1, <1>2, <1>4, <1>5, <1>6 DEF ImageInv
<1>8. ASSUME NEW u \in Workers, NEW h \in HandlesOf(partials[u])
      PROVE  \/ thread'[u] # "stopped" /\ h \in Space!Swept(u)' \ free'[u]
             \/ thread'[u] = "stopped" /\ \A v \in Workers : ~InChunk(h, v)'
  <2>1. \/ thread[u] # "stopped" /\ h \in Space!Swept(u) \ free[u]
        \/ thread[u] = "stopped" /\ \A v \in Workers : ~InChunk(h, v)
    BY <1>2 DEF PartialsInv
  <2>2. CASE u = w
    <3>1. h \in Space!Swept(w)
      BY <1>1, <2>1, <2>2
    <3>2. \A v \in Workers \ {w} : ~InChunk(h, v)
      BY <1>2, <3>1, SpaceFacts
    <3> QED BY <1>5, <1>6, <2>2, <3>2
  <2>3. CASE u # w
    BY <1>3, <1>5, <1>6, <2>1, <2>3
  <2> QED BY <2>2, <2>3
<1>9. PartialsInv'
  BY <1>1, <1>2, <1>4, <1>8 DEF PartialsInv
<1> QED BY <1>7, <1>9
\* The value an item leaves is an object of its worker: in the image it stays on
\* the worker's stack, as an accumulator it is out of every collection's way.
LEMMA FinishItemKeepsResults ==
  ASSUME IInv, phase = "region", NEW w \in Workers, FinishItem(w), UNCHANGED callVars
  PROVE  ImageInv' /\ PartialsInv'
<1>1. PICK v \in roots[w] \cup {Outside} :
        /\ image' = IF word = "pmap" THEN [image EXCEPT ![item[w]] = v] ELSE image
        /\ kept' = IF word = "pmap" THEN [kept EXCEPT ![w] = @ \cup HandlesOf(v)] ELSE kept
        /\ partials' = IF word = "pmap-reduce" THEN [partials EXCEPT ![w] = v] ELSE partials
  BY DEF FinishItem
<1>2. /\ w \in busy /\ thread[w] = "working" /\ busy' = busy \ {w}
      /\ roots' = [roots EXCEPT ![w] = kept'[w]]
      /\ UNCHANGED <<n, undoing, next, end, chunks, free, objects, thread, word>>
  BY DEF FinishItem, IInv, ThreadInv, allocVars, forVars, callVars
<1>3. /\ Space!IInv /\ Space!TypeOK /\ ImageInv /\ PartialsInv
      /\ image \in [DomainItems -> Values] /\ partials \in [Workers -> Values]
      /\ kept \in [Workers -> SUBSET Handles] /\ busy \subseteq Workers
      /\ roots[w] \subseteq Space!Swept(w) \ free[w] /\ roots[w] \subseteq objects
  BY RegionFacts
<1>4. /\ Space!Settled' = Space!Settled
      /\ \A u : Space!Swept(u)' = Space!Swept(u)
      /\ \A u, h : InChunk(h, u)' = InChunk(h, u)
  BY <1>2 DEF Space!Settled, Space!Debt, Space!Swept, Space!SweepEnd, InChunk
<1>5. \A h : Survives(h)' <=> Survives(h)
  BY <1>2, <1>4 DEF Survives
<1>6. ASSUME NEW h \in HandlesOf(v)
      PROVE  /\ Survives(h) /\ h \in Space!Swept(w) \ free[w]
             /\ \A u \in Workers : InChunk(h, u) => u = w
  <2>1. h \in Space!Swept(w) \ free[w] /\ h \in objects
    BY <1>1, <1>3, <1>6 DEF HandlesOf
  <2> QED BY <1>3, <2>1, SpaceFacts DEF Survives
<1>7. kept[w] \subseteq roots[w]
  BY <1>2, <1>3 DEF ImageInv
<1>8. roots'[w] = kept'[w] /\ \A u \in Workers \ {w} : roots'[u] = roots[u]
  BY <1>2, <1>3 DEF Space!TypeOK
<1>9. CASE word = "pmap"
  <2>1. /\ kept'[w] = kept[w] \cup HandlesOf(v)
        /\ \A u \in Workers \ {w} : kept'[u] = kept[u]
        /\ partials' = partials /\ HandlesIn(partials) = {}
    BY <1>1, <1>3, <1>9 DEF PartialsInv
  <2>2. \A u \in Workers : HandlesOf(partials[u]) = {}
    BY <1>3, <2>1, HandlesInFacts DEF HandlesOf
  <2>3. ASSUME NEW h \in HandlesIn(image')
        PROVE  h \in HandlesIn(image) \/ h \in HandlesOf(v)
    <3>1. PICK x \in DOMAIN image' : image'[x] = h /\ h # Outside
      BY <2>3, HandlesInFacts
    <3>2. x \in DOMAIN image /\ (image'[x] = image[x] \/ image'[x] = v)
      BY <1>1, <1>3, <1>9, <3>1
    <3> QED BY <3>1, <3>2, HandlesInFacts DEF HandlesOf
  <2>4. ASSUME NEW h \in HandlesIn(image')
        PROVE  Survives(h) /\ \A u \in Workers : InChunk(h, u) => h \in kept'[u]
    <3>1. CASE h \in HandlesIn(image)
      BY <1>3, <2>1, <3>1 DEF ImageInv
    <3>2. CASE h \in HandlesOf(v)
      BY <1>6, <2>1, <3>2
    <3> QED BY <2>3, <2>4, <3>1, <3>2
  <2>5. ImageInv'
    BY <1>2, <1>3, <1>4, <1>5, <1>8, <1>9, <2>1, <2>4 DEF ImageInv
  <2>6. PartialsInv'
    BY <1>2, <1>3, <1>9, <2>1, <2>2 DEF PartialsInv
  <2> QED BY <2>5, <2>6
<1>10. CASE word # "pmap"
  <2>1. image' = image /\ kept' = kept /\ HandlesIn(image) = {} /\ \A u \in Workers : kept[u] = {}
    BY <1>1, <1>3, <1>10 DEF ImageInv
  <2>2. ImageInv'
    BY <1>2, <1>10, <2>1 DEF ImageInv
  <2>3. PartialsInv'
    <3>1. CASE word = "pmap-reduce"
      <4>1. partials'[w] = v /\ \A u \in Workers \ {w} : partials'[u] = partials[u]
        BY <1>1, <1>3, <3>1
      <4>2. \A u \in busy' : partials'[u] = Outside
        BY <1>2, <1>3, <4>1 DEF PartialsInv
      <4>3. ASSUME NEW u \in Workers, NEW h \in HandlesOf(partials'[u])
            PROVE  /\ Survives(h)
                   /\ \/ thread[u] # "stopped" /\ h \in Space!Swept(u) \ free[u]
                      \/ thread[u] = "stopped" /\ \A x \in Workers : ~InChunk(h, x)
        <5>1. CASE u = w
          BY <1>2, <1>6, <4>1, <4>3, <5>1
        <5>2. CASE u # w
          BY <1>3, <4>1, <4>3, <5>2 DEF PartialsInv
        <5> QED BY <5>1, <5>2
      <4> QED BY <1>2, <1>4, <1>5, <3>1, <4>2, <4>3 DEF PartialsInv
    <3>2. CASE word # "pmap-reduce"
      BY <1>1, <1>2, <1>3, <1>4, <1>5, <3>2 DEF PartialsInv
    <3> QED BY <3>1, <3>2
  <2> QED BY <2>2, <2>3
<1> QED BY <1>9, <1>10

LEMMA WorkerKeepsRegionInv ==
  ASSUME IInv, NEW w \in Workers, Worker(w)
  PROVE  RegionInv' /\ MainInv'
<1>1. phase = "region" /\ UNCHANGED callVars /\ UNCHANGED mainVars
  BY WorkerInRegion DEF Worker
<1>2. Space!IInv' /\ \A h \in objects' : h < Base => h \in OldObjects
  BY WorkerKeepsSpace, WorkerKeepsOldObjects
<1>3. ImageInv' /\ PartialsInv'
  BY <1>1, SpaceStepKeepsResults, ClaimRangeKeepsResults, StartItemKeepsResults,
     StopWorkerKeepsResults, FinishItemKeepsResults DEF Worker
<1>4. MainWaits'
  BY <1>1, RegionFacts DEF MainWaits, mainVars
<1> QED BY <1>1, <1>2, <1>3, <1>4 DEF RegionInv, MainInv, callVars

LEMMA WorkerKeepsTypes ==
  ASSUME For!NoOverflow, IInv, NEW w \in Workers, Worker(w)
  PROVE  TypeOK'
<1>1. Space!TypeOK' /\ For!TypeOK'
  BY WorkerKeepsSpace, WorkerKeepsFor DEF Space!IInv, For!IInv
<1>2. TypeOK /\ phase = "region" /\ UNCHANGED callVars /\ UNCHANGED mainVars
  BY WorkerInRegion DEF IInv, Worker
<1>3. /\ word' \in Words /\ phase' \in {"region", "combine", "after"}
      /\ outcome' \in {"none", "ok", "error"} /\ combined' \subseteq Workers
      /\ mainNext' \in 0 .. Cap /\ mainEnd' \in 0 .. Cap
      /\ mainFree' \cup mainRoots' \subseteq Handles
      /\ mainMade' \in 0 .. MaxMainAllocs
  BY <1>2 DEF TypeOK, callVars, mainVars
<1>4. /\ item' \in [Workers -> Nat] /\ busy' \cup faulted' \subseteq Workers
      /\ made' \in [Workers -> 0 .. MaxAllocs] /\ kept' \in [Workers -> SUBSET Handles]
      /\ parallelError' \in BOOLEAN /\ image' \in [DomainItems -> Values]
      /\ partials' \in [Workers -> Values] /\ applied' \in [DomainItems -> Nat]
  <2>1. CASE ClaimRange(w)
    BY <1>2, <2>1, ClaimedRange DEF ClaimRange, IInv, TypeOK
  <2>2. CASE StartItem(w)
    BY <1>2, <2>2, ParallelRegionAssumption DEF StartItem, TypeOK, Values
  <2>3. CASE ItemAllocates(w)
    BY <1>2, <2>3, ParallelRegionAssumption DEF ItemAllocates, TypeOK
  <2>4. CASE ItemStep(w)
    BY <1>2, <2>4 DEF ItemStep, TypeOK, kernelVars
  <2>5. CASE FinishItem(w)
    <3>1. PICK v \in roots[w] \cup {Outside} :
            /\ image' = IF word = "pmap" THEN [image EXCEPT ![item[w]] = v] ELSE image
            /\ kept' = IF word = "pmap" THEN [kept EXCEPT ![w] = @ \cup HandlesOf(v)] ELSE kept
            /\ partials' = IF word = "pmap-reduce" THEN [partials EXCEPT ![w] = v] ELSE partials
      BY <2>5 DEF FinishItem
    <3>2. roots[w] \subseteq Handles
      BY <1>2, RegionFacts, SpaceFacts, ComponentAssumptions DEF Handles
    <3>3. v \in Values /\ HandlesOf(v) \subseteq Handles
      BY <3>1, <3>2 DEF Values, HandlesOf
    <3>4. item[w] \in DomainItems
      BY <1>2, <2>5, FinishItemKeepsItems
    <3>5. /\ image' \in [DomainItems -> Values] /\ partials' \in [Workers -> Values]
          /\ kept' \in [Workers -> SUBSET Handles]
      BY <1>2, <3>1, <3>3 DEF TypeOK
    <3>6. /\ applied' = [applied EXCEPT ![item[w]] = @ + 1]
          /\ item' = [item EXCEPT ![w] = @ + 1] /\ busy' = busy \ {w}
          /\ UNCHANGED <<made, faulted, parallelError>>
      BY <2>5 DEF FinishItem
    <3> QED BY <1>2, <3>4, <3>5, <3>6 DEF TypeOK
  <2>6. CASE FaultItem(w)
    BY <1>2, <2>6 DEF FaultItem, TypeOK
  <2>7. CASE LeaveRange(w) \/ StopWorker(w)
    BY <1>2, <2>7 DEF LeaveRange, StopWorker, TypeOK, kernelVars
  <2> QED BY <2>1, <2>2, <2>3, <2>4, <2>5, <2>6, <2>7 DEF Worker
<1> QED BY <1>1, <1>3, <1>4 DEF TypeOK

LEMMA WorkerKeepsIInv ==
  ASSUME For!NoOverflow, IInv, NEW w \in Workers, Worker(w)
  PROVE  IInv'
  BY WorkerKeepsTypes, WorkerKeepsFor, WorkerKeepsThreadInv, WorkerKeepsPhaseInv, WorkerKeepsItems,
     WorkerKeepsRegionInv DEF IInv
-----------------------------------------------------------------------------
(* The steps of the main interpreter.                                       *)

MainStep == MainReturns \/ MainCombines \/ MainAllocates \/ MainGc \/ MainDrop

\* It leaves what belongs to the workers alone, and the word can only return
\* once: with a result only when no item failed.
LEMMA MainStepFrame ==
  ASSUME IInv, MainStep
  PROVE  /\ UNCHANGED workerVars /\ UNCHANGED word
         /\ For!Joined /\ phase' # "region"
         /\ phase' = "combine" => word = "pmap-reduce" /\ faulted = {}
         /\ outcome' = "none" <=> phase' # "after"
         /\ outcome' = "ok" => outcome = "ok" \/ faulted = {}
<1>1. CASE MainReturns
  BY <1>1 DEF MainReturns, ReturnError, ReturnImage, ReturnKept, StartCombine, JoinedIn, IInv, PhaseInv
<1>2. CASE MainCombines
  BY <1>2 DEF MainCombines, CombineSlot, CombineFaults, ReturnReduced, callVars, IInv, PhaseInv
<1>3. CASE MainAllocates
  BY <1>3 DEF MainAllocates, MainAllocFromChunk, MainAllocFromFree, MainAllocFromClaim,
     MainAllocAfterGc, MayAllocate, InQuotation, callVars, IInv, PhaseInv
<1>4. CASE MainGc \/ MainDrop
  BY <1>4 DEF MainGc, MainDrop, InQuotation, callVars, IInv, PhaseInv
<1> QED BY <1>1, <1>2, <1>3, <1>4 DEF MainStep

\* When the threads are joined and none has failed, every item is done.
LEMMA JoinedMeansApplied ==
  ASSUME IInv, For!Joined, faulted = {}
  PROVE  \A i \in DomainItems : applied[i] = 1
<1>1. thread[Caller] = "stopped"
  BY ComponentAssumptions DEF For!Joined, IInv, For!IInv, For!CallerInv
<1>2. For!Stopped # {}
  BY <1>1, ComponentAssumptions DEF For!Stopped
<1>3. nextIndex >= NItems /\ nextIndex \in Int /\ NItems \in Nat
  BY <1>2, ComponentAssumptions DEF IInv, For!IInv, For!IndexInv, For!TypeOK
<1>4. \A w \in Workers : Ahead(w) = {}
  BY DEF Ahead, For!Joined
<1>5. \A i \in DomainItems : i < nextIndex
  BY <1>3 DEF DomainItems
<1> QED BY <1>4, <1>5 DEF IInv, ItemsInv

LEMMA MainKeepsWorkers ==
  ASSUME For!NoOverflow, IInv, MainStep
  PROVE  For!IInv' /\ ThreadInv' /\ PhaseInv' /\ ItemsInv' /\ RegionInv'
<1>1. /\ UNCHANGED <<undoing, next, end, chunks, free, roots, nextIndex, thread, range, claims,
                     item, busy, faulted, parallelError, applied, word>>
      /\ For!Joined /\ phase' # "region"
      /\ phase' = "combine" => word = "pmap-reduce" /\ faulted = {}
      /\ outcome' = "none" <=> phase' # "after"
      /\ outcome' = "ok" => outcome = "ok" \/ faulted = {}
  BY MainStepFrame DEF workerVars
<1>2. For!IInv'
  BY <1>1, ForStep, ComponentAssumptions DEF forVars, IInv
<1>3. ThreadInv'
  BY <1>1 DEF IInv, ThreadInv
<1>4. PhaseInv'
  BY <1>1 DEF IInv, PhaseInv, For!Joined
<1>5. \A w \in Workers : Ahead(w)' = Ahead(w)
  BY <1>1 DEF Ahead
<1>6. outcome' = "ok" => \A i \in DomainItems : applied[i] = 1
  BY <1>1, JoinedMeansApplied DEF IInv, ItemsInv
<1>7. ItemsInv'
  BY <1>1, <1>5, <1>6 DEF IInv, ItemsInv
<1> QED BY <1>1, <1>2, <1>3, <1>4, <1>7 DEF RegionInv

\* What the join finds: the counter is settled, and what the main interpreter
\* reaches is old or a result of the region.
LEMMA JoinFacts ==
  ASSUME IInv, phase = "region", For!Joined
  PROVE  /\ n \in Nat /\ Base <= n /\ n <= Cap
         /\ \A h \in objects : h \in Nat /\ h < n /\ (h < Base => h \in OldObjects)
         /\ OldObjects \subseteq objects
         /\ mainRoots = {} /\ mainFree = {} /\ mainNext = MainNext /\ mainEnd = Base
         /\ \A h \in HandlesIn(image) \cup HandlesIn(partials) : h \in objects /\ Base <= h
         /\ word # "pmap" => HandlesIn(image) = {}
         /\ word # "pmap-reduce" => HandlesIn(partials) = {}
<1>1. Space!IInv /\ Space!TypeOK /\ ImageInv /\ PartialsInv /\ MainWaits
  BY RegionFacts
<1>2. undoing = {}
  BY DEF IInv, ThreadInv, For!Joined, TypeOK
<1>3. n = Space!Settled /\ n \in Nat /\ Base <= n /\ n <= Cap
  <2>1. n = Space!Settled /\ Base <= Space!Settled /\ Space!Settled <= Cap
    BY <1>1, <1>2, SpaceFacts
  <2> QED BY <1>1, <2>1 DEF Space!TypeOK
<1>4. \A h \in objects : h \in Nat /\ h < n
  BY <1>1, <1>3 DEF Space!IInv, Space!TypeOK, Space!OwnershipInv
<1>5. ASSUME NEW h \in HandlesIn(partials)
      PROVE  Survives(h)
  <2>1. PICK w \in DOMAIN partials : h \in HandlesOf(partials[w])
    BY <1>5 DEF HandlesIn
  <2> QED BY <1>1, <2>1, RegionFacts DEF PartialsInv
<1>6. \A h \in HandlesIn(image) \cup HandlesIn(partials) : h \in objects /\ Base <= h
  BY <1>1, <1>5 DEF ImageInv, Survives
<1>7. OldObjects \subseteq objects
  BY <1>1 DEF Space!IInv, Space!NoDanglingRoot
<1> QED BY <1>1, <1>3, <1>4, <1>6, <1>7, RegionFacts DEF MainWaits, ImageInv, PartialsInv

\* A region that is aborted leaves the old objects and the counter where it was.
LEMMA AbortFacts ==
  ASSUME IInv, phase = "region", For!Joined, RegionAbort
  PROVE  objects' = OldObjects /\ n' = Base
<1>1. objects' = {h \in objects : h < Base \/ h >= n} /\ n' = Base
  BY DEF RegionAbort
<1>2. \A h \in OldObjects : h < Base
  BY ComponentAssumptions
<1>3. \A h \in objects : ~(h >= n)
  BY JoinFacts
<1> QED BY <1>1, <1>2, <1>3, JoinFacts

LEMMA NoHandlesIn ==
  ASSUME NEW S
  PROVE  HandlesIn([x \in S |-> Outside]) = {}
  BY DEF HandlesIn, HandlesOf
LEMMA ReturnsKeepMain ==
  ASSUME IInv, MainReturns
  PROVE  MainInv'
<1>1. /\ phase = "region" /\ For!Joined
      /\ UNCHANGED <<mainNext, mainEnd, mainFree, mainRoots, word>>
  BY DEF MainReturns, ReturnError, ReturnImage, ReturnKept, StartCombine, JoinedIn, mainVars
<1>2. /\ mainRoots = {} /\ mainFree = {} /\ mainNext = MainNext /\ mainEnd = Base
      /\ OldObjects \subseteq objects
      /\ n \in Nat /\ Base <= n /\ n <= Cap
  BY <1>1, JoinFacts
<1>3. \A h \in OldObjects : h \in Nat /\ h < MainNext /\ h < Base
  BY ParallelRegionAssumption
<1>4. ASSUME RegionAbort, HandlesIn(image') = {}, HandlesIn(partials') = {}
      PROVE  MainInv'
  <2>1. objects' = OldObjects /\ n' = Base
    BY <1>1, <1>4, AbortFacts
  <2>2. MainReaches' = OldObjects
    BY <1>1, <1>2, <1>4 DEF MainReaches
  <2>3. SupplyInv'
    <3>1. n' = Base /\ mainEnd' = Base /\ mainNext' = MainNext /\ mainFree' = {}
      BY <1>1, <1>2, <2>1
    <3>2. \A h \in MainReaches' : h < Base /\ ~(MainNext <= h /\ h < Base)
      BY <1>3, <2>2, ParallelRegionAssumption
    <3> QED BY <3>1, <3>2, ComponentAssumptions DEF SupplyInv
  <2> QED BY <1>4, <2>1, <2>2, <2>3 DEF MainInv
<1>5. ASSUME UNCHANGED <<objects, n, image, partials>>
      PROVE  MainInv'
  <2>1. MainReaches' = OldObjects \cup HandlesIn(image) \cup HandlesIn(partials)
    BY <1>1, <1>2, <1>5 DEF MainReaches
  <2>2. ASSUME NEW h \in MainReaches'
        PROVE  h \in objects /\ h < n /\ ~(MainNext <= h /\ h < Base)
    <3>1. h \in objects
      BY <1>1, <2>1, <2>2, JoinFacts
    <3>2. h \in Nat /\ h < n
      BY <1>1, <3>1, JoinFacts
    <3>3. h \in OldObjects \/ Base <= h
      BY <1>1, <2>1, <2>2, JoinFacts
    <3> QED BY <1>3, <3>1, <3>2, <3>3, ParallelRegionAssumption
  <2>3. SupplyInv'
    BY <1>1, <1>2, <1>5, <2>2 DEF SupplyInv
  <2>4. word # "pmap" => HandlesIn(image) = {}
    BY <1>1, JoinFacts
  <2> QED BY <1>1, <1>5, <2>2, <2>3, <2>4 DEF MainInv
<1>6. CASE ReturnError
  BY <1>4, <1>6, NoHandlesIn DEF ReturnError
<1>7. CASE ReturnImage
  <2>1. word = "pmap" /\ UNCHANGED <<image, partials>> /\ CommitOrAbort(HandlesIn(image))
    BY <1>7 DEF ReturnImage, JoinedIn
  <2>2. HandlesIn(partials) = {} /\ \A h \in HandlesIn(image) : h >= Base
    BY <1>1, <2>1, JoinFacts, ComponentAssumptions DEF Space!TypeOK
  <2>3. CASE RegionCommit
    BY <1>5, <2>1, <2>3 DEF RegionCommit
  <2>4. CASE RegionAbort /\ ~ \E h \in HandlesIn(image) : h >= Base
    BY <1>4, <2>1, <2>2, <2>4
  <2> QED BY <2>1, <2>3, <2>4 DEF CommitOrAbort
<1>8. CASE ReturnKept
  BY <1>1, <1>4, <1>8, JoinFacts DEF ReturnKept, JoinedIn
<1>9. CASE StartCombine
  BY <1>5, <1>9 DEF StartCombine
<1> QED BY <1>6, <1>7, <1>8, <1>9 DEF MainReturns

LEMMA CombinesKeepMain ==
  ASSUME IInv, MainCombines
  PROVE  MainInv'
<1>1. phase = "combine" /\ word = "pmap-reduce" /\ MainInv /\ word' = word
  BY DEF MainCombines, CombineSlot, CombineFaults, ReturnReduced, callVars, IInv, PhaseInv
<1>2. MainReaches \subseteq objects /\ HandlesIn(image) = {} /\ SupplyInv
  BY <1>1 DEF MainInv
<1>3. CASE \E w \in Workers : CombineSlot(w)
  <2>1. PICK w \in Workers : CombineSlot(w)
    BY <1>3
  <2>2. /\ mainRoots' \subseteq mainRoots \cup HandlesOf(partials[w])
        /\ UNCHANGED <<image, partials, objects, n, mainNext, mainEnd, mainFree>>
    BY <2>1 DEF CombineSlot, HandlesOf
  <2>3. HandlesOf(partials[w]) \subseteq HandlesIn(partials)
    BY DEF HandlesIn, IInv, TypeOK
  <2>4. MainReaches' \subseteq MainReaches
    BY <2>2, <2>3 DEF MainReaches
  <2> QED BY <1>2, <2>2, <2>4 DEF MainInv, SupplyInv
<1>4. CASE CombineFaults
  <2>1. /\ mainRoots' = {} /\ HandlesIn(partials') = {} /\ phase' = "after"
        /\ UNCHANGED <<image, objects>>
    BY <1>4, NoHandlesIn DEF CombineFaults
  <2> QED BY <1>1, <1>2, <2>1 DEF MainInv, MainReaches
<1>5. CASE ReturnReduced
  <2>1. /\ HandlesIn(partials') = {} /\ phase' = "after"
        /\ UNCHANGED <<image, mainRoots>>
        /\ CommitOrAbort(mainRoots)
    BY <1>5, NoHandlesIn DEF ReturnReduced, mainVars
  <2>2. MainReaches' = OldObjects \cup mainRoots
    BY <1>2, <2>1 DEF MainReaches
  <2>3. OldObjects \cup mainRoots \subseteq objects
    BY <1>2 DEF MainReaches
  <2>4. CASE RegionCommit
    BY <1>1, <1>2, <2>1, <2>2, <2>3, <2>4 DEF RegionCommit, MainInv
  <2>5. CASE RegionAbort /\ ~ \E h \in mainRoots : h >= Base
    <3>1. \A h \in OldObjects \cup mainRoots : h < Base
      BY <2>3, <2>5, ComponentAssumptions DEF IInv, TypeOK, Handles
    <3>2. objects' = {h \in objects : h < Base \/ h >= n}
      BY <2>5 DEF RegionAbort
    <3> QED BY <1>1, <1>2, <2>1, <2>2, <2>3, <3>1, <3>2 DEF MainInv
  <2> QED BY <2>1, <2>4, <2>5 DEF CommitOrAbort
<1> QED BY <1>3, <1>4, <1>5 DEF MainCombines
\* Every allocation takes a handle that neither the main interpreter reaches
\* nor another allocation will be given.
LEMMA AllocationKeepsMain ==
  ASSUME IInv, MainAllocates
  PROVE  MainInv'
<1>1. /\ phase # "region" /\ phase' = phase /\ word' = word
      /\ MainInv /\ UNCHANGED <<image, partials>>
      /\ TypeOK /\ Space!TypeOK
  BY DEF MainAllocates, MainAllocFromChunk, MainAllocFromFree, MainAllocFromClaim,
     MainAllocAfterGc, MayAllocate, InQuotation, callVars, IInv, TypeOK
<1>2. /\ n \in Nat /\ mainNext \in Nat /\ mainEnd \in Nat /\ mainEnd <= Cap /\ mainNext <= Cap
      /\ mainFree \subseteq Nat /\ objects \subseteq Nat /\ Cap \in Nat
      /\ MainReaches \subseteq objects
  BY <1>1, ComponentAssumptions DEF TypeOK, Space!TypeOK, Handles, MainInv
<1>3. ASSUME NEW h, mainRoots' = mainRoots \cup {h}
      PROVE  MainReaches' = MainReaches \cup {h}
  BY <1>1, <1>3 DEF MainReaches
<1>4. CASE MainAllocFromChunk
  <2>1. /\ mainNext < mainEnd /\ mainNext' = mainNext + 1
        /\ objects' = objects \cup {mainNext} /\ mainRoots' = mainRoots \cup {mainNext}
        /\ UNCHANGED <<n, mainEnd, mainFree>>
    BY <1>4 DEF MainAllocFromChunk, MainObject
  <2>2. MainReaches' = MainReaches \cup {mainNext}
    BY <1>3, <2>1
  <2>3. ASSUME SupplyInv PROVE SupplyInv'
    <3>1. \A h \in MainReaches : h < n /\ h \in Nat /\ h \notin mainFree /\ ~(mainNext <= h /\ h < mainEnd)
      BY <1>2, <2>3 DEF SupplyInv
    <3>2. \A h \in MainReaches' :
            h < n /\ h \notin mainFree /\ ~(mainNext + 1 <= h /\ h < mainEnd)
      BY <1>2, <2>1, <2>2, <2>3, <3>1 DEF SupplyInv
    <3> QED BY <1>2, <2>1, <2>3, <3>2 DEF SupplyInv
  <2> QED BY <1>1, <1>2, <2>1, <2>2, <2>3 DEF MainInv
<1>5. CASE MainAllocFromFree
  <2>1. PICK h \in mainFree :
          /\ mainFree' = mainFree \ {h} /\ mainNext >= mainEnd
          /\ objects' = objects \cup {h} /\ mainRoots' = mainRoots \cup {h}
          /\ UNCHANGED <<n, mainNext, mainEnd>>
    BY <1>5 DEF MainAllocFromFree, MainObject
  <2>2. MainReaches' = MainReaches \cup {h}
    BY <1>3, <2>1
  <2>3. ASSUME SupplyInv PROVE SupplyInv'
    <3>1. \A x \in MainReaches' : x < n /\ x \notin mainFree' /\ ~(mainNext <= x /\ x < mainEnd)
      BY <1>2, <2>1, <2>2, <2>3 DEF SupplyInv
    <3> QED BY <2>1, <2>3, <3>1 DEF SupplyInv
  <2> QED BY <1>1, <1>2, <2>1, <2>2, <2>3 DEF MainInv
<1>6. CASE MainAllocFromClaim
  <2>1. /\ mainFree = {} /\ n < Cap /\ n' = For!Minimum(n + SlotsPerClaim, Cap)
        /\ mainNext' = n + 1 /\ mainEnd' = n' /\ mainFree' = mainFree
        /\ objects' = objects \cup {n} /\ mainRoots' = mainRoots \cup {n}
    BY <1>6 DEF MainAllocFromClaim, MainObject
  <2>2. MainReaches' = MainReaches \cup {n}
    BY <1>3, <2>1
  <2>3. n' \in Nat /\ n < n' /\ n' <= Cap
    BY <1>2, <2>1, ComponentAssumptions DEF For!Minimum
  <2>4. ASSUME SupplyInv PROVE SupplyInv'
    <3>1. \A x \in MainReaches' : x \in Nat /\ x <= n
      BY <1>2, <2>2, <2>4 DEF SupplyInv
    <3>2. \A x \in MainReaches' : x < n' /\ x \notin mainFree' /\ ~(mainNext' <= x /\ x < mainEnd')
      BY <1>2, <2>1, <2>3, <3>1
    <3> QED BY <2>1, <2>3, <3>2 DEF SupplyInv
  <2> QED BY <1>1, <1>2, <2>1, <2>2, <2>4 DEF MainInv
<1>7. CASE MainAllocAfterGc
  <2>1. PICK h \in Garbage :
          /\ mainFree' = Garbage \ {h} /\ objects' = (objects \ Garbage) \cup {h}
          /\ mainRoots' = mainRoots \cup {h}
          /\ mainNext' = 0 /\ mainEnd' = 0 /\ n' = n
    BY <1>7 DEF MainAllocAfterGc
  <2>2. MainReaches' = MainReaches \cup {h}
    BY <1>3, <2>1
  <2>3. MainReaches' \subseteq objects'
    BY <1>2, <2>1, <2>2 DEF Garbage
  <2>4. ASSUME SupplyInv PROVE SupplyInv'
    <3>1. \A x \in MainReaches' : x < n /\ x \notin mainFree' /\ x \in Nat
      BY <1>2, <2>1, <2>2, <2>4 DEF SupplyInv, Garbage, Handles
    <3>2. \A x \in mainFree' : x < n
      BY <2>1 DEF Garbage
    <3> QED BY <1>2, <2>1, <2>4, <3>1, <3>2 DEF SupplyInv
  <2> QED BY <1>1, <2>3, <2>4 DEF MainInv
<1> QED BY <1>4, <1>5, <1>6, <1>7 DEF MainAllocates

LEMMA GcKeepsMain ==
  ASSUME IInv, MainGc
  PROVE  MainInv'
<1>1. /\ phase # "region" /\ MainInv
      /\ objects' = objects \ Garbage /\ mainFree' = Garbage /\ mainNext' = 0 /\ mainEnd' = 0
      /\ UNCHANGED <<phase, word, image, partials, n, mainRoots>>
  BY DEF MainGc, InQuotation, callVars, IInv
<1>2. MainReaches' = MainReaches
  BY <1>1 DEF MainReaches
<1>3. MainReaches' \subseteq objects'
  BY <1>1, <1>2 DEF Garbage, MainInv
<1>4. n \in Nat /\ MainReaches \subseteq Nat
  BY <1>1 DEF IInv, TypeOK, Space!TypeOK, MainInv
<1>5. ASSUME SupplyInv PROVE SupplyInv'
  <2>1. \A x \in MainReaches : x < n /\ x \notin Garbage /\ x \in Nat
    BY <1>4, <1>5 DEF SupplyInv, Garbage
  <2>2. \A x \in Garbage : x < n
    BY DEF Garbage
  <2> QED BY <1>1, <1>2, <1>4, <1>5, <2>1, <2>2 DEF SupplyInv
<1> QED BY <1>1, <1>3, <1>5 DEF MainInv

LEMMA DropKeepsMain ==
  ASSUME IInv, MainDrop
  PROVE  MainInv'
<1>1. /\ phase # "region" /\ MainInv
      /\ UNCHANGED <<phase, word, partials, objects, n, mainNext, mainEnd, mainFree>>
  BY DEF MainDrop, InQuotation, callVars, IInv
<1>2. mainRoots' \subseteq mainRoots /\ HandlesIn(image') \subseteq HandlesIn(image)
  BY NoHandlesIn DEF MainDrop
<1>3. MainReaches' \subseteq MainReaches
  BY <1>1, <1>2 DEF MainReaches
<1> QED BY <1>1, <1>2, <1>3 DEF MainInv, SupplyInv
LEMMA MainKeepsTypes ==
  ASSUME IInv, For!IInv', MainStep
  PROVE  TypeOK'
<1>1. /\ UNCHANGED <<undoing, next, end, chunks, free, gcPending, roots, item, busy, made, kept,
                     faulted, parallelError, applied, word>>
  BY MainStepFrame DEF workerVars
<1>2. /\ TypeOK /\ n \in Nat /\ objects \subseteq Nat /\ Cap \in Nat
      /\ mainNext \in 0 .. Cap /\ mainEnd \in 0 .. Cap /\ mainFree \subseteq Handles
      /\ mainRoots \subseteq Handles /\ combined \subseteq Workers
      /\ mainMade \in 0 .. MaxMainAllocs
      /\ image \in [DomainItems -> Values] /\ partials \in [Workers -> Values]
      /\ phase \in {"region", "combine", "after"} /\ outcome \in {"none", "ok", "error"}
  BY ComponentAssumptions DEF IInv, TypeOK, Space!TypeOK
<1> DEFINE Types ==
      /\ n' \in Nat /\ objects' \subseteq Nat
      /\ mainNext' \in 0 .. Cap /\ mainEnd' \in 0 .. Cap /\ mainFree' \subseteq Handles
      /\ mainRoots' \subseteq Handles /\ combined' \subseteq Workers
      /\ mainMade' \in 0 .. MaxMainAllocs
      /\ image' \in [DomainItems -> Values] /\ partials' \in [Workers -> Values]
      /\ phase' \in {"region", "combine", "after"} /\ outcome' \in {"none", "ok", "error"}
<1>3. SUFFICES Types
  BY <1>1, <1>2 DEF TypeOK, Space!TypeOK, For!IInv
<1>4. CASE MainReturns
  <2>1. /\ UNCHANGED mainVars
        /\ (RegionAbort \/ RegionCommit \/ UNCHANGED <<objects, n>>)
        /\ image' \in {image, [i \in DomainItems |-> Outside]}
        /\ partials' \in {partials, [w \in Workers |-> Outside]}
        /\ phase' \in {"region", "combine", "after"} /\ outcome' \in {outcome, "ok", "error"}
    BY <1>4 DEF MainReturns, ReturnError, ReturnImage, ReturnKept, StartCombine, CommitOrAbort
  <2>2. n' \in Nat /\ objects' \subseteq Nat
    BY <1>2, <2>1, ComponentAssumptions DEF RegionAbort, RegionCommit
  <2> QED BY <1>2, <2>1, <2>2 DEF mainVars, Values
<1>5. CASE MainCombines
  <2>1. CASE \E w \in Workers : CombineSlot(w)
    <3>1. PICK w \in Workers : CombineSlot(w)
      BY <2>1
    <3>2. /\ mainRoots' \subseteq mainRoots \cup HandlesOf(partials[w])
          /\ combined' = combined \cup {w}
          /\ UNCHANGED <<callVars, image, partials, objects, n, mainNext, mainEnd, mainFree, mainMade>>
      BY <3>1 DEF CombineSlot, HandlesOf
    <3>3. HandlesOf(partials[w]) \subseteq Handles
      BY <1>2 DEF HandlesOf, Values
    <3> QED BY <1>2, <3>2, <3>3 DEF callVars
  <2>2. CASE CombineFaults
    BY <1>2, <2>2 DEF CombineFaults, Values
  <2>3. CASE ReturnReduced
    <3>1. /\ UNCHANGED mainVars /\ (RegionAbort \/ RegionCommit)
          /\ image' = image /\ partials' = [w \in Workers |-> Outside]
          /\ phase' = "after" /\ outcome' = "ok"
      BY <2>3 DEF ReturnReduced, CommitOrAbort
    <3>2. n' \in Nat /\ objects' \subseteq Nat
      BY <1>2, <3>1, ComponentAssumptions DEF RegionAbort, RegionCommit
    <3> QED BY <1>2, <3>1, <3>2 DEF mainVars, Values
  <2> QED BY <1>5, <2>1, <2>2, <2>3 DEF MainCombines
<1>6. CASE MainAllocates
  <2>1. /\ UNCHANGED <<callVars, image, partials, combined>> /\ MayAllocate
    BY <1>6 DEF MainAllocates, MainAllocFromChunk, MainAllocFromFree, MainAllocFromClaim,
       MainAllocAfterGc
  <2>2. mainMade' \in 0 .. MaxMainAllocs
    BY <1>2, <2>1, ParallelRegionAssumption DEF MayAllocate
  <2>3. CASE MainAllocFromChunk
    <3>1. mainNext \in Handles
      BY <1>2, <2>3 DEF MainAllocFromChunk, Handles
    <3> QED BY <1>2, <2>1, <2>2, <2>3, <3>1 DEF MainAllocFromChunk, MainObject, callVars, Handles
  <2>4. CASE MainAllocFromFree
    BY <1>2, <2>1, <2>2, <2>4 DEF MainAllocFromFree, MainObject, callVars, Handles
  <2>5. CASE MainAllocFromClaim
    <3>1. /\ n < Cap /\ n' = For!Minimum(n + SlotsPerClaim, Cap)
          /\ mainNext' = n + 1 /\ mainEnd' = n' /\ mainFree' = mainFree
          /\ objects' = objects \cup {n} /\ mainRoots' = mainRoots \cup {n}
      BY <2>5 DEF MainAllocFromClaim, MainObject
    <3>2. n' \in 0 .. Cap /\ n + 1 \in 0 .. Cap /\ n \in Handles
      BY <1>2, <3>1, ComponentAssumptions DEF For!Minimum, Handles
    <3> QED BY <1>2, <2>1, <2>2, <3>1, <3>2 DEF callVars
  <2>6. CASE MainAllocAfterGc
    <3>1. Garbage \subseteq Handles /\ Handles \subseteq Nat
      BY DEF Garbage, Handles
    <3>2. PICK h \in Garbage : /\ mainFree' = Garbage \ {h} /\ objects' = (objects \ Garbage) \cup {h}
                               /\ mainRoots' = mainRoots \cup {h}
                               /\ mainNext' = 0 /\ mainEnd' = 0 /\ n' = n
      BY <2>6 DEF MainAllocAfterGc
    <3> QED BY <1>2, <2>1, <2>2, <3>1, <3>2 DEF callVars
  <2> QED BY <1>6, <2>3, <2>4, <2>5, <2>6 DEF MainAllocates
<1>7. CASE MainGc
  <2>1. Garbage \subseteq Handles /\ 0 \in 0 .. Cap
    BY ComponentAssumptions DEF Garbage
  <2>2. /\ objects' = objects \ Garbage /\ mainFree' = Garbage /\ mainNext' = 0 /\ mainEnd' = 0
        /\ n' = n /\ mainRoots' = mainRoots /\ combined' = combined /\ mainMade' = mainMade
        /\ image' = image /\ partials' = partials /\ phase' = phase /\ outcome' = outcome
    BY <1>7 DEF MainGc, callVars
  <2> QED BY <1>2, <2>1, <2>2
<1>8. CASE MainDrop
  BY <1>2, <1>8 DEF MainDrop, callVars, Values
<1> QED BY <1>4, <1>5, <1>6, <1>7, <1>8 DEF MainStep

LEMMA MainKeepsIInv ==
  ASSUME For!NoOverflow, IInv, MainStep
  PROVE  IInv'
<1>1. For!IInv' /\ ThreadInv' /\ PhaseInv' /\ ItemsInv' /\ RegionInv'
  BY MainKeepsWorkers
<1>2. MainInv'
  BY ReturnsKeepMain, CombinesKeepMain, AllocationKeepsMain, GcKeepsMain, DropKeepsMain DEF MainStep
<1> QED BY <1>1, <1>2, MainKeepsTypes DEF IInv

-----------------------------------------------------------------------------
(* The invariant, and what it gives.                                        *)

LEMMA InitIInv ==
  ASSUME For!NoOverflow, Init
  PROVE  IInv
<1>1. Space!IInv /\ For!IInv
  BY InitSpace, InitFor
<1>2. /\ undoing = {} /\ objects = OldObjects /\ nextIndex = 0
      /\ \A w \in Workers : next[w] = 0 /\ end[w] = 0 /\ chunks[w] = {} /\ free[w] = {} /\ roots[w] = {}
      /\ \A w \in Workers : thread[w] \in {"claiming", "absent"}
  BY DEF Init, Space!Init, For!Init
<1>3. /\ word \in Words /\ phase = "region" /\ outcome = "none" /\ item = [w \in Workers |-> 0]
      /\ busy = {} /\ made = [w \in Workers |-> 0] /\ kept = [w \in Workers |-> {}]
      /\ faulted = {} /\ parallelError = FALSE
      /\ image = [i \in DomainItems |-> Outside] /\ partials = [w \in Workers |-> Outside]
      /\ applied = [i \in DomainItems |-> 0]
      /\ mainNext = MainNext /\ mainEnd = Base /\ mainFree = {} /\ mainRoots = {}
      /\ combined = {} /\ mainMade = 0
  BY DEF Init
<1>4. TypeOK
  <2>1. MainNext \in 0 .. Cap /\ Base \in 0 .. Cap /\ 0 \in 0 .. MaxAllocs /\ 0 \in 0 .. MaxMainAllocs
    BY ParallelRegionAssumption
  <2>2. /\ item \in [Workers -> Nat] /\ made \in [Workers -> 0 .. MaxAllocs]
        /\ kept \in [Workers -> SUBSET Handles] /\ applied \in [DomainItems -> Nat]
    BY <1>3, <2>1
  <2>3. image \in [DomainItems -> Values] /\ partials \in [Workers -> Values]
    BY <1>3 DEF Values
  <2> QED BY <1>1, <1>3, <2>1, <2>2, <2>3 DEF TypeOK, Space!IInv, For!IInv
<1>5. ThreadInv /\ PhaseInv
  BY <1>2, <1>3 DEF ThreadInv, PhaseInv
<1>6. ItemsInv
  <2>1. \A w \in Workers : Ahead(w) = {}
    BY <1>2 DEF Ahead
  <2>2. \A i \in DomainItems : ~(i < nextIndex)
    BY <1>2 DEF DomainItems
  <2> QED BY <1>2, <1>3, <2>1, <2>2 DEF ItemsInv
<1>7. HandlesIn(image) = {} /\ HandlesIn(partials) = {}
  BY <1>3, NoHandlesIn
<1>8. ImageInv /\ PartialsInv
  BY <1>3, <1>7 DEF ImageInv, PartialsInv, HandlesOf
<1>9. RegionInv
  BY <1>1, <1>2, <1>3, <1>8 DEF RegionInv, MainWaits
<1> QED BY <1>1, <1>3, <1>4, <1>5, <1>6, <1>9 DEF IInv, MainInv

\* Whatever the workers claim, allocate, collect and fail at, and whatever the
\* main interpreter does after the join, the parts of the invariant hold.
THEOREM Invariance == For!NoOverflow /\ Spec => []IInv
<1>1. For!NoOverflow /\ Init => IInv
  BY InitIInv
<1>2. For!NoOverflow /\ IInv /\ [Next]_vars => IInv'
  <2> SUFFICES ASSUME For!NoOverflow, IInv, [Next]_vars PROVE IInv'
    OBVIOUS
  <2>1. CASE \E w \in Workers : Worker(w)
    BY <2>1, WorkerKeepsIInv
  <2>2. CASE MainStep
    BY <2>2, MainKeepsIInv
  <2>3. CASE UNCHANGED vars
    <3>1. /\ UNCHANGED handleVars /\ UNCHANGED forVars
          /\ UNCHANGED <<n, undoing, next, end, chunks, free, gcPending, objects, roots>>
          /\ UNCHANGED <<nextIndex, thread, range, claims>>
          /\ UNCHANGED <<word, phase, outcome, item, busy, made, kept, faulted, parallelError,
                         image, partials, applied>>
          /\ UNCHANGED <<mainNext, mainEnd, mainFree, mainRoots, combined, mainMade>>
      BY <2>3 DEF vars, handleVars, allocVars, forVars
    <3>2. /\ Space!IInv' <=> Space!IInv
          /\ Space!Settled' = Space!Settled
          /\ \A u : Space!Swept(u)' = Space!Swept(u)
          /\ \A u, h : InChunk(h, u)' = InChunk(h, u)
      BY <3>1, SpaceUnchanged
    <3>3. For!IInv'
      BY <3>1, ForStep, ComponentAssumptions DEF IInv
    <3>4. TypeOK'
      BY <3>1, <3>3 DEF IInv, TypeOK, Space!TypeOK, For!IInv
    <3>5. ThreadInv' /\ PhaseInv'
      BY <3>1 DEF IInv, ThreadInv, PhaseInv, For!Joined
    <3>6. ItemsInv'
      BY <3>1, ItemsUnchanged DEF IInv
    <3>7. \A h : Survives(h)' <=> Survives(h)
      BY <3>1, <3>2 DEF Survives
    <3>8. ImageInv' <=> ImageInv
      BY <3>1, <3>2, <3>7 DEF ImageInv
    <3>9. PartialsInv' <=> PartialsInv
      BY <3>1, <3>2, <3>7 DEF PartialsInv
    <3>10. RegionInv'
      BY <3>1, <3>2, <3>8, <3>9 DEF IInv, RegionInv, MainWaits
    <3>11. MainInv'
      BY <3>1 DEF IInv, MainInv, SupplyInv, MainReaches
    <3> QED BY <3>3, <3>4, <3>5, <3>6, <3>10, <3>11 DEF IInv
  <2> QED BY <2>1, <2>2, <2>3 DEF Next, MainStep
<1>3. For!NoOverflow => For!NoOverflow'
  BY DEF For!NoOverflow
<1> QED BY <1>1, <1>2, <1>3, PTL DEF Spec

\* The variables hold what the code stores in them.
THEOREM TypeCorrect == For!NoOverflow /\ Spec => []TypeOK
<1>1. IInv => TypeOK
  BY DEF IInv
<1> QED BY <1>1, Invariance, PTL

\* No item is worked through twice, and the word succeeds only when each has
\* been worked through.
THEOREM ItemsAppliedOnce == For!NoOverflow /\ Spec => []AppliedOnce
<1>1. IInv => AppliedOnce
  BY DEF IInv, ItemsInv, AppliedOnce
<1> QED BY <1>1, Invariance, PTL

\* Nothing frees an object that a worker, the image, the partial results or the
\* main interpreter can still reach.
THEOREM ResultsSurvive == For!NoOverflow /\ Spec => []ReachableExist
<1>1. IInv => ReachableExist
  <2> SUFFICES ASSUME IInv PROVE Reachable \subseteq objects
    BY DEF ReachableExist
  <2>1. CASE phase = "region"
    <3>1. \A w \in Workers : roots[w] \subseteq objects
      BY <2>1, RegionFacts
    <3>2. HandlesIn(image) \subseteq objects
      BY <2>1, RegionFacts DEF ImageInv, Survives
    <3>3. HandlesIn(partials) \subseteq objects
      BY <2>1, RegionFacts DEF PartialsInv, Survives, HandlesIn
    <3>4. OldObjects \subseteq objects /\ mainRoots = {}
      BY <2>1, RegionFacts DEF Space!IInv, Space!NoDanglingRoot, MainWaits
    <3> QED BY <3>1, <3>2, <3>3, <3>4 DEF Reachable, MainReaches
  <2>2. CASE phase # "region"
    <3>1. \A w \in Workers : roots[w] = {}
      BY <2>2 DEF IInv, PhaseInv, ThreadInv, For!Joined
    <3> QED BY <2>2, <3>1 DEF Reachable, IInv, MainInv
  <2> QED BY <2>1, <2>2
<1> QED BY <1>1, Invariance, PTL

\* What a worker's next allocation may be given lies in its own chunks, where
\* no object that any worker reaches is.
LEMMA OfferedApart ==
  ASSUME Space!IInv, NEW v \in Workers, NEW h \in Space!Offered(v)
  PROVE  /\ h \in Nat /\ Base <= h /\ InChunk(h, v)
         /\ \A u \in Workers : h \notin Space!Swept(u) \ free[u]
<1>1. SP!IInv /\ SP!TypeOK /\ SP!ChunkInv /\ SP!OpenChunkInv
  BY SameSpaceInv DEF SP!IInv
<1>2. CASE h \in free[v]
  <2>1. h \in Space!Swept(v)
    BY <1>2 DEF Space!IInv, Space!OwnershipInv
  <2> QED BY <1>2, <2>1, SpaceFacts
<1>3. CASE h \in Nat /\ next[v] <= h /\ h < end[v]
  <2>1. \A u \in Workers : h \notin SP!Swept(u)
    BY <1>1, <1>3, ComponentAssumptions, SP!OpenChunkUnused
  <2>2. /\ end[v] - SlotsPerClaim \in chunks[v]
        /\ end[v] - SlotsPerClaim <= next[v]
        /\ end[v] \in Nat /\ next[v] \in Nat
    BY <1>1, <1>3 DEF SP!OpenChunkInv, SP!TypeOK
  <2>3. InChunk(h, v)
    BY <1>3, <2>2, ComponentAssumptions DEF InChunk
  <2>4. Base <= end[v] - SlotsPerClaim
    BY <1>1, <2>2 DEF SP!ChunkInv
  <2>5. Base <= h
    BY <1>3, <2>2, <2>4, ComponentAssumptions
  <2> QED BY <1>3, <2>1, <2>3, <2>5, SameSwept
<1> QED BY <1>2, <1>3 DEF Space!Offered, Space!Handles

\* While the workers run, no later allocation of any of them is given a handle
\* that a stack, the image or an accumulator reaches.
LEMMA NotOfferedByWorker ==
  ASSUME IInv, phase = "region", NEW h \in Reachable, NEW v \in Workers
  PROVE  h \notin Space!Offered(v)
<1>1. SUFFICES ASSUME h \in Space!Offered(v) PROVE FALSE
  OBVIOUS
<1>2. Space!IInv /\ ImageInv /\ PartialsInv /\ mainRoots = {}
  BY RegionFacts DEF MainWaits
<1>3. /\ h \in Nat /\ Base <= h /\ InChunk(h, v)
      /\ \A u \in Workers : h \notin Space!Swept(u) \ free[u]
  BY <1>1, <1>2, OfferedApart
<1>4. \A u \in Workers : h \notin roots[u]
  BY <1>3, RegionFacts
<1>5. h \notin OldObjects
  BY <1>3, ComponentAssumptions
<1>6. h \notin HandlesIn(image)
  <2>1. SUFFICES ASSUME h \in HandlesIn(image) PROVE FALSE
    OBVIOUS
  <2>2. h \in kept[v]
    BY <1>2, <1>3, <2>1 DEF ImageInv
  <2>3. thread[v] # "stopped"
    BY <1>3 DEF InChunk, IInv, ThreadInv
  <2> QED BY <1>2, <1>4, <2>2, <2>3 DEF ImageInv
<1>7. h \notin HandlesIn(partials)
  BY <1>2, <1>3, RegionFacts DEF PartialsInv, HandlesIn
<1> QED BY <1>2, <1>4, <1>5, <1>6, <1>7 DEF Reachable, MainReaches

\* No later allocation, of a worker or of the main interpreter, is given a
\* handle that can be reached, until a reduction returns.
THEOREM ReachedNotOffered == For!NoOverflow /\ Spec => []NoLiveHandleOfferedInRegion
<1>1. IInv => NoLiveHandleOfferedInRegion
  <2> SUFFICES ASSUME IInv, ~(word = "pmap-reduce" /\ phase = "after"),
                      NEW h \in Reachable, h \in OfferedHandles
               PROVE  FALSE
    BY DEF NoLiveHandleOfferedInRegion, NoLiveHandleOffered
  <2>1. CASE phase = "region"
    <3>1. /\ Space!IInv /\ ImageInv /\ PartialsInv
          /\ mainFree = {} /\ mainRoots = {} /\ mainNext = MainNext /\ mainEnd = Base
      BY <2>1, RegionFacts DEF MainWaits
    <3>2. h \in Nat /\ ((MainNext <= h /\ h < Base) \/ h >= n)
      BY <2>1, <3>1, NotOfferedByWorker DEF OfferedHandles, Handles
    <3>3. Base <= Space!Settled /\ Space!Settled <= n /\ n \in Nat /\ Space!Settled \in Int
      BY <3>1, SpaceFacts DEF Space!IInv, Space!TypeOK
    <3>4. h \in OldObjects \/ (Base <= h /\ h < Space!Settled)
      <4>1. CASE \E w \in Workers : h \in roots[w]
        BY <2>1, <3>1, <4>1, SpaceFacts, RegionFacts
      <4>2. CASE h \in HandlesIn(image)
        BY <3>1, <4>2 DEF ImageInv, Survives
      <4>3. CASE h \in HandlesIn(partials)
        BY <2>1, <3>1, <4>3, RegionFacts DEF PartialsInv, Survives, HandlesIn
      <4> QED BY <3>1, <4>1, <4>2, <4>3 DEF Reachable, MainReaches
    <3>5. h \in OldObjects => h < MainNext /\ h < Base
      BY ParallelRegionAssumption
    <3> QED BY <3>2, <3>3, <3>4, <3>5, ParallelRegionAssumption
  <2>2. CASE phase # "region"
    <3>1. \A w \in Workers : roots[w] = {} /\ free[w] = {} /\ next[w] = 0 /\ end[w] = 0
      BY <2>2 DEF IInv, PhaseInv, ThreadInv, For!Joined
    <3>2. h \in MainReaches /\ SupplyInv
      BY <2>2, <3>1 DEF Reachable, IInv, MainInv
    <3>3. \A w \in Workers : Space!Offered(w) = {}
      BY <3>1 DEF Space!Offered, Space!Handles
    <3>4. h \in mainFree \/ (h \in Handles /\ ((mainNext <= h /\ h < mainEnd) \/ h >= n))
      BY <3>3 DEF OfferedHandles
    <3>5. n \in Nat
      BY DEF IInv, TypeOK, Space!TypeOK
    <3> QED BY <3>2, <3>4, <3>5 DEF SupplyInv, Handles
  <2> QED BY <2>1, <2>2
<1> QED BY <1>1, Invariance, PTL

\* A region that fails, and any region of pfilter, is undone to the last handle.
LEMMA FailureUndoes ==
  ASSUME IInv, [Next]_vars, phase = "region", phase' = "after",
         outcome' = "error" \/ word = "pfilter"
  PROVE  NothingLeft'
<1>1. ~\E w \in Workers : Worker(w)
  BY DEF Worker, callVars
<1>2. ~(MainCombines \/ MainAllocates \/ MainGc \/ MainDrop)
  BY DEF MainCombines, CombineSlot, CombineFaults, ReturnReduced, MainAllocates,
     MainAllocFromChunk, MainAllocFromFree, MainAllocFromClaim, MainAllocAfterGc, MayAllocate,
     MainGc, MainDrop, InQuotation
<1>3. vars' # vars
  BY DEF vars
<1>4. ReturnError \/ ReturnKept
  BY <1>1, <1>2, <1>3 DEF Next, MainReturns, ReturnImage, StartCombine, JoinedIn
<1>5. For!Joined /\ RegionAbort
  BY <1>4 DEF ReturnError, ReturnKept, JoinedIn
<1>6. objects' = OldObjects /\ n' = Base
  BY <1>5, AbortFacts
<1>7. HandlesIn(image') = {}
  <2>1. CASE ReturnError
    BY <2>1, NoHandlesIn DEF ReturnError
  <2>2. CASE ReturnKept
    BY <2>2, RegionFacts DEF ReturnKept, JoinedIn, ImageInv
  <2> QED BY <1>4, <2>1, <2>2
<1>8. HandlesIn(image)' = HandlesIn(image')
  BY DEF HandlesIn, HandlesOf
<1> QED BY <1>6, <1>7, <1>8 DEF NothingLeft

THEOREM FailureIsClean == For!NoOverflow /\ Spec => FailureLeavesNothing
<1>1. ASSUME IInv, [Next]_vars
      PROVE  [phase = "region" /\ phase' = "after" /\ (outcome' = "error" \/ word = "pfilter")
                => NothingLeft']_vars
  BY <1>1, FailureUndoes
<1> QED BY <1>1, Invariance, PTL DEF Spec, FailureLeavesNothing

\* A whole call shares out its domain as worker_entry does, whatever the
\* quotations allocate, collect or raise, and with an index that may wrap: the
\* rest of the region, and all that follows it, leaves the sharing alone.
THEOREM RegionSharesDomain == Spec => For!Spec
<1>1. Init => For!Init
  BY DEF Init
<1>2. [Next]_vars => [For!Next]_(For!forVars)
  <2> SUFFICES ASSUME [Next]_vars PROVE For!Next \/ UNCHANGED forVars
    BY DEF forVars, For!forVars
  <2>1. ASSUME NEW w \in Workers, Worker(w) PROVE For!Next \/ UNCHANGED forVars
    <3>1. For!ClaimItems(w) \/ For!FinishRange(w) \/ For!Stop(w) \/ UNCHANGED forVars
      BY <2>1 DEF Worker, ClaimRange, StartItem, ItemAllocates, ItemStep, FinishItem, FaultItem,
             LeaveRange, StopWorker
    <3> QED BY <3>1 DEF For!Next
  <2>2. ASSUME MainReturns \/ MainCombines PROVE UNCHANGED workerVars
    BY <2>2 DEF MainReturns, ReturnError, ReturnImage, ReturnKept, StartCombine, MainCombines,
           CombineSlot, CombineFaults, ReturnReduced
  <2>3. ASSUME MainAllocates \/ MainGc \/ MainDrop PROVE UNCHANGED workerVars
    BY <2>3 DEF MainAllocates, MainAllocFromChunk, MainAllocFromFree, MainAllocFromClaim,
           MainAllocAfterGc, MainGc, MainDrop
  <2>4. ASSUME UNCHANGED workerVars \/ UNCHANGED vars PROVE UNCHANGED forVars
    BY <2>4 DEF workerVars, vars, forVars
  <2> QED BY <2>1, <2>2, <2>3, <2>4 DEF Next
<1> QED BY <1>1, <1>2, PTL DEF Spec, For!Spec
=============================================================================
