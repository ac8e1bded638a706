------------------------- MODULE HandleSpaceProofs -------------------------
(***************************************************************************)
(* Proofs about HandleSpace for any finite set of workers, any chunk size  *)
(* and any table size: the inductive invariant IInv, the safety invariants *)
(* it implies, and that HandleSpace implements ChunkPool.                  *)
(***************************************************************************)
EXTENDS HandleSpace, FiniteSetTheorems, TLAPS

LEMMA TimesSuccessor ==
  ASSUME NEW k \in Nat, NEW c \in Nat
  PROVE  k * (c + 1) = k * c + k
  OBVIOUS

\* What the failed claims in flight add up to.
LEMMA DebtFacts ==
  ASSUME undoing \subseteq Workers
  PROVE  /\ Debt \in Nat
         /\ undoing = {} => Debt = 0
         /\ undoing # {} => Debt >= SlotsPerClaim
<1>1. IsFiniteSet(undoing)
  BY HandleSpaceAssumption, FS_Subset DEF HandleSpaceAssumption
<1>2. Cardinality(undoing) \in Nat
  BY <1>1, FS_CardinalityType
<1>3. SlotsPerClaim \in Nat
  BY HandleSpaceAssumption DEF HandleSpaceAssumption
<1>4. Debt \in Nat
  BY <1>2, <1>3 DEF Debt
<1>5. ASSUME undoing = {} PROVE Debt = 0
  BY <1>5, <1>3, FS_EmptySet DEF Debt
<1>6. ASSUME undoing # {} PROVE Debt >= SlotsPerClaim
  <2>1. Cardinality(undoing) # 0
    BY <1>1, <1>6, FS_EmptySet
  <2>2. PICK c \in Nat : Cardinality(undoing) = c + 1
    <3>1. Cardinality(undoing) - 1 \in Nat
      BY <2>1, <1>2
    <3>2. QED BY <3>1, <1>2
  <2>3. Debt = SlotsPerClaim * c + SlotsPerClaim
    BY <2>2, <1>3, TimesSuccessor DEF Debt
  <2>4. SlotsPerClaim * c \in Nat
    BY <1>3, <2>2
  <2>5. QED
    BY <2>3, <2>4, <1>3
<1>7. QED
  BY <1>4, <1>5, <1>6

\* A failed claim adds one chunk to the debt ...
LEMMA DebtGrows ==
  ASSUME undoing \subseteq Workers, NEW w \in Workers, w \notin undoing,
         undoing' = undoing \cup {w}
  PROVE  Debt' = Debt + SlotsPerClaim
<1>1. IsFiniteSet(undoing)
  BY HandleSpaceAssumption, FS_Subset DEF HandleSpaceAssumption
<1>2. /\ Cardinality(undoing) \in Nat
      /\ Cardinality(undoing \cup {w}) = Cardinality(undoing) + 1
  BY <1>1, FS_AddElement, FS_CardinalityType
<1>3. SlotsPerClaim \in Nat
  BY HandleSpaceAssumption DEF HandleSpaceAssumption
<1>4. Cardinality(undoing') = Cardinality(undoing) + 1
  BY <1>2
<1>5. QED
  BY <1>2, <1>3, <1>4, TimesSuccessor DEF Debt

\* ... and taking it back removes one.
LEMMA DebtShrinks ==
  ASSUME undoing \subseteq Workers, NEW w \in Workers, w \in undoing,
         undoing' = undoing \ {w}
  PROVE  Debt = Debt' + SlotsPerClaim
<1>1. IsFiniteSet(undoing)
  BY HandleSpaceAssumption, FS_Subset DEF HandleSpaceAssumption
<1>2. IsFiniteSet(undoing')
  BY <1>1, FS_Subset
<1>3. /\ Cardinality(undoing') \in Nat
      /\ Cardinality(undoing' \cup {w}) = Cardinality(undoing') + 1
  BY <1>2, FS_AddElement, FS_CardinalityType
<1>4. undoing = undoing' \cup {w}
  OBVIOUS
<1>5. Cardinality(undoing) = Cardinality(undoing') + 1
  BY <1>3, <1>4
<1>6. SlotsPerClaim \in Nat
  BY HandleSpaceAssumption DEF HandleSpaceAssumption
<1>7. QED
  BY <1>3, <1>5, <1>6, TimesSuccessor DEF Debt

LEMMA DebtUnchanged ==
  ASSUME UNCHANGED undoing
  PROVE  Debt' = Debt
  BY DEF Debt

----------------------------------------------------------------------------
(* How each action moves Settled.                                           *)

LEMMA SettledType ==
  ASSUME TypeOK
  PROVE  /\ Settled \in Int
         /\ Settled <= n
         /\ undoing = {} => Settled = n
         /\ undoing # {} => Settled + SlotsPerClaim <= n
  BY DebtFacts, HandleSpaceAssumption DEF HandleSpaceAssumption, TypeOK, Settled

LEMMA SettledUnchanged ==
  ASSUME UNCHANGED <<n, undoing>>
  PROVE  Settled' = Settled
  BY DebtUnchanged DEF Settled

\* A claim that succeeds proves that no failed claim is in flight.
LEMMA SettledClaim ==
  ASSUME TypeOK, CounterInv, NEW w \in Workers, AllocFromClaim(w)
  PROVE  /\ undoing = {}
         /\ Settled = n
         /\ Settled' = n + SlotsPerClaim
<1>1. n + SlotsPerClaim <= Cap /\ n' = n + SlotsPerClaim /\ undoing' = undoing
  BY DEF AllocFromClaim
<1>2. undoing = {}
  <2>1. SUFFICES ASSUME undoing # {} PROVE FALSE
    OBVIOUS
  <2>2. Settled <= n /\ Settled \in Int /\ n \in Int
    BY SettledType DEF TypeOK
  <2>3. Settled + SlotsPerClaim > Cap
    BY <2>1 DEF CounterInv
  <2>4. QED
    BY <1>1, <2>2, <2>3, HandleSpaceAssumption DEF HandleSpaceAssumption
<1>3. Settled = n
  BY <1>2, SettledType
<1>4. Debt' = Debt /\ Debt = 0
  BY <1>1, <1>2, DebtUnchanged, DebtFacts DEF TypeOK
<1>5. Settled' = n'
  BY <1>1, <1>4, HandleSpaceAssumption DEF Settled, TypeOK, HandleSpaceAssumption
<1>6. QED
  BY <1>1, <1>2, <1>3, <1>5

LEMMA SettledPastEnd ==
  ASSUME TypeOK, CounterInv, NEW w \in Workers, ClaimPastEnd(w)
  PROVE  /\ Settled' = Settled
         /\ Settled + SlotsPerClaim > Cap
<1>1. /\ n' = n + SlotsPerClaim /\ undoing' = undoing \cup {w} /\ w \notin undoing
      /\ n + SlotsPerClaim > Cap
  BY DEF ClaimPastEnd, MustClaim
<1>2. Debt' = Debt + SlotsPerClaim
  BY <1>1, DebtGrows DEF TypeOK
<1>3. Debt \in Nat /\ SlotsPerClaim \in Nat /\ n \in Nat
  BY DebtFacts, HandleSpaceAssumption DEF HandleSpaceAssumption, TypeOK
<1>4. Settled' = Settled
  BY <1>1, <1>2, <1>3 DEF Settled
<1>5. Settled + SlotsPerClaim > Cap
  <2>1. CASE undoing = {}
    BY <2>1, <1>1, SettledType
  <2>2. CASE undoing # {}
    BY <2>2 DEF CounterInv
  <2>3. QED BY <2>1, <2>2
<1>6. QED
  BY <1>4, <1>5

LEMMA SettledBack ==
  ASSUME TypeOK, CounterInv, NEW w \in Workers, TakeClaimBack(w)
  PROVE  Settled' = Settled /\ n' \in Nat
<1>1. n' = n - SlotsPerClaim /\ undoing' = undoing \ {w} /\ w \in undoing
  BY DEF TakeClaimBack
<1>2. Debt = Debt' + SlotsPerClaim
  BY <1>1, DebtShrinks DEF TypeOK
<1>3. Debt \in Nat /\ SlotsPerClaim \in Nat /\ n \in Nat
  BY DebtFacts, HandleSpaceAssumption DEF HandleSpaceAssumption, TypeOK
<1>4. undoing' \subseteq Workers
  BY <1>1 DEF TypeOK
<1>5. Debt' \in Nat
  <2>1. Cardinality(undoing') \in Nat
    BY <1>4, FS_Subset, FS_CardinalityType, HandleSpaceAssumption DEF HandleSpaceAssumption
  <2>2. QED
    BY <2>1, <1>3 DEF Debt
<1>6. Settled' = Settled
  BY <1>1, <1>2, <1>3, <1>5 DEF Settled
<1>7. n' \in Nat
  <2>1. Base <= n - Debt /\ Base \in Nat
    BY HandleSpaceAssumption DEF HandleSpaceAssumption, CounterInv, Settled
  <2>2. SlotsPerClaim <= Debt
    <3>1. PICK d \in Nat : Debt = d + SlotsPerClaim
      BY <1>2, <1>5
    <3>2. QED
      BY <3>1, <1>3
  <2>3. Debt <= n
    BY <1>3, <2>1
  <2>4. n - SlotsPerClaim \in Nat
    BY <1>3, <2>2, <2>3
  <2>5. QED
    BY <1>1, <2>4
<1>8. QED
  BY <1>6, <1>7

----------------------------------------------------------------------------
(* What a collection of worker w may touch.                                 *)

LEMMA SweptRange ==
  ASSUME TypeOK, CounterInv, ChunkInv, OpenChunkInv, NEW w \in Workers, NEW h \in Swept(w)
  PROVE  h \in Nat /\ Base <= h /\ h < Settled
<1>1. PICK c \in chunks[w] : c <= h /\ h < SweepEnd(w, c)
  BY DEF Swept
<1>2. h \in Nat /\ c \in Nat /\ next[w] \in Nat /\ end[w] \in Nat
  BY DEF Swept, Handles, TypeOK
<1>3. Base <= c /\ c + SlotsPerClaim <= Settled
  BY DEF ChunkInv
<1>4. SweepEnd(w, c) <= c + SlotsPerClaim
  BY <1>2, HandleSpaceAssumption DEF SweepEnd, OpenChunkInv, HandleSpaceAssumption
<1>5. Settled \in Int
  BY SettledType
<1>6. SweepEnd(w, c) \in Int
  BY <1>2, HandleSpaceAssumption DEF SweepEnd, HandleSpaceAssumption
<1>7. QED
  BY <1>1, <1>2, <1>3, <1>4, <1>5, <1>6, HandleSpaceAssumption DEF HandleSpaceAssumption

LEMMA SweptInChunk ==
  ASSUME TypeOK, OpenChunkInv, NEW w \in Workers, NEW h \in Swept(w)
  PROVE  \E c \in chunks[w] : c <= h /\ h < c + SlotsPerClaim /\ (c = end[w] - SlotsPerClaim => h < next[w])
<1>1. PICK c \in chunks[w] : c <= h /\ h < SweepEnd(w, c)
  BY DEF Swept
<1>2. h \in Nat /\ c \in Nat /\ next[w] \in Nat /\ end[w] \in Nat
  BY DEF Swept, Handles, TypeOK
<1>3. QED
  BY <1>1, <1>2, HandleSpaceAssumption DEF SweepEnd, OpenChunkInv, HandleSpaceAssumption

\* Workers sweep disjoint handles.
LEMMA SweptDisjoint ==
  ASSUME TypeOK, ChunkInv, OpenChunkInv, NEW v \in Workers, NEW w \in Workers, v # w
  PROVE  Swept(v) \cap Swept(w) = {}
<1>1. SUFFICES ASSUME NEW h \in Swept(v), h \in Swept(w) PROVE FALSE
  OBVIOUS
<1>2. PICK c \in chunks[v] : c <= h /\ h < c + SlotsPerClaim
  BY SweptInChunk
<1>3. PICK d \in chunks[w] : d <= h /\ h < d + SlotsPerClaim
  BY <1>1, SweptInChunk
<1>4. Apart(c, d)
  BY DEF ChunkInv
<1>5. c \in Nat /\ d \in Nat /\ h \in Nat
  BY DEF TypeOK, Swept, Handles
<1>6. QED
  BY <1>2, <1>3, <1>4, <1>5, HandleSpaceAssumption DEF Apart, HandleSpaceAssumption

\* Handles of the unused part of an open chunk have never been used by anyone.
LEMMA OpenChunkUnused ==
  ASSUME TypeOK, ChunkInv, OpenChunkInv, NEW v \in Workers, NEW w \in Workers,
         NEW h \in Nat, next[w] <= h, h < end[w]
  PROVE  h \notin Swept(v)
<1>1. SUFFICES ASSUME h \in Swept(v) PROVE FALSE
  OBVIOUS
<1>2. PICK c \in chunks[v] : /\ c <= h /\ h < c + SlotsPerClaim
                             /\ c = end[v] - SlotsPerClaim => h < next[v]
  BY <1>1, SweptInChunk
<1>3. /\ end[w] - SlotsPerClaim \in chunks[w]
      /\ end[w] - SlotsPerClaim <= h
  BY HandleSpaceAssumption DEF OpenChunkInv, TypeOK, HandleSpaceAssumption
<1>4. v # w \/ c # end[w] - SlotsPerClaim
  BY <1>2 DEF TypeOK
<1>5. Apart(c, end[w] - SlotsPerClaim)
  BY <1>3, <1>4 DEF ChunkInv
<1>6. c \in Nat /\ end[w] \in Nat
  BY DEF TypeOK
<1>7. QED
  BY <1>2, <1>3, <1>5, <1>6, HandleSpaceAssumption DEF Apart, HandleSpaceAssumption

\* Using the next handle of the open chunk adds just that handle ...
LEMMA SweptNext ==
  ASSUME TypeOK, CounterInv, ChunkInv, OpenChunkInv, NEW w \in Workers, AllocFromChunk(w)
  PROVE  /\ Swept(w)' = Swept(w) \cup {next[w]}
         /\ \A v \in Workers \ {w} : Swept(v)' = Swept(v)
         /\ next[w] \in Nat /\ Base <= next[w] /\ next[w] < Settled
<1> DEFINE c == end[w] - SlotsPerClaim
<1>1. /\ next[w] < end[w] /\ next' = [next EXCEPT ![w] = next[w] + 1]
      /\ end' = end /\ chunks' = chunks
  BY DEF AllocFromChunk
<1>2. /\ next[w] \in Nat /\ end[w] \in Nat
      /\ next'[w] = next[w] + 1
      /\ \A v \in Workers \ {w} : next'[v] = next[v]
  BY <1>1 DEF TypeOK
<1>3. c \in chunks[w] /\ c <= next[w]
  BY <1>1, <1>2, HandleSpaceAssumption DEF OpenChunkInv, HandleSpaceAssumption
<1>4. Base <= c /\ end[w] <= Settled /\ Settled \in Int /\ c \in Nat
  <2>1. c + SlotsPerClaim = end[w]
    BY <1>2, HandleSpaceAssumption DEF HandleSpaceAssumption
  <2>2. QED
    BY <1>3, <2>1, SettledType DEF ChunkInv, TypeOK
<1>5. Base <= next[w] /\ next[w] < Settled /\ next[w] \in Handles
  BY <1>1, <1>2, <1>3, <1>4, HandleSpaceAssumption
     DEF CounterInv, Handles, HandleSpaceAssumption
<1>6. \A d \in chunks[w] : SweepEnd(w, d)' = IF d = c THEN next[w] + 1 ELSE SweepEnd(w, d)
  BY <1>1, <1>2 DEF SweepEnd
<1>7. SweepEnd(w, c) = next[w]
  BY DEF SweepEnd
<1>8. Swept(w)' = Swept(w) \cup {next[w]}
  <2>1. ASSUME NEW h \in Handles
        PROVE  (\E d \in chunks[w] : d <= h /\ h < SweepEnd(w, d)')
               <=> (\E d \in chunks[w] : d <= h /\ h < SweepEnd(w, d)) \/ h = next[w]
    <3>1. h \in Nat
      BY DEF Handles
    <3>2. QED
      BY <1>2, <1>3, <1>6, <1>7, <3>1
  <2>2. Swept(w)' = {h \in Handles : \E d \in chunks[w] : d <= h /\ h < SweepEnd(w, d)'}
    BY <1>1 DEF Swept
  <2>3. QED
    BY <2>1, <2>2, <1>5 DEF Swept
<1>9. ASSUME NEW v \in Workers \ {w} PROVE Swept(v)' = Swept(v)
  BY <1>1, <1>2 DEF Swept, SweepEnd
<1>10. QED
  BY <1>2, <1>5, <1>8, <1>9

\* ... and so does the first handle of a fresh chunk.
LEMMA SweptClaim ==
  ASSUME TypeOK, CounterInv, ChunkInv, OpenChunkInv, NEW w \in Workers, AllocFromClaim(w)
  PROVE  /\ Swept(w)' = Swept(w) \cup {n}
         /\ \A v \in Workers \ {w} : Swept(v)' = Swept(v)
<1>1. /\ next[w] >= end[w] /\ n + SlotsPerClaim <= Cap
      /\ next' = [next EXCEPT ![w] = n + 1]
      /\ end' = [end EXCEPT ![w] = n + SlotsPerClaim]
      /\ chunks' = [chunks EXCEPT ![w] = chunks[w] \cup {n}]
  BY DEF AllocFromClaim, MustClaim
<1>2. /\ next'[w] = n + 1 /\ end'[w] = n + SlotsPerClaim /\ chunks'[w] = chunks[w] \cup {n}
      /\ \A v \in Workers \ {w} :
            next'[v] = next[v] /\ end'[v] = end[v] /\ chunks'[v] = chunks[v]
      /\ n \in Nat /\ next[w] \in Nat /\ end[w] \in Nat /\ SlotsPerClaim \in Nat \ {0}
  BY <1>1, HandleSpaceAssumption DEF TypeOK, HandleSpaceAssumption
<1>3. \A d \in chunks[w] : d \in Nat /\ d + SlotsPerClaim <= n
  BY SettledClaim DEF ChunkInv, TypeOK
<1>4. \A d \in chunks[w] : SweepEnd(w, d)' = d + SlotsPerClaim /\ SweepEnd(w, d) = d + SlotsPerClaim
  BY <1>1, <1>2, <1>3 DEF SweepEnd, OpenChunkInv
<1>5. \A d : d = n => SweepEnd(w, d)' = n + 1
  <2>1. n = (n + SlotsPerClaim) - SlotsPerClaim
    BY <1>2
  <2>2. QED
    BY <1>2, <2>1 DEF SweepEnd
<1>6. n \in Handles
  BY <1>1, <1>2, HandleSpaceAssumption DEF Handles, HandleSpaceAssumption
<1>7. ASSUME NEW h \in Handles
      PROVE  (\E d \in chunks[w] \cup {n} : d <= h /\ h < SweepEnd(w, d)')
             <=> (\E d \in chunks[w] : d <= h /\ h < SweepEnd(w, d)) \/ h = n
  <2>1. h \in Nat
    BY DEF Handles
  <2>2. \A d : d = n => (d <= h /\ h < SweepEnd(w, d)' <=> h = n)
    BY <2>1, <1>2, <1>5
  <2>3. QED
    BY <2>2, <1>4
<1>8. Swept(w)' = {h \in Handles : \E d \in chunks[w] \cup {n} : d <= h /\ h < SweepEnd(w, d)'}
  BY <1>2 DEF Swept
<1>9. Swept(w)' = Swept(w) \cup {n}
  BY <1>6, <1>7, <1>8 DEF Swept
<1>10. ASSUME NEW v \in Workers \ {w} PROVE Swept(v)' = Swept(v)
  BY <1>2 DEF Swept, SweepEnd
<1>11. QED
  BY <1>9, <1>10

LEMMA SweptUnchanged ==
  ASSUME UNCHANGED <<next, end, chunks>>
  PROVE  \A w \in Workers : Swept(w)' = Swept(w)
  BY DEF Swept, SweepEnd

----------------------------------------------------------------------------
(* The inductive invariant, one lemma per action.                           *)

LEMMA InitIInv == Init => IInv
<1> SUFFICES ASSUME Init PROVE IInv
  OBVIOUS
<1>1. TypeOK
  BY HandleSpaceAssumption DEF Init, TypeOK, HandleSpaceAssumption
<1>2. Settled = Base
  BY <1>1, SettledType DEF Init
<1>3. CounterInv
  BY <1>2, HandleSpaceAssumption DEF Init, CounterInv, HandleSpaceAssumption
<1>4. ChunkInv /\ OpenChunkInv
  BY DEF Init, ChunkInv, OpenChunkInv
<1>5. OwnershipInv /\ NoDanglingRoot
  BY <1>2, HandleSpaceAssumption
     DEF Init, OwnershipInv, NoDanglingRoot, HandleSpaceAssumption
<1>6. QED
  BY <1>1, <1>3, <1>4, <1>5 DEF IInv

LEMMA AllocFromFreeIInv ==
  ASSUME IInv, NEW w \in Workers, AllocFromFree(w)
  PROVE  IInv'
<1>1. PICK h \in free[w] :
        /\ free' = [free EXCEPT ![w] = free[w] \ {h}]
        /\ objects' = objects \cup {h}
        /\ roots' = [roots EXCEPT ![w] = roots[w] \cup {h}]
  BY DEF AllocFromFree, NewObject
<1>2. /\ UNCHANGED <<n, undoing, next, end, chunks>>
      /\ gcPending' \in {gcPending, gcPending \cup {w}}
  BY DEF AllocFromFree, MayRequestGc
<1>3. TypeOK /\ CounterInv /\ ChunkInv /\ OpenChunkInv /\ OwnershipInv /\ NoDanglingRoot
  BY DEF IInv
<1>4. Settled' = Settled
  BY <1>2, SettledUnchanged
<1>5. TypeOK'
  BY <1>1, <1>2, <1>3 DEF TypeOK
<1>6. CounterInv' /\ ChunkInv' /\ OpenChunkInv'
  BY <1>2, <1>3, <1>4 DEF CounterInv, ChunkInv, OpenChunkInv
<1>7. h \in Swept(w) /\ h < Settled
  BY <1>3, SweptRange DEF OwnershipInv
<1>8. \A v \in Workers : Swept(v)' = Swept(v)
  BY <1>2, SweptUnchanged
<1>9. OwnershipInv'
  <2>1. /\ free'[w] = free[w] \ {h} /\ roots'[w] = roots[w] \cup {h}
        /\ \A v \in Workers \ {w} : free'[v] = free[v] /\ roots'[v] = roots[v]
    BY <1>1, <1>3 DEF TypeOK
  <2>2. ASSUME NEW v \in Workers
        PROVE  roots'[v] \subseteq Swept(v) /\ free'[v] \subseteq Swept(v) /\ roots'[v] \cap free'[v] = {}
    BY <2>1, <1>3, <1>7 DEF OwnershipInv
  <2>3. \A g \in objects' : g < Settled'
    BY <1>1, <1>3, <1>4, <1>7 DEF OwnershipInv
  <2>4. QED
    BY <2>2, <2>3, <1>8 DEF OwnershipInv
<1>10. NoDanglingRoot'
  BY <1>1, <1>3 DEF NoDanglingRoot, TypeOK
<1>11. QED
  BY <1>5, <1>6, <1>9, <1>10 DEF IInv

\* Using a handle nobody has used before, in a chunk of worker w.
LEMMA FreshHandleOwnership ==
  ASSUME TypeOK, OwnershipInv, NEW w \in Workers, NEW h \in Nat,
         \A v \in Workers : h \notin Swept(v),
         Swept(w)' = Swept(w) \cup {h},
         \A v \in Workers \ {w} : Swept(v)' = Swept(v),
         free' = free, NewObject(w, h),
         Settled <= Settled', h < Settled', Settled \in Int, Settled' \in Int
  PROVE  OwnershipInv'
<1>1. /\ objects' = objects \cup {h} /\ roots'[w] = roots[w] \cup {h}
      /\ \A v \in Workers \ {w} : roots'[v] = roots[v]
  BY DEF NewObject, TypeOK
<1>2. ASSUME NEW v \in Workers
      PROVE  roots'[v] \subseteq Swept(v)' /\ free'[v] \subseteq Swept(v)' /\ roots'[v] \cap free'[v] = {}
  BY <1>1 DEF OwnershipInv
<1>3. \A g \in objects' : g < Settled'
  <2>1. PICK s \in Int, t \in Int : s = Settled /\ t = Settled'
    OBVIOUS
  <2>2. \A g \in objects : g \in Nat /\ g < s
    BY <2>1 DEF OwnershipInv, TypeOK
  <2>3. s <= t /\ h < t
    BY <2>1
  <2>4. \A g \in objects' : g < t
    BY <1>1, <2>2, <2>3
  <2>5. QED
    BY <2>1, <2>4
<1>4. QED
  BY <1>2, <1>3 DEF OwnershipInv

LEMMA AllocFromChunkIInv ==
  ASSUME IInv, NEW w \in Workers, AllocFromChunk(w)
  PROVE  IInv'
<1>1. /\ next[w] < end[w]
      /\ next' = [next EXCEPT ![w] = next[w] + 1]
      /\ NewObject(w, next[w])
      /\ UNCHANGED <<n, undoing, end, chunks, free>>
      /\ gcPending' \in {gcPending, gcPending \cup {w}}
  BY DEF AllocFromChunk, MayRequestGc
<1>2. TypeOK /\ CounterInv /\ ChunkInv /\ OpenChunkInv /\ OwnershipInv /\ NoDanglingRoot
  BY DEF IInv
<1>3. Settled' = Settled /\ Settled \in Int
  BY <1>1, <1>2, SettledUnchanged, SettledType
<1>4. /\ next[w] \in Nat /\ next[w] < Settled
      /\ Swept(w)' = Swept(w) \cup {next[w]}
      /\ \A v \in Workers \ {w} : Swept(v)' = Swept(v)
  BY <1>2, SweptNext
<1>5. TypeOK'
  <2>1. next' \in [Workers -> Nat]
    BY <1>1, <1>2, <1>4 DEF TypeOK
  <2>2. objects' \subseteq Nat /\ roots' \in [Workers -> SUBSET Nat]
    BY <1>1, <1>2, <1>4 DEF TypeOK, NewObject
  <2>3. QED
    BY <1>1, <1>2, <2>1, <2>2 DEF TypeOK
<1>6. CounterInv' /\ ChunkInv'
  BY <1>1, <1>2, <1>3 DEF CounterInv, ChunkInv
<1>7. OpenChunkInv'
  <2>1. /\ next'[w] = next[w] + 1
        /\ \A v \in Workers \ {w} : next'[v] = next[v]
        /\ next[w] \in Nat /\ end[w] \in Nat
    BY <1>1, <1>2 DEF TypeOK
  <2>2. /\ end[w] - SlotsPerClaim \in chunks[w]
        /\ end[w] - SlotsPerClaim <= next[w] + 1 /\ next[w] + 1 <= end[w]
    BY <1>1, <1>2, <2>1, HandleSpaceAssumption DEF OpenChunkInv, HandleSpaceAssumption
  <2>3. QED
    BY <1>1, <1>2, <2>1, <2>2 DEF OpenChunkInv
<1>8. \A v \in Workers : next[w] \notin Swept(v)
  BY <1>1, <1>2, <1>4, OpenChunkUnused
<1>9. OwnershipInv'
  BY <1>1, <1>2, <1>3, <1>4, <1>8, FreshHandleOwnership
<1>10. NoDanglingRoot'
  BY <1>1, <1>2 DEF NoDanglingRoot, NewObject, TypeOK
<1>11. QED
  BY <1>5, <1>6, <1>7, <1>9, <1>10 DEF IInv

LEMMA AllocFromClaimIInv ==
  ASSUME IInv, NEW w \in Workers, AllocFromClaim(w)
  PROVE  IInv'
<1>1. /\ n + SlotsPerClaim <= Cap
      /\ n' = n + SlotsPerClaim
      /\ chunks' = [chunks EXCEPT ![w] = chunks[w] \cup {n}]
      /\ next' = [next EXCEPT ![w] = n + 1]
      /\ end' = [end EXCEPT ![w] = n + SlotsPerClaim]
      /\ NewObject(w, n)
      /\ UNCHANGED <<undoing, free>>
      /\ gcPending' \in {gcPending, gcPending \cup {w}}
  BY DEF AllocFromClaim, MayRequestGc
<1>2. TypeOK /\ CounterInv /\ ChunkInv /\ OpenChunkInv /\ OwnershipInv /\ NoDanglingRoot
  BY DEF IInv
<1>3. undoing = {} /\ Settled = n /\ Settled' = n + SlotsPerClaim
  BY <1>2, SettledClaim
<1>4. n \in Nat /\ SlotsPerClaim \in Nat \ {0} /\ Base \in Nat /\ Cap \in Nat
  BY <1>2, HandleSpaceAssumption DEF TypeOK, HandleSpaceAssumption
<1>5. TypeOK'
  BY <1>1, <1>2, <1>4 DEF TypeOK, NewObject
<1>6. CounterInv'
  BY <1>1, <1>2, <1>3, <1>4 DEF CounterInv
<1>7. /\ chunks'[w] = chunks[w] \cup {n} /\ next'[w] = n + 1 /\ end'[w] = n + SlotsPerClaim
      /\ \A v \in Workers \ {w} : chunks'[v] = chunks[v] /\ next'[v] = next[v] /\ end'[v] = end[v]
  BY <1>1, <1>2 DEF TypeOK
<1>8. \A v \in Workers : \A c \in chunks[v] : c \in Nat /\ Base <= c /\ c + SlotsPerClaim <= n
  BY <1>2, <1>3 DEF ChunkInv, TypeOK
<1>9. Base <= n
  BY <1>2, <1>3 DEF CounterInv
<1>10. ChunkInv'
  <2>1. ASSUME NEW v \in Workers, NEW c \in chunks'[v]
        PROVE  Base <= c /\ c + SlotsPerClaim <= n + SlotsPerClaim
    BY <1>4, <1>7, <1>8, <1>9
  <2>2. ASSUME NEW u \in Workers, NEW v \in Workers, NEW c \in chunks'[u], NEW d \in chunks'[v],
               u # v \/ c # d
        PROVE  Apart(c, d)
    <3>1. c \in chunks[u] \/ (u = w /\ c = n)
      BY <1>7
    <3>2. d \in chunks[v] \/ (v = w /\ d = n)
      BY <1>7
    <3>3. CASE c \in chunks[u] /\ d \in chunks[v]
      BY <3>3, <2>2, <1>2 DEF ChunkInv
    <3>4. CASE c \in chunks[u] /\ d = n
      BY <3>4, <1>8 DEF Apart
    <3>5. CASE c = n /\ d \in chunks[v]
      BY <3>5, <1>8 DEF Apart
    <3>6. QED
      BY <3>1, <3>2, <3>3, <3>4, <3>5, <2>2
  <2>3. QED
    BY <2>1, <2>2, <1>3 DEF ChunkInv, Apart
<1>11. OpenChunkInv'
  <2>1. ASSUME NEW v \in Workers
        PROVE  \/ chunks'[v] = {} /\ next'[v] = 0 /\ end'[v] = 0
               \/ /\ end'[v] - SlotsPerClaim \in chunks'[v]
                  /\ end'[v] - SlotsPerClaim <= next'[v] /\ next'[v] <= end'[v]
    <3>1. CASE v = w
      <4>1. (n + SlotsPerClaim) - SlotsPerClaim = n /\ n <= n + 1 /\ n + 1 <= n + SlotsPerClaim
        BY <1>4
      <4>2. QED
        BY <3>1, <4>1, <1>7
    <3>2. CASE v # w
      BY <3>2, <1>2, <1>7 DEF OpenChunkInv
    <3>3. QED BY <3>1, <3>2
  <2>2. QED
    BY <2>1 DEF OpenChunkInv
<1>12. ASSUME NEW v \in Workers PROVE n \notin Swept(v)
  BY <1>2, <1>3, <1>4, SweptRange
<1>13. OwnershipInv'
  <2>1. /\ Swept(w)' = Swept(w) \cup {n}
        /\ \A v \in Workers \ {w} : Swept(v)' = Swept(v)
    BY <1>2, SweptClaim
  <2>2. Settled <= Settled' /\ n < Settled' /\ Settled \in Int /\ Settled' \in Int
    BY <1>3, <1>4
  <2>3. QED
    BY <1>1, <1>2, <1>4, <1>12, <2>1, <2>2, FreshHandleOwnership
<1>14. NoDanglingRoot'
  BY <1>1, <1>2 DEF NoDanglingRoot, NewObject, TypeOK
<1>15. QED
  BY <1>5, <1>6, <1>10, <1>11, <1>13, <1>14 DEF IInv

\* Steps that only move the counter, forth or back, leave the rest alone.
LEMMA CounterStepIInv ==
  ASSUME IInv, TypeOK', CounterInv', Settled' = Settled,
         UNCHANGED <<next, end, chunks, free, objects, roots>>
  PROVE  IInv'
<1>1. ChunkInv /\ OpenChunkInv /\ OwnershipInv /\ NoDanglingRoot
  BY DEF IInv
<1>2. \A v \in Workers : Swept(v)' = Swept(v)
  BY SweptUnchanged
<1>3. ChunkInv' /\ OpenChunkInv' /\ NoDanglingRoot'
  BY <1>1 DEF ChunkInv, OpenChunkInv, NoDanglingRoot
<1>4. OwnershipInv'
  BY <1>1, <1>2 DEF OwnershipInv
<1>5. QED
  BY <1>3, <1>4 DEF IInv

LEMMA ClaimPastEndIInv ==
  ASSUME IInv, NEW w \in Workers, ClaimPastEnd(w)
  PROVE  IInv'
<1>1. /\ n' = n + SlotsPerClaim /\ undoing' = undoing \cup {w}
      /\ gcPending' \in {gcPending, gcPending \cup {w}}
      /\ UNCHANGED <<next, end, chunks, free, objects, roots>>
  BY DEF ClaimPastEnd, MayRequestGc
<1>2. TypeOK /\ CounterInv
  BY DEF IInv
<1>3. Settled' = Settled /\ Settled + SlotsPerClaim > Cap
  BY <1>2, SettledPastEnd
<1>4. TypeOK'
  BY <1>1, <1>2, HandleSpaceAssumption DEF TypeOK, HandleSpaceAssumption
<1>5. CounterInv'
  BY <1>2, <1>3 DEF CounterInv
<1>6. QED
  BY <1>1, <1>3, <1>4, <1>5, CounterStepIInv

LEMMA TakeClaimBackIInv ==
  ASSUME IInv, NEW w \in Workers, TakeClaimBack(w)
  PROVE  IInv'
<1>1. /\ undoing' = undoing \ {w}
      /\ w \in undoing
      /\ UNCHANGED <<next, end, chunks, free, gcPending, objects, roots>>
  BY DEF TakeClaimBack
<1>2. TypeOK /\ CounterInv
  BY DEF IInv
<1>3. Settled' = Settled /\ n' \in Nat
  BY <1>2, SettledBack
<1>4. TypeOK'
  BY <1>1, <1>2, <1>3 DEF TypeOK
<1>5. CounterInv'
  BY <1>1, <1>2, <1>3 DEF CounterInv
<1>6. QED
  BY <1>1, <1>3, <1>4, <1>5, CounterStepIInv

LEMMA DropIInv ==
  ASSUME IInv, NEW w \in Workers, Drop(w)
  PROVE  IInv'
<1>1. PICK h \in roots[w] : roots' = [roots EXCEPT ![w] = roots[w] \ {h}]
  BY DEF Drop, DropHandle
<1>2. UNCHANGED <<n, undoing, next, end, chunks, free, gcPending, objects>>
  BY DEF Drop, DropHandle, allocVars
<1>3. TypeOK /\ CounterInv /\ ChunkInv /\ OpenChunkInv /\ OwnershipInv /\ NoDanglingRoot
  BY DEF IInv
<1>4. Settled' = Settled /\ \A v \in Workers : Swept(v)' = Swept(v)
  BY <1>2, SettledUnchanged, SweptUnchanged
<1>5. TypeOK'
  BY <1>1, <1>2, <1>3 DEF TypeOK
<1>6. CounterInv' /\ ChunkInv' /\ OpenChunkInv'
  BY <1>2, <1>3, <1>4 DEF CounterInv, ChunkInv, OpenChunkInv
<1>7. \A v \in Workers : roots'[v] \subseteq roots[v]
  BY <1>1, <1>3 DEF TypeOK
<1>8. OwnershipInv' /\ NoDanglingRoot'
  BY <1>2, <1>3, <1>4, <1>7 DEF OwnershipInv, NoDanglingRoot
<1>9. QED
  BY <1>5, <1>6, <1>8 DEF IInv

LEMMA WorkerLocalGcIInv ==
  ASSUME IInv, NEW w \in Workers, WorkerLocalGc(w)
  PROVE  IInv'
<1>1. /\ objects' = objects \ (Swept(w) \ roots[w])
      /\ free' = [free EXCEPT ![w] = Swept(w) \ roots[w]]
      /\ gcPending' = gcPending \ {w}
      /\ UNCHANGED <<n, undoing, next, end, chunks, roots>>
  BY DEF WorkerLocalGc
<1>2. TypeOK /\ CounterInv /\ ChunkInv /\ OpenChunkInv /\ OwnershipInv /\ NoDanglingRoot
  BY DEF IInv
<1>3. Settled' = Settled /\ \A v \in Workers : Swept(v)' = Swept(v)
  BY <1>1, SettledUnchanged, SweptUnchanged
<1>4. TypeOK'
  <2>1. Swept(w) \subseteq Nat
    BY DEF Swept, Handles
  <2>2. QED
    BY <1>1, <1>2, <2>1 DEF TypeOK
<1>5. CounterInv' /\ ChunkInv' /\ OpenChunkInv'
  BY <1>1, <1>2, <1>3 DEF CounterInv, ChunkInv, OpenChunkInv
<1>6. /\ free'[w] = Swept(w) \ roots[w]
      /\ \A v \in Workers \ {w} : free'[v] = free[v]
  BY <1>1, <1>2 DEF TypeOK
<1>7. OwnershipInv'
  <2>1. ASSUME NEW v \in Workers
        PROVE  roots[v] \subseteq Swept(v) /\ free'[v] \subseteq Swept(v) /\ roots[v] \cap free'[v] = {}
    BY <1>2, <1>6 DEF OwnershipInv
  <2>2. QED
    BY <2>1, <1>1, <1>2, <1>3 DEF OwnershipInv
<1>8. \A v \in Workers : roots[v] \cap (Swept(w) \ roots[w]) = {}
  BY <1>2, SweptDisjoint DEF OwnershipInv
<1>9. OldObjects \cap Swept(w) = {}
  <2>1. ASSUME NEW h \in OldObjects, h \in Swept(w) PROVE FALSE
    <3>1. Base <= h
      BY <2>1, <1>2, SweptRange
    <3>2. QED
      BY <3>1, <2>1, HandleSpaceAssumption DEF HandleSpaceAssumption
  <2>2. QED BY <2>1
<1>10. NoDanglingRoot'
  BY <1>1, <1>2, <1>8, <1>9 DEF NoDanglingRoot
<1>11. QED
  BY <1>4, <1>5, <1>7, <1>10 DEF IInv

----------------------------------------------------------------------------
(* The theorems.                                                            *)

\* Whatever the workers allocate, drop, collect and fail to claim, in any
\* interleaving, IInv holds: it relates the shared counter, the claims in
\* flight, the chunks and the sweep ranges (core.c, local_claim_handle and
\* worker_local_gc).
THEOREM Invariance == Spec => []IInv
<1>1. IInv /\ [Next]_handleVars => IInv'
  <2> SUFFICES ASSUME IInv, [Next]_handleVars PROVE IInv'
    OBVIOUS
  <2>1. CASE UNCHANGED handleVars
    <3>1. UNCHANGED <<n, undoing, next, end, chunks, free, gcPending, objects, roots>>
      BY <2>1 DEF handleVars, allocVars
    <3>2. Settled' = Settled
      BY <3>1, SettledUnchanged
    <3>3. TypeOK' /\ CounterInv'
      BY <3>1, <3>2 DEF IInv, TypeOK, CounterInv
    <3>4. QED
      BY <3>1, <3>2, <3>3, CounterStepIInv
  <2>2. ASSUME NEW w \in Workers,
               \/ AllocFromFree(w) \/ AllocFromChunk(w) \/ AllocFromClaim(w)
               \/ ClaimPastEnd(w) \/ TakeClaimBack(w) \/ Drop(w) \/ WorkerLocalGc(w)
        PROVE  IInv'
    BY <2>2, AllocFromFreeIInv, AllocFromChunkIInv, AllocFromClaimIInv,
       ClaimPastEndIInv, TakeClaimBackIInv, DropIInv, WorkerLocalGcIInv
  <2>3. QED
    BY <2>1, <2>2 DEF Next
<1>2. QED
  BY InitIInv, <1>1, PTL DEF Spec

\* No handle ever lies in the chunks of two workers.
THEOREM ClaimsDisjoint == Spec => []ChunksDisjoint
<1>1. IInv => ChunksDisjoint
  <2> SUFFICES ASSUME IInv, NEW v \in Workers, NEW w \in Workers, v # w,
                      NEW c \in chunks[v], NEW d \in chunks[w], NEW h \in Chunk(c) \cap Chunk(d)
               PROVE  FALSE
    BY DEF ChunksDisjoint
  <2>1. Apart(c, d)
    BY DEF IInv, ChunkInv
  <2>2. c \in Nat /\ d \in Nat
    BY DEF IInv, TypeOK
  <2>3. QED
    BY <2>1, <2>2, HandleSpaceAssumption DEF Apart, Chunk, HandleSpaceAssumption
<1>2. QED
  BY <1>1, Invariance, PTL

\* No collection of any worker frees an object a worker still reaches.
THEOREM RootsSurvive == Spec => []NoDanglingRoot
<1>1. IInv => NoDanglingRoot
  BY DEF IInv
<1>2. QED
  BY <1>1, Invariance, PTL

\* No allocation of any worker reuses a handle that a worker still reaches.
THEOREM RootsNotReused == Spec => []NoRootOffered
<1>1. IInv => NoRootOffered
  <2> SUFFICES ASSUME IInv, NEW v \in Workers, NEW w \in Workers, NEW h \in roots[v],
                      \/ h \in free[w]
                      \/ h \in Handles /\ next[w] <= h /\ h < end[w]
                      \/ h \in Handles /\ h >= n
               PROVE  FALSE
    BY DEF NoRootOffered, Offered
  <2>1. TypeOK /\ CounterInv /\ ChunkInv /\ OpenChunkInv /\ OwnershipInv
    BY DEF IInv
  <2>2. h \in Swept(v) /\ h \in Nat /\ h < Settled
    BY <2>1, SweptRange DEF OwnershipInv
  <2>3. CASE h \in free[w]
    BY <2>1, <2>2, <2>3, SweptDisjoint DEF OwnershipInv
  <2>4. CASE next[w] <= h /\ h < end[w]
    BY <2>1, <2>2, <2>4, OpenChunkUnused
  <2>5. CASE h >= n
    BY <2>1, <2>2, <2>5, SettledType DEF TypeOK
  <2>6. QED
    BY <2>3, <2>4, <2>5
<1>2. QED
  BY <1>1, Invariance, PTL

\* A failed claim leaves n within the table once it has been taken back, and n
\* bounds every handle in use (PLAN.md's invariant on local_claim_handle).
THEOREM CounterWithinTable == Spec => []CounterSettled
<1>1. IInv => CounterSettled
  <2> SUFFICES ASSUME IInv, undoing = {} PROVE n <= Cap /\ objects \subseteq 0 .. (n - 1)
    BY DEF CounterSettled
  <2>1. Settled = n /\ n \in Nat
    BY SettledType DEF IInv, TypeOK
  <2>2. n <= Cap
    BY <2>1 DEF IInv, CounterInv
  <2>3. \A h \in objects : h \in Nat /\ h < n
    BY <2>1 DEF IInv, TypeOK, OwnershipInv
  <2>4. QED
    BY <2>1, <2>2, <2>3
<1>2. QED
  BY <1>1, Invariance, PTL

\* The claim protocol implements the pool that grants and refuses chunks in
\* one step: a failed claim in flight is never seen as space that is gone.
THEOREM ImplementsPool == Spec => PoolSpec
<1>1. Init => Pool!Init
  <2> SUFFICES ASSUME Init PROVE Pool!Init
    OBVIOUS
  <2>1. TypeOK /\ undoing = {} /\ n = Base
    BY InitIInv DEF IInv, Init
  <2>2. QED
    BY <2>1, SettledType DEF Init, Pool!Init
<1>2. IInv /\ [Next]_handleVars => [Pool!Next]_(Pool!vars)
  <2> SUFFICES ASSUME IInv, [Next]_handleVars PROVE [Pool!Next]_(Pool!vars)
    OBVIOUS
  <2>1. TypeOK /\ CounterInv
    BY DEF IInv
  <2>2. ASSUME UNCHANGED <<n, undoing, chunks>> PROVE UNCHANGED Pool!vars
    BY <2>2, SettledUnchanged DEF Pool!vars
  <2>3. CASE UNCHANGED handleVars
    BY <2>2, <2>3 DEF handleVars, allocVars
  <2>4. ASSUME NEW w \in Workers,
               \/ AllocFromFree(w) \/ AllocFromChunk(w) \/ Drop(w) \/ WorkerLocalGc(w)
        PROVE  UNCHANGED Pool!vars
    BY <2>2, <2>4 DEF AllocFromFree, AllocFromChunk, Drop, DropHandle, WorkerLocalGc, allocVars
  <2>5. ASSUME NEW w \in Workers, AllocFromClaim(w) PROVE Pool!Grant(w)
    <3>1. undoing = {} /\ Settled = n /\ Settled' = n + SlotsPerClaim
      BY <2>1, <2>5, SettledClaim
    <3>2. QED
      BY <3>1, <2>5 DEF AllocFromClaim, Pool!Grant
  <2>6. ASSUME NEW w \in Workers, ClaimPastEnd(w) PROVE Pool!Refuse(w)
    <3>1. Settled' = Settled /\ Settled + SlotsPerClaim > Cap
      BY <2>1, <2>6, SettledPastEnd
    <3>2. QED
      BY <3>1, <2>6 DEF ClaimPastEnd, MustClaim, Pool!Refuse
  <2>7. ASSUME NEW w \in Workers, TakeClaimBack(w) PROVE Pool!Report(w)
    <3>1. Settled' = Settled
      BY <2>1, <2>7, SettledBack
    <3>2. QED
      BY <3>1, <2>7 DEF TakeClaimBack, Pool!Report
  <2>8. QED
    BY <2>3, <2>4, <2>5, <2>6, <2>7 DEF Next, Pool!Next
<1>3. QED
  BY <1>1, <1>2, Invariance, PTL DEF Spec, PoolSpec, Pool!Spec
=============================================================================
