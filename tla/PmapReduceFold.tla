--------------------------- MODULE PmapReduceFold ---------------------------
(***************************************************************************)
(* What pmap-reduce-ext computes (src/c/functional.c, pmap_reduce_kernel   *)
(* and p_pmap_reduce): each worker folds the items it claims into the      *)
(* partial result of its slot, and the main interpreter combines the       *)
(* partial results, one slot after the other.                              *)
(*                                                                         *)
(* The combine quotation is the free one: values are sequences of items,   *)
(* combine is concatenation, the identity is the empty sequence.  It is    *)
(* associative and nothing more, so what holds of it holds of every        *)
(* associative combine.                                                    *)
(***************************************************************************)
EXTENDS ParallelFor, SequencesExt

VARIABLES
  slots,    \* the workers in the order claim_worker numbered them
  partials, \* partials->items, by the worker whose slot it is
  combined, \* i of the serial loop: the slots it has been through
  result    \* the value that loop leaves on the stack

foldVars == <<slots, partials, combined, result>>
vars == <<forVars, foldVars>>

Identity == <<>>

FoldInit ==
  /\ Init
  /\ slots = <<>>
  /\ partials = [t \in Threads |-> Identity]
  /\ combined = 0
  /\ result = Identity

Claim(t) == ClaimItems(t) /\ UNCHANGED foldVars

\* claim_worker, at a thread's first call of the kernel, numbers its slot.
ClaimWorker(t) ==
  /\ thread[t] = "working"
  /\ ~Contains(slots, t)
  /\ slots' = Append(slots, t)
  /\ UNCHANGED <<forVars, partials, combined, result>>

RangeItems(r) == [i \in 1 .. (r.to - r.from) |-> r.from + i - 1]

\* Mutant: every call of the kernel starts from the identity.
RunKernelAfresh(t) ==
  /\ Contains(slots, t)
  /\ FinishRange(t)
  /\ partials' = [partials EXCEPT ![t] = RangeItems(range[t])]
  /\ UNCHANGED <<slots, combined, result>>

\* Mutant: combine gets its operands the other way round.
RunKernelSwapped(t) ==
  /\ Contains(slots, t)
  /\ FinishRange(t)
  /\ partials' = [partials EXCEPT ![t] = RangeItems(range[t]) \o @]
  /\ UNCHANGED <<slots, combined, result>>

\* The kernel folds its range into the worker's partial result.
RunKernel(t) ==
  /\ Contains(slots, t)
  /\ FinishRange(t)
  /\ partials' = [partials EXCEPT ![t] = @ \o RangeItems(range[t])]
  /\ UNCHANGED <<slots, combined, result>>

LastClaim(t) == Stop(t) /\ UNCHANGED foldVars

\* One turn of the serial loop, which has one for every worker asked for; a
\* slot that no worker numbered holds the identity.
CombineSlot ==
  /\ Joined
  /\ combined < Cardinality(Threads)
  /\ combined' = combined + 1
  /\ result' = result \o (IF combined' \in DOMAIN slots THEN partials[slots[combined']] ELSE Identity)
  /\ UNCHANGED <<forVars, slots, partials>>

Returned == combined = Cardinality(Threads)
FoldDone == Returned /\ UNCHANGED vars

FoldNext ==
  \/ \E t \in Threads : Claim(t) \/ ClaimWorker(t) \/ RunKernel(t) \/ LastClaim(t)
  \/ CombineSlot
  \/ FoldDone

FoldSpec == FoldInit /\ [][FoldNext]_vars

\* Every thread that was created keeps running.
FoldFairSpec ==
  /\ FoldSpec
  /\ \A t \in Threads : WF_vars(Claim(t) \/ ClaimWorker(t) \/ RunKernel(t) \/ LastClaim(t))

----------------------------------------------------------------------------
\* Every item enters the result exactly once, whoever worked on it, so a
\* combine that is associative and commutative gives the serial fold's result.
ResultHasEveryItem ==
  Returned => /\ Len(result) = NItems
              /\ ToSet(result) = Indices

\* Within a slot items keep their order: a worker never folds an earlier item
\* after a later one.
SlotsInOrder ==
  \A t \in Threads : \A i, j \in DOMAIN partials[t] : i < j => partials[t][i] < partials[t][j]

\* reference.md: "combine-xt must be associative with id as neutral element".
\* For such a combine the result is that of the serial fold.
ResultInItemOrder ==
  Returned => result = [i \in 1 .. NItems |-> i - 1]

----------------------------------------------------------------------------
(* The inductive invariant, which PmapReduceFoldProofs proves when           *)
(* nextIndex cannot overflow (NoOverflow).                                 *)

\* A thread that has folded anything has a slot, and its own.
SlotsInv ==
  /\ slots \in Seq(Threads) /\ IsInjective(slots)
  /\ partials \in [Threads -> Seq(Indices)]
  /\ \A t \in Threads : partials[t] # Identity => t \in ToSet(slots)

\* The items a thread has folded, or is working through.
Held(t) == ToSet(partials[t]) \cup Items(range[t])

\* What a thread works through comes after what it has folded.
RangesInv ==
  \A t \in Threads :
    IF thread[t] = "working"
    THEN /\ 0 <= range[t].from /\ range[t].from <= range[t].to
         /\ range[t].to <= NItems /\ range[t].to <= nextIndex
         /\ \A i \in ToSet(partials[t]) : i < range[t].from
    ELSE range[t] = NoRange

\* The threads hold exactly the items below the index, each item one thread.
HeldInv ==
  /\ \A t, u \in Threads : t # u => Held(t) \cap Held(u) = {}
  /\ \A i \in Indices : i < nextIndex <=> \E t \in Threads : i \in Held(t)

\* The serial loop has put together the partial results of the slots it has
\* been through.
ResultInv ==
  /\ combined \in 0 .. Cardinality(Threads)
  /\ combined > 0 => Joined
  /\ result \in Seq(Indices) /\ IsInjective(result)
  /\ \A x \in Indices :
       x \in ToSet(result) <=>
         \E k \in DOMAIN slots : k <= combined /\ x \in ToSet(partials[slots[k]])

FoldInv == SlotsInv /\ SlotsInOrder /\ RangesInv /\ HeldInv /\ ResultInv
=============================================================================
