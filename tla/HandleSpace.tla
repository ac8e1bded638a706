---------------------------- MODULE HandleSpace ----------------------------
(***************************************************************************)
(* The handle space of one parallel region (src/c/core.c): worker threads  *)
(* allocate objects without a lock.  A worker takes a handle from its own  *)
(* free list, else from the chunk it owns, else claims the next chunk by   *)
(* adding SlotsPerClaim to the shared counter n.  A claim that goes past   *)
(* the table is taken back by a second atomic operation, so other workers  *)
(* run while n is too high.  Each worker collects its own garbage: it      *)
(* marks from its own stacks and sweeps only its own chunks.               *)
(*                                                                         *)
(* Abstractions: an object is its handle (its contents never hold another  *)
(* handle of the region), the local free list is a set, and any allocation *)
(* may request a collection: the pressure test (Cap - n below              *)
(* HANDLE_PRESSURE_SLOTS) and the byte threshold that decide are not       *)
(* modelled.                                                               *)
(***************************************************************************)
EXTENDS Integers, FiniteSets

CONSTANTS
  Workers,        \* the threads of the region
  SlotsPerClaim,  \* SLOTS_PER_CLAIM
  Base,           \* object_space.n when the region begins
  OldObjects,     \* handles of the objects that exist then
  Cap             \* object_space.cap, which no worker changes

ASSUME HandleSpaceAssumption ==
  /\ IsFiniteSet(Workers)
  /\ SlotsPerClaim \in Nat \ {0}
  /\ Base \in Nat
  /\ Cap \in Nat
  /\ Base <= Cap
  /\ OldObjects \subseteq 0 .. (Base - 1)

VARIABLES
  n,        \* space->n, the shared claim counter
  undoing,  \* workers between the fetch_add of a failed claim and its fetch_sub
  next,     \* lh->next: the next unused handle of the worker's open chunk
  end,      \* lh->end: the end of that chunk
  chunks,   \* lh->chunks: first handles of the chunks the worker claimed
  free,     \* lh->free: handles its last collection recovered
  gcPending,\* workers whose gc_pending holds GC_PENDING
  objects,  \* handles whose entry of arena.objects is not NULL
  roots     \* roots[w]: handles worker w can reach from its stacks

allocVars == <<n, undoing, next, end, chunks, free, gcPending>>
handleVars == <<allocVars, objects, roots>>

Handles == 0 .. (Cap - 1)

----------------------------------------------------------------------------
Init ==
  /\ n = Base
  /\ undoing = {}
  /\ next = [w \in Workers |-> 0]
  /\ end = [w \in Workers |-> 0]
  /\ chunks = [w \in Workers |-> {}]
  /\ free = [w \in Workers |-> {}]
  /\ gcPending = {}
  /\ objects = OldObjects
  /\ roots = [w \in Workers |-> {}]

\* An allocation may find its worker due for a collection.
MayRequestGc(w) == gcPending' \in {gcPending, gcPending \cup {w}}

\* The new object is stored under handle h and reaches the worker's stack
\* before the next instruction.
NewObject(w, h) ==
  /\ objects' = objects \cup {h}
  /\ roots' = [roots EXCEPT ![w] = @ \cup {h}]

AllocFromFree(w) ==
  /\ w \notin undoing
  /\ \E h \in free[w] :
       /\ free' = [free EXCEPT ![w] = @ \ {h}]
       /\ NewObject(w, h)
  /\ MayRequestGc(w)
  /\ UNCHANGED <<n, undoing, next, end, chunks>>

AllocFromChunk(w) ==
  /\ w \notin undoing
  /\ free[w] = {}
  /\ next[w] < end[w]
  /\ next' = [next EXCEPT ![w] = @ + 1]
  /\ NewObject(w, next[w])
  /\ MayRequestGc(w)
  /\ UNCHANGED <<n, undoing, end, chunks, free>>

\* The worker's own supply is used up: it must claim a chunk.
MustClaim(w) ==
  /\ w \notin undoing
  /\ free[w] = {}
  /\ next[w] >= end[w]

\* Mutant: the counter advances by less than the chunk handed out.
AllocFromClaimOverlapping(w) ==
  /\ MustClaim(w)
  /\ n + SlotsPerClaim <= Cap
  /\ n' = n + SlotsPerClaim - 1
  /\ chunks' = [chunks EXCEPT ![w] = @ \cup {n}]
  /\ next' = [next EXCEPT ![w] = n + 1]
  /\ end' = [end EXCEPT ![w] = n + SlotsPerClaim]
  /\ NewObject(w, n)
  /\ MayRequestGc(w)
  /\ UNCHANGED <<undoing, free>>

\* Mutant: the claim is tested against the table with its first handle only.
AllocFromClaimPartlyOutside(w) ==
  /\ MustClaim(w)
  /\ n < Cap
  /\ n' = n + SlotsPerClaim
  /\ chunks' = [chunks EXCEPT ![w] = @ \cup {n}]
  /\ next' = [next EXCEPT ![w] = n + 1]
  /\ end' = [end EXCEPT ![w] = n + SlotsPerClaim]
  /\ NewObject(w, n)
  /\ MayRequestGc(w)
  /\ UNCHANGED <<undoing, free>>

AllocFromClaim(w) ==
  /\ MustClaim(w)
  /\ n + SlotsPerClaim <= Cap
  /\ n' = n + SlotsPerClaim
  /\ chunks' = [chunks EXCEPT ![w] = @ \cup {n}]
  /\ next' = [next EXCEPT ![w] = n + 1]
  /\ end' = [end EXCEPT ![w] = n + SlotsPerClaim]
  /\ NewObject(w, n)
  /\ MayRequestGc(w)
  /\ UNCHANGED <<undoing, free>>

ClaimPastEnd(w) ==
  /\ MustClaim(w)
  /\ n + SlotsPerClaim > Cap
  /\ n' = n + SlotsPerClaim
  /\ undoing' = undoing \cup {w}
  /\ MayRequestGc(w)
  /\ UNCHANGED <<next, end, chunks, free, objects, roots>>

\* Mutant: a failed claim leaves the counter where it put it.
TakeClaimBackNot(w) ==
  /\ w \in undoing
  /\ undoing' = undoing \ {w}
  /\ UNCHANGED <<n, next, end, chunks, free, gcPending, objects, roots>>

\* The claim is taken back and the allocation fails; the quotation may catch
\* the error and allocate again.
TakeClaimBack(w) ==
  /\ w \in undoing
  /\ n' = n - SlotsPerClaim
  /\ undoing' = undoing \ {w}
  /\ UNCHANGED <<next, end, chunks, free, gcPending, objects, roots>>

\* The quotation drops a value from its stack.
DropHandle(w, h) ==
  /\ w \notin undoing
  /\ h \in roots[w]
  /\ roots' = [roots EXCEPT ![w] = @ \ {h}]
  /\ UNCHANGED <<allocVars, objects>>

Drop(w) == \E h \in roots[w] : DropHandle(w, h)

\* Mutant: the open chunk is swept to its end, past the handles in use.
SweepEndWholeChunk(w, c) == c + SlotsPerClaim

\* The handles a local collection sweeps: every chunk of the worker, the open
\* one only as far as it has been used.
SweepEnd(w, c) == IF c = end[w] - SlotsPerClaim THEN next[w] ELSE c + SlotsPerClaim

\* Mutant: a worker sweeps the whole region, not just its own chunks.
SweptWholeRegion(w) == {h \in Handles : Base <= h /\ h < n}

Swept(w) == {h \in Handles : \E c \in chunks[w] : c <= h /\ h < SweepEnd(w, c)}

WorkerLocalGc(w) ==
  /\ w \notin undoing
  /\ w \in gcPending
  /\ gcPending' = gcPending \ {w}
  /\ objects' = objects \ (Swept(w) \ roots[w])
  /\ free' = [free EXCEPT ![w] = Swept(w) \ roots[w]]
  /\ UNCHANGED <<n, undoing, next, end, chunks, roots>>

Alloc(w) == AllocFromFree(w) \/ AllocFromChunk(w) \/ AllocFromClaim(w)

Next ==
  \E w \in Workers :
    \/ AllocFromFree(w)
    \/ AllocFromChunk(w)
    \/ AllocFromClaim(w)
    \/ ClaimPastEnd(w)
    \/ TakeClaimBack(w)
    \/ Drop(w)
    \/ WorkerLocalGc(w)

Spec == Init /\ [][Next]_handleVars

----------------------------------------------------------------------------
\* The variables range over what the code stores in them; n can be beyond Cap
\* only while some worker still has to take a failed claim back.
TypeOK ==
  /\ n \in Nat
  /\ undoing \subseteq Workers
  /\ next \in [Workers -> Nat]
  /\ end \in [Workers -> Nat]
  /\ chunks \in [Workers -> SUBSET Nat]
  /\ free \in [Workers -> SUBSET Nat]
  /\ gcPending \subseteq Workers
  /\ objects \subseteq Nat
  /\ roots \in [Workers -> SUBSET Nat]

Chunk(c) == c .. (c + SlotsPerClaim - 1)

\* No handle lies in chunks of two workers, whatever the order of the
\* fetch_add and fetch_sub operations of successful and failed claims.
ChunksDisjoint ==
  \A v, w \in Workers : v # w =>
    \A c \in chunks[v], d \in chunks[w] : Chunk(c) \cap Chunk(d) = {}

\* A collection, the worker's own or another's, never frees an object some
\* worker can still reach, nor one made before the region.
NoDanglingRoot ==
  /\ \A w \in Workers : roots[w] \subseteq objects
  /\ OldObjects \subseteq objects

\* The handles worker w may give the next objects it makes without a claim.
Offered(w) == free[w] \cup {h \in Handles : next[w] <= h /\ h < end[w]}

\* A handle that a worker can still reach is offered to nobody: no later
\* allocation of any worker can put another object behind it.
NoRootOffered ==
  \A v, w \in Workers :
    roots[v] \cap (Offered(w) \cup {h \in Handles : h >= n}) = {}

\* PLAN.md: "A failed handle claim must not leave space->n above cap; readers
\* walk to n".  Once no claim is in flight, which holds when the region is
\* joined, n bounds the handles that exist and is within the table.
CounterSettled ==
  undoing = {} => /\ n <= Cap
                  /\ objects \subseteq 0 .. (n - 1)

----------------------------------------------------------------------------
\* What the failed claims in flight have added to n, and n without it.
Debt == SlotsPerClaim * Cardinality(undoing)
Settled == n - Debt

\* The two-step failed claim is invisible: the workers see a pool that grants
\* and refuses chunks in single steps, and refuses only when it is full.
Pool == INSTANCE ChunkPool WITH top <- Settled, granted <- chunks, refused <- undoing
PoolSpec == Pool!Spec

----------------------------------------------------------------------------
(* The parts of the inductive invariant, which HandleSpaceProofs proves.    *)

\* While a failed claim is in flight no other claim can succeed, because less
\* than a chunk was left before it.
CounterInv ==
  /\ Base <= Settled /\ Settled <= Cap
  /\ undoing # {} => Settled + SlotsPerClaim > Cap

Apart(c, d) == c + SlotsPerClaim <= d \/ d + SlotsPerClaim <= c

ChunkInv ==
  /\ \A w \in Workers : \A c \in chunks[w] : Base <= c /\ c + SlotsPerClaim <= Settled
  /\ \A v, w \in Workers : \A c \in chunks[v], d \in chunks[w] :
       v # w \/ c # d => Apart(c, d)

\* A worker allocates from the chunk it claimed last.
OpenChunkInv ==
  \A w \in Workers :
    \/ chunks[w] = {} /\ next[w] = 0 /\ end[w] = 0
    \/ /\ end[w] - SlotsPerClaim \in chunks[w]
       /\ end[w] - SlotsPerClaim <= next[w] /\ next[w] <= end[w]

\* Reachable and recovered handles are used handles of the worker's chunks.
OwnershipInv ==
  /\ \A w \in Workers : roots[w] \subseteq Swept(w) /\ free[w] \subseteq Swept(w)
  /\ \A w \in Workers : roots[w] \cap free[w] = {}
  /\ \A h \in objects : h < Settled

IInv ==
  /\ TypeOK
  /\ CounterInv
  /\ ChunkInv
  /\ OpenChunkInv
  /\ OwnershipInv
  /\ NoDanglingRoot
=============================================================================
