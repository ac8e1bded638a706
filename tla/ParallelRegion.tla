--------------------------- MODULE ParallelRegion ---------------------------
(***************************************************************************)
(* One call of pmap-ext, pfilter-ext or pmap-reduce-ext (src/c/functional.c)*)
(* from region_begin to the commit or abort of the region, and the         *)
(* allocations of the main interpreter that follow.  The workers share the *)
(* domain as ParallelFor says and allocate as HandleSpace says.            *)
(*                                                                         *)
(* Abstractions: a value is Outside (it reaches no object of the region)   *)
(* or the handle of one; a quotation is any bounded sequence of            *)
(* allocations and drops that leaves one value or faults, and touches      *)
(* nothing below its item on the stack.                                    *)
(***************************************************************************)
EXTENDS Integers, FiniteSets

CONSTANTS
  Workers, Caller, NItems, ItemsPerClaim, IntMax,  \* as in ParallelFor
  SlotsPerClaim, Base, OldObjects, Cap,            \* as in HandleSpace
  Words,          \* the parallel words called: "pmap", "pfilter", "pmap-reduce"
  Outside,        \* a value that reaches no object of the region
  MainNext,       \* main_alloc.objects.next when the region begins; its chunk ends at Base
  MaxAllocs,      \* bound: allocations tried for one item
  MaxMainAllocs   \* bound: allocations of the main interpreter after the join

ASSUME ParallelRegionAssumption ==
  /\ IsFiniteSet(Workers) /\ Caller \in Workers
  /\ IntMax \in Nat /\ NItems \in 0 .. IntMax
  /\ ItemsPerClaim \in -(IntMax + 1) .. IntMax
  /\ SlotsPerClaim \in Nat \ {0}
  /\ Base \in Nat /\ Cap \in Nat /\ Base <= Cap
  /\ Outside \notin Nat
  /\ Words \subseteq {"pmap", "pfilter", "pmap-reduce"}
  /\ MainNext \in 0 .. Base
  /\ OldObjects \subseteq 0 .. (MainNext - 1)
  /\ MaxAllocs \in Nat
  /\ MaxMainAllocs \in Nat

VARIABLES
  n, undoing, next, end, chunks, free, gcPending, objects, roots, \* HandleSpace
  nextIndex, thread, range, claims,                               \* ParallelFor
  word,          \* the word called
  phase,         \* "region" while workers run, "combine" (pmap-reduce only), "after"
  outcome,       \* "none" until the word returns, then "ok" or "error"
  item,          \* i of the kernel's loop, for each worker
  busy,          \* workers inside execute_cfa for that item
  made,          \* allocations tried for that item
  kept,          \* handles of the results a worker's data stack still holds
  faulted,       \* workers whose error_flag is set
  parallelError, \* parallel_error
  image,         \* image->items
  partials,      \* partials->items, by the worker whose slot it is
  applied,       \* applied[i]: how often an item was worked through (history)
  mainNext, mainEnd, \* main_alloc.objects.next and .end
  mainFree,      \* object_space.free, the free list of the main interpreter
  mainRoots,     \* handles the main interpreter's stacks reach
  combined,      \* slots the serial combine loop has been through
  mainMade       \* allocations of the main interpreter so far

Space == INSTANCE HandleSpace
For == INSTANCE ParallelFor WITH Threads <- Workers

allocVars == <<n, undoing, next, end, chunks, free, gcPending>>
handleVars == <<allocVars, objects, roots>>
forVars == <<nextIndex, thread, range, claims>>
kernelVars == <<item, busy, made, kept, faulted, parallelError, image, partials, applied>>
mainVars == <<mainNext, mainEnd, mainFree, mainRoots, combined, mainMade>>
callVars == <<word, phase, outcome>>
vars == <<n, undoing, next, end, chunks, free, gcPending, objects, roots,
          nextIndex, thread, range, claims, word, phase, outcome,
          item, busy, made, kept, faulted, parallelError, image, partials, applied,
          mainNext, mainEnd, mainFree, mainRoots, combined, mainMade>>

Handles == 0 .. (Cap - 1)
DomainItems == 0 .. (NItems - 1)
HandlesOf(v) == {v} \ {Outside}
HandlesIn(f) == UNION {HandlesOf(f[x]) : x \in DOMAIN f}

----------------------------------------------------------------------------
\* region_begin.  The parallel words refuse to run inside a worker, so there
\* is one region at a time.
Init ==
  /\ Space!Init
  /\ For!Init
  /\ word \in Words
  /\ phase = "region"
  /\ outcome = "none"
  /\ item = [w \in Workers |-> 0]
  /\ busy = {}
  /\ made = [w \in Workers |-> 0]
  /\ kept = [w \in Workers |-> {}]
  /\ faulted = {}
  /\ parallelError = FALSE
  /\ image = [i \in DomainItems |-> Outside]
  /\ partials = [w \in Workers |-> Outside]
  /\ applied = [i \in DomainItems |-> 0]
  /\ mainNext = MainNext
  /\ mainEnd = Base
  /\ mainFree = {}
  /\ mainRoots = {}
  /\ combined = {}
  /\ mainMade = 0

----------------------------------------------------------------------------
(* Worker steps: worker_entry, the kernels and what a quotation does.       *)

ClaimRange(w) ==
  /\ For!ClaimItems(w)
  /\ item' = [item EXCEPT ![w] = nextIndex]
  /\ UNCHANGED <<handleVars, busy, made, kept, faulted, parallelError, image, partials,
                 applied>>

\* Mutant: a worker whose item failed starts it again.
StartItemAfterFault(w) ==
  /\ thread[w] = "working"
  /\ w \notin busy
  /\ item[w] < range[w].to
  /\ busy' = busy \cup {w}
  /\ made' = [made EXCEPT ![w] = 0]
  /\ roots' = [roots EXCEPT ![w] = @ \cup HandlesOf(partials[w])]
  /\ partials' = [partials EXCEPT ![w] = Outside]
  /\ UNCHANGED <<allocVars, objects, forVars, item, kept, faulted, parallelError, image, applied>>

\* The reduction moves its accumulator to the stack.
StartItem(w) ==
  /\ thread[w] = "working"
  /\ w \notin busy \cup faulted
  /\ item[w] < range[w].to
  /\ busy' = busy \cup {w}
  /\ made' = [made EXCEPT ![w] = 0]
  /\ roots' = [roots EXCEPT ![w] = @ \cup HandlesOf(partials[w])]
  /\ partials' = [partials EXCEPT ![w] = Outside]
  /\ UNCHANGED <<allocVars, objects, forVars, item, kept, faulted, parallelError,
                 image, applied>>

\* An allocation that fails raises an error, which the quotation may catch.
ItemAllocates(w) ==
  /\ w \in busy
  /\ made[w] < MaxAllocs
  /\ Space!Alloc(w) \/ Space!ClaimPastEnd(w)
  /\ made' = [made EXCEPT ![w] = @ + 1]
  /\ UNCHANGED <<forVars, item, busy, kept, faulted, parallelError, image, partials, applied>>

\* Collections happen between two instructions of a quotation, never between
\* two items.
ItemStep(w) ==
  /\ w \in busy
  /\ \/ Space!TakeClaimBack(w)
     \/ \E h \in roots[w] \ kept[w] : Space!DropHandle(w, h)
     \/ Space!WorkerLocalGc(w)
  /\ UNCHANGED <<forVars, kernelVars>>

\* Mutant: pmap pops the result it stores in the image.
FinishItemPopping(w) ==
  /\ w \in busy \ undoing
  /\ \E v \in roots[w] \cup {Outside} :
       /\ image' = IF word = "pmap" THEN [image EXCEPT ![item[w]] = v] ELSE image
       /\ partials' = IF word = "pmap-reduce" THEN [partials EXCEPT ![w] = v] ELSE partials
  /\ roots' = [roots EXCEPT ![w] = {}]
  /\ applied' = [applied EXCEPT ![item[w]] = @ + 1]
  /\ item' = [item EXCEPT ![w] = @ + 1]
  /\ busy' = busy \ {w}
  /\ UNCHANGED <<allocVars, objects, forVars, made, kept, faulted, parallelError>>

\* The quotation left one value v.  pmap stores it and leaves it on the stack,
\* pfilter pops it and keeps a flag, pmap-reduce pops it into the accumulator.
FinishItem(w) ==
  /\ w \in busy \ undoing
  /\ \E v \in roots[w] \cup {Outside} :
       /\ image' = IF word = "pmap" THEN [image EXCEPT ![item[w]] = v] ELSE image
       /\ kept' = IF word = "pmap" THEN [kept EXCEPT ![w] = @ \cup HandlesOf(v)] ELSE kept
       /\ partials' = IF word = "pmap-reduce" THEN [partials EXCEPT ![w] = v] ELSE partials
  /\ roots' = [roots EXCEPT ![w] = kept'[w]]
  /\ applied' = [applied EXCEPT ![item[w]] = @ + 1]
  /\ item' = [item EXCEPT ![w] = @ + 1]
  /\ busy' = busy \ {w}
  /\ UNCHANGED <<allocVars, objects, forVars, made, faulted, parallelError>>

FaultItem(w) ==
  /\ w \in busy \ undoing
  /\ faulted' = faulted \cup {w}
  /\ parallelError' = TRUE
  /\ busy' = busy \ {w}
  /\ UNCHANGED <<handleVars, forVars, item, made, kept, image, partials, applied>>

\* Mutant: the kernel's loop ends one item early.
LeaveRangeEarly(w) ==
  /\ w \notin busy
  /\ w \in faulted \/ item[w] >= range[w].to - 1
  /\ For!FinishRange(w)
  /\ UNCHANGED <<handleVars, kernelVars>>

\* A kernel that meets its worker's error flag returns at its first item.
LeaveRange(w) ==
  /\ w \notin busy
  /\ w \in faulted \/ item[w] >= range[w].to
  /\ For!FinishRange(w)
  /\ UNCHANGED <<handleVars, kernelVars>>

\* The thread ends; free_thread_alloc_lists forgets its chunks and free list.
StopWorker(w) ==
  /\ For!Stop(w)
  /\ next' = [next EXCEPT ![w] = 0]
  /\ end' = [end EXCEPT ![w] = 0]
  /\ chunks' = [chunks EXCEPT ![w] = {}]
  /\ free' = [free EXCEPT ![w] = {}]
  /\ roots' = [roots EXCEPT ![w] = {}]
  /\ UNCHANGED <<n, undoing, gcPending, objects, kernelVars>>

Worker(w) ==
  /\ \/ ClaimRange(w)
     \/ StartItem(w)
     \/ ItemAllocates(w)
     \/ ItemStep(w)
     \/ FinishItem(w)
     \/ FaultItem(w)
     \/ LeaveRange(w)
     \/ StopWorker(w)
  /\ UNCHANGED <<callVars, mainVars>>

----------------------------------------------------------------------------
(* The main interpreter, once parallel_for has returned.                    *)

workerVars == <<undoing, next, end, chunks, free, gcPending, roots, nextIndex, thread, range,
                claims, item, busy, made, kept, faulted, parallelError, applied>>

\* region_abort frees what the region made and rewinds the counter; the main
\* interpreter's own chunk and free list stay as they are.
RegionAbort ==
  /\ objects' = {h \in objects : h < Base \/ h >= n}
  /\ n' = Base
RegionCommit == UNCHANGED <<objects, n>>

\* Mutant: the walk over the values misses those it should have found.
CommitOrAbortBlind(values) == RegionAbort

\* references_region also says yes to a logic variable and to a value nested
\* too deep to follow, so a region may be kept that nothing refers to.
CommitOrAbort(values) ==
  IF \E h \in values : h >= Base
  THEN RegionCommit
  ELSE RegionAbort \/ RegionCommit

JoinedIn(w) == phase = "region" /\ For!Joined /\ word = w

\* Mutant: the word reports the error and leaves the region as it is.
ReturnErrorKeepingRegion ==
  /\ phase = "region" /\ For!Joined /\ parallelError
  /\ phase' = "after"
  /\ outcome' = "error"
  /\ UNCHANGED <<workerVars, mainVars, word, image, partials, objects, n>>

ReturnError ==
  /\ phase = "region" /\ For!Joined /\ parallelError
  /\ RegionAbort
  /\ phase' = "after"
  /\ outcome' = "error"
  /\ image' = [i \in DomainItems |-> Outside]
  /\ partials' = [w \in Workers |-> Outside]
  /\ UNCHANGED <<workerVars, mainVars, word>>

ReturnImage ==
  /\ JoinedIn("pmap") /\ ~parallelError
  /\ CommitOrAbort(HandlesIn(image))
  /\ phase' = "after"
  /\ outcome' = "ok"
  /\ UNCHANGED <<workerVars, mainVars, word, image, partials>>

\* The flags alone survive; the kept elements are those of the domain.
ReturnKept ==
  /\ JoinedIn("pfilter") /\ ~parallelError
  /\ RegionAbort
  /\ phase' = "after"
  /\ outcome' = "ok"
  /\ UNCHANGED <<workerVars, mainVars, word, image, partials>>

StartCombine ==
  /\ JoinedIn("pmap-reduce") /\ ~parallelError
  /\ phase' = "combine"
  /\ UNCHANGED <<workerVars, mainVars, word, outcome, image, partials, objects, n>>

\* The main interpreter is running a quotation: that of the serial combine
\* loop, or whatever follows the parallel word.
InQuotation == phase = "after" \/ (phase = "combine" /\ combined # Workers)

\* One turn of the serial loop: the combine quotation leaves one value.
CombineSlot(w) ==
  /\ phase = "combine"
  /\ w \notin combined
  /\ combined' = combined \cup {w}
  /\ \E v \in mainRoots \cup HandlesOf(partials[w]) \cup {Outside} : mainRoots' = HandlesOf(v)
  /\ UNCHANGED <<workerVars, callVars, image, partials, objects, n,
                 mainNext, mainEnd, mainFree, mainMade>>

\* The combine quotation fails: the word returns without settling the region.
CombineFaults ==
  /\ phase = "combine"
  /\ combined # Workers
  /\ phase' = "after"
  /\ outcome' = "error"
  /\ mainRoots' = {}
  /\ partials' = [w \in Workers |-> Outside]
  /\ UNCHANGED <<workerVars, word, image, objects, n, mainNext, mainEnd, mainFree, combined,
                 mainMade>>

ReturnReduced ==
  /\ phase = "combine"
  /\ combined = Workers
  /\ CommitOrAbort(mainRoots)
  /\ phase' = "after"
  /\ outcome' = "ok"
  /\ partials' = [w \in Workers |-> Outside]
  /\ UNCHANGED <<workerVars, mainVars, word, image>>

\* What a full collection of the main interpreter marks.
MainReaches == OldObjects \cup mainRoots \cup HandlesIn(image) \cup HandlesIn(partials)
Garbage == {h \in Handles : h < n} \ MainReaches

MainGc ==
  /\ InQuotation
  /\ objects' = objects \ Garbage
  /\ mainFree' = Garbage
  /\ mainNext' = 0
  /\ mainEnd' = 0
  /\ UNCHANGED <<workerVars, callVars, image, partials, n, mainRoots, combined, mainMade>>

MayAllocate ==
  /\ InQuotation
  /\ mainMade < MaxMainAllocs
  /\ mainMade' = mainMade + 1

MainObject(h) ==
  /\ objects' = objects \cup {h}
  /\ mainRoots' = mainRoots \cup {h}

MainAllocFromChunk ==
  /\ MayAllocate
  /\ mainNext < mainEnd
  /\ mainNext' = mainNext + 1
  /\ MainObject(mainNext)
  /\ UNCHANGED <<workerVars, callVars, image, partials, n, mainEnd, mainFree, combined>>

MainAllocFromFree ==
  /\ MayAllocate
  /\ mainNext >= mainEnd
  /\ \E h \in mainFree : mainFree' = mainFree \ {h} /\ MainObject(h)
  /\ UNCHANGED <<workerVars, callVars, image, partials, n, mainNext, mainEnd, combined>>

\* Mutant: the last claim is not clamped to the table.
MainAllocFromClaimUnclamped ==
  /\ MayAllocate
  /\ mainNext >= mainEnd
  /\ mainFree = {}
  /\ n < Cap
  /\ n' = n + SlotsPerClaim
  /\ mainNext' = n + 1
  /\ mainEnd' = n'
  /\ MainObject(n)
  /\ UNCHANGED <<workerVars, callVars, image, partials, mainFree, combined>>

MainAllocFromClaim ==
  /\ MayAllocate
  /\ mainNext >= mainEnd
  /\ mainFree = {}
  /\ n < Cap
  /\ n' = For!Minimum(n + SlotsPerClaim, Cap)
  /\ mainNext' = n + 1
  /\ mainEnd' = n'
  /\ MainObject(n)
  /\ UNCHANGED <<workerVars, callVars, image, partials, mainFree, combined>>

\* The table is full: collect at once, then take a recovered handle.  When
\* nothing is recovered the allocation fails, as CombineFaults covers.
MainAllocAfterGc ==
  /\ MayAllocate
  /\ mainNext >= mainEnd
  /\ mainFree = {}
  /\ n >= Cap
  /\ \E h \in Garbage :
       /\ mainFree' = Garbage \ {h}
       /\ objects' = (objects \ Garbage) \cup {h}
       /\ mainRoots' = mainRoots \cup {h}
  /\ mainNext' = 0
  /\ mainEnd' = 0
  /\ UNCHANGED <<workerVars, callVars, image, partials, n, combined>>

MainDrop ==
  /\ InQuotation
  /\ \/ (\E h \in mainRoots : mainRoots' = mainRoots \ {h}) /\ UNCHANGED image
     \/ image' = [i \in DomainItems |-> Outside] /\ UNCHANGED mainRoots
  /\ UNCHANGED <<workerVars, callVars, partials, objects, n,
                 mainNext, mainEnd, mainFree, combined, mainMade>>

MainReturns == ReturnError \/ ReturnImage \/ ReturnKept \/ StartCombine
MainCombines == (\E w \in Workers : CombineSlot(w)) \/ CombineFaults \/ ReturnReduced
MainAllocates ==
  MainAllocFromChunk \/ MainAllocFromFree \/ MainAllocFromClaim \/ MainAllocAfterGc

Next ==
  \/ \E w \in Workers : Worker(w)
  \/ MainReturns
  \/ MainCombines
  \/ MainAllocates
  \/ MainGc
  \/ MainDrop

Spec == Init /\ [][Next]_vars

\* Every thread keeps running, and so does the main interpreter; quotations
\* terminate because their allocations are bounded.
FairSpec ==
  /\ Spec
  /\ \A w \in Workers : WF_vars(Worker(w))
  /\ WF_vars(MainReturns \/ MainCombines)

----------------------------------------------------------------------------
Values == Handles \cup {Outside}

TypeOK ==
  /\ Space!TypeOK
  /\ For!TypeOK
  /\ word \in Words
  /\ phase \in {"region", "combine", "after"}
  /\ outcome \in {"none", "ok", "error"}
  /\ item \in [Workers -> Nat]
  /\ busy \cup faulted \cup combined \subseteq Workers
  /\ made \in [Workers -> 0 .. MaxAllocs]
  /\ kept \in [Workers -> SUBSET Handles]
  /\ parallelError \in BOOLEAN
  /\ image \in [DomainItems -> Values]
  /\ partials \in [Workers -> Values]
  /\ applied \in [DomainItems -> Nat]
  /\ mainNext \in 0 .. Cap /\ mainEnd \in 0 .. Cap
  /\ mainFree \cup mainRoots \subseteq Handles
  /\ mainMade \in 0 .. MaxMainAllocs

Reachable == MainReaches \cup UNION {roots[w] : w \in Workers}

\* No collection and no rewind frees an object that a worker's stack, the
\* image, the partial results or the main interpreter can still reach: a
\* result outlives the worker that made it, and the region that holds it.
ReachableExist == Reachable \subseteq objects

\* Handles that a later allocation may be given.
OfferedHandles ==
  (UNION {Space!Offered(w) : w \in Workers})
    \cup mainFree
    \cup {h \in Handles : (mainNext <= h /\ h < mainEnd) \/ h >= n}

\* tests/060_pmap_region_keep.telic: the commit/rewind decision "must stay
\* sound", or else "the freed slot is reused by a later allocation".  A handle
\* that can be reached is never one a later allocation, of a worker or of the
\* main interpreter, may be given.
NoLiveHandleOffered == Reachable \cap OfferedHandles = {}

\* The same while the workers run and while partial results are combined, and
\* after pmap and pfilter.
NoLiveHandleOfferedInRegion ==
  (word = "pmap-reduce" /\ phase = "after") \/ NoLiveHandleOffered

\* reference.md: the image holds a result for every element.  However the
\* workers claim, fault and stop, no element is worked through twice, and the
\* word succeeds only when each has been.
AppliedOnce ==
  /\ \A i \in DomainItems : applied[i] <= 1
  /\ outcome = "ok" => \A i \in DomainItems : applied[i] = 1

\* reference.md: a failing worker "aborts the whole region and raises a clean
\* error, never a partial result".  A region that fails, and any region of
\* pfilter, leaves the handle space exactly as it was and no image.
NothingLeft ==
  /\ n = Base
  /\ objects = OldObjects
  /\ HandlesIn(image) = {}
FailureLeavesNothing ==
  [][phase = "region" /\ phase' = "after" /\ (outcome' = "error" \/ word = "pfilter")
       => NothingLeft']_vars

\* The parallel word returns, with a result or an error, when threads could
\* not be created, claims fail or quotations fault.
WordReturns == <>(phase = "after")

----------------------------------------------------------------------------
(* The parts of the inductive invariant, which ParallelRegionProofs proves  *)
(* when nextIndex cannot overflow (For!NoOverflow).                         *)

\* A thread runs an item only while it works on a range, and one that has
\* ended, or could not be created, has no handles.
ThreadInv ==
  /\ \A w \in busy : thread[w] = "working" /\ item[w] < range[w].to
  /\ undoing \subseteq busy
  /\ \A w \in Workers : thread[w] \in {"stopped", "absent"} =>
       chunks[w] = {} /\ next[w] = 0 /\ end[w] = 0 /\ free[w] = {} /\ roots[w] = {}

PhaseInv ==
  /\ phase # "region" => For!Joined
  /\ phase = "combine" => word = "pmap-reduce" /\ faulted = {}
  /\ outcome = "none" <=> phase # "after"
  /\ parallelError <=> faulted # {}

\* A range has been worked through up to the item its worker is at.
Ahead(w) == {i \in DomainItems : thread[w] = "working" /\ item[w] <= i /\ i < range[w].to}

ItemsInv ==
  /\ \A w \in Workers : thread[w] = "working" =>
       range[w].from <= item[w] /\ item[w] <= range[w].to
         /\ range[w].to <= nextIndex /\ range[w].to <= NItems
  /\ \A v, w \in Workers : v # w => Ahead(v) \cap Ahead(w) = {}
  /\ \A i \in DomainItems :
       /\ applied[i] <= 1
       /\ i >= nextIndex => applied[i] = 0
       /\ \A w \in Workers : i \in Ahead(w) => applied[i] = 0
       /\ faulted = {} /\ i < nextIndex => applied[i] = 1 \/ \E w \in Workers : i \in Ahead(w)
  /\ outcome = "ok" => \A i \in DomainItems : applied[i] = 1

\* A handle that a chunk of worker w contains.
InChunk(h, w) == \E c \in chunks[w] : c <= h /\ h < c + SlotsPerClaim

\* An object of the region that outlives the item that made it.
Survives(h) == h \in objects /\ Base <= h /\ h < Space!Settled

\* A result pmap stored in the image stays on the stack of the worker whose
\* chunk it is in, as long as that worker may collect.
ImageInv ==
  /\ word # "pmap" => HandlesIn(image) = {} /\ \A w \in Workers : kept[w] = {}
  /\ \A w \in Workers : thread[w] # "stopped" => kept[w] \subseteq roots[w]
  /\ \A h \in HandlesIn(image) :
       Survives(h) /\ \A w \in Workers : InChunk(h, w) => h \in kept[w]

\* Between two items an accumulator is on no stack; no collection can run that
\* would sweep it.
PartialsInv ==
  /\ word # "pmap-reduce" => HandlesIn(partials) = {}
  /\ \A w \in busy : partials[w] = Outside
  /\ \A w \in Workers : \A h \in HandlesOf(partials[w]) :
       /\ Survives(h)
       /\ \/ thread[w] # "stopped" /\ h \in Space!Swept(w) \ free[w]
          \/ thread[w] = "stopped" /\ \A v \in Workers : ~InChunk(h, v)

\* The main interpreter waits in parallel_for.
MainWaits ==
  /\ mainNext = MainNext /\ mainEnd = Base
  /\ mainFree = {} /\ mainRoots = {} /\ combined = {}

RegionInv ==
  phase = "region" =>
    /\ Space!IInv
    /\ \A h \in objects : h < Base => h \in OldObjects
    /\ ImageInv /\ PartialsInv /\ MainWaits

\* What the main interpreter may allocate next is apart from what it reaches.
SupplyInv ==
  /\ n <= Cap /\ mainEnd <= n
  /\ mainNext < mainEnd => mainFree = {}
  /\ \A h \in mainFree : h < n
  /\ \A h \in MainReaches : h < n /\ h \notin mainFree /\ ~(mainNext <= h /\ h < mainEnd)

\* After the join; a reduction that has returned is the exception that
\* NoLiveHandleOffered runs into.
MainInv ==
  phase # "region" =>
    /\ MainReaches \subseteq objects
    /\ word # "pmap" => HandlesIn(image) = {}
    /\ ~(word = "pmap-reduce" /\ phase = "after") => SupplyInv

IInv ==
  /\ TypeOK /\ For!IInv
  /\ ThreadInv /\ PhaseInv /\ ItemsInv /\ RegionInv /\ MainInv
=============================================================================
