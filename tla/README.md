# A verification project for telic

telic is a stack language with an interpreter written in C (`src/c`, about
35 500 lines without generated tables) and a standard library written in the
language itself (`src/forth`).  This directory holds TLA+ models of its
control-critical parts, the TLC runs that check them, and TLAPS proofs of the
properties that matter most.  `PROJECT.json` maps every definition of a model
to the lines it stands for, and lists the components, runs, hazards and
findings.  Paths below are relative to the repository root.

## Part 1: inventory

### The system's parts

**Interpreter loop** (`core.c`, `platform.h`).  State: `ip`, `data_stack`,
`return_stack`, `side_stack`, `local_base`, `running`, `error_flag`,
`unwinding`, `unwind_target`, `run_floor`, `gc_pending`.  A primitive ends by
calling the next one directly (DISPATCH); the chain goes back to
`run_until_stopped` when a collection, tick, trace, error or unwinding is due.
Primitives that run a quotation (`amb`, `resume`, `each`, ...) nest run loops on
the C stack.  What makes it correct: a word that ends returns to its own
caller, code reads its own locals, and every raise reaches its prompt.

**Prompts and continuations** (`words.c`, `exceptions.telic`).  `reset`, `catch`
and `amb` push marks on the return stack; `throw`, `shift`, `fail` and errors cut
it back to one and let the nested loops unwind; `shift` keeps the part cut off
and `resume` pastes it elsewhere.  The hard part is that one stack holds returns,
marks, catch depths, locals headers and locals, and each operation finds its way
by position.

**Parallel words** (`functional.c`, `core.c`).  `pmap`, `pfilter` and
`pmap-reduce` run a quotation over an array on several threads.  Threads take
items with one `fetch_add` (`parallel_for`), allocate objects without a lock from
chunks of handles taken with another (`local_claim_handle`), collect their own
garbage (`worker_local_gc`), and leave their results in a shared image.  The main
interpreter then keeps the region (`region_commit`) or rewinds it
(`region_abort`).  What makes it correct: every item is worked through once, no
two live objects share a handle, nothing reachable is freed, and a failure
leaves nothing behind.

**Heap** (`core.c`).  Handles, a size-class allocator over an arena of slabs, a
mark-and-sweep collector, roots on stacks, in variables and in `gc_roots`.
Correct when everything a primitive still uses is rooted whenever it allocates:
a rule that each of the three hundred primitives that touch objects has to keep
by hand.

**Logic** (`logic.c`, `logic.telic`).  Logic variables, unification with rest
patterns, a bind trail undone on `fail`, search by `amb`.

What makes it correct: backtracking gives back exactly the bindings of the
choice, and unification succeeds just when the terms have a common instance.

**Symbols, dictionary, compiler, superwords** (`core.c`, `compiler.c`,
`superwords.c`).  An append-only dictionary with side tables that must be cut
back together; a symbol table that workers also fill, under a lock, and read
without one; a peephole fuser of compiled code.

**Synthesizer** (`synth.c`, `audio.c`).  Interpreter and audio thread share two
single-producer single-consumer rings, one pending patch per instrument and a
ring of recent frames, all without locks.  Correct when commands arrive once and
in order, buffers are freed once, a reused instrument slot never sounds its old
owner, and the words that wait for the device return.

**Screen pump** (`graphics.c`).  The process's first thread pumps window events;
`screen-frame` waits for it under a mutex and two condition variables.

**Databases, streams, regular expressions** (`database.c`, `io.c`, `strings.c`).
Slot tables with generations, a cache with a probe window.

**Serializer** (`serialize.c`).  An explicit frame stack with back references.

**Exact arithmetic, indexing, units, collections, calendar** are sequential and
pure.  **Matrices, statistics, transforms, audio effects** are floating point.
**Arrow, YAML, foreign calls, help, REPL** are formats and interfaces.
`external/` is vendored, `bench`, `examples`, `lib`, `editors`, `data` are programs
and data.

### How they interact

Words call each other through the return stack; the parallel words start
threads that share the arena, the object table, the dictionary and the symbol
table with a main interpreter that waits for them; combinators, `amb` and
`resume` re-enter the run loop; the audio thread and the pump share queues with
the interpreter; signals set bits the dispatch tests.

### The hazards

`PROJECT.json` lists forty by line.  Thirty-three have a property that some run checks: claims
of items and handles racing and being taken back; collections by one worker
while others allocate; threads that cannot be created or fault half way; a
region rewound under live handles; folds spread over slots; values held in C
locals across an allocation, in any handler; arrays shown to the collector
before they are written; temporary roots and stack pointers on error exits;
nested prompts, locals and run loops in any order; the bind trail through nested
choices and errors; unification of rests and cycles; the two rings and the
patches the synthesizer's threads share.  The others carry the reason why no
property covers them.

## Part 2: plan

| | module | state | depends on |
|---|---|---|---|
| 1 | `HandleSpace`, refining `ChunkPool` | checked and proved | |
| 2 | `ParallelFor` | checked and proved | |
| 3 | `PmapReduceFold`, `ParallelRegion` | checked and proved, except `WordReturns` and `EventuallyJoined` | 1, 2 |
| 4 | `Prompts` | checked; proved for orderly programs (`Orderly`) | |
| 5 | `Synth`, refining `CommandQueue` | checked and proved, except `WaitsEnd` | |
| 6 | `Search` (trail, `lvar_top`, unification) | checked and proved, except `UnifyEnds` | 4 for control |
| 7 | `RootSteps`, `Rooting` and the handlers of 301 primitives in `RootingFunctional`, `RootingCollections`, `RootingFrames`, `RootingNumbers`, `RootingArithmetic`, `RootingWords`, `RootingStrings`, `RootingIndexing`, `RootingLogic`, `RootingSystem`, `RootingFormats`, `RootingMatrices`, `RootingHost` | checked; what the heap promises to every handler that keeps the discipline proved | |
| 8 | slabs and the payload of objects beside their handles | open | 1, 3 |
| 9 | slot tables with generations (databases, streams); `screen-frame`'s hold | open | |

Proofs are kept beside the module they are about: `HandleSpaceProofs`,
`ParallelForProofs`, `ParallelRegionProofs`, `PmapReduceFoldProofs`,
`PromptsProofs`, `RootingProofs`, `SearchProofs` and `SynthProofs`.  A theorem still
worth stating: the promises of `Prompts` for a continuation whose slice holds no
locals frame.  Modules with theorems use recursive functions or folds and no
RECURSIVE operator.

## Part 3: the models

### ChunkPool and HandleSpace

`ChunkPool` is what a worker should be able to rely on: it asks for a chunk of
`SlotsPerClaim` consecutive handles and in one step gets the next one or is
refused because less than a chunk is left.

`HandleSpace` is `core.c`: `n`, `next`, `end`, `chunks`, `free` are `space->n` and
the fields of `LocalHandles`; `undoing` holds the workers between the `fetch_add`
of a claim past the table and its `fetch_sub`; `gcPending` the workers with
GC_PENDING set.  `AllocFromFree`, `AllocFromChunk`, `AllocFromClaim` and
`ClaimPastEnd`/`TakeClaimBack` are the branches of `local_claim_handle`;
`WorkerLocalGc` is `worker_local_gc`.  Between an allocation and the object
reaching the worker's stack nothing else of that worker happens, so they are one
step; the shared counter is touched by one atomic operation per step.

Left out: the tests that decide when a collection is due (any allocation may
make one due), the twin space of pairs, which the same function serves, and the
contents of objects.

### ParallelFor and PmapReduceFold

`ParallelFor` is `parallel_for` and `worker_entry`: `nextIndex` is the shared
counter, a C int that wraps; threads may fail to be created; `claims` is a
history of the ranges handed to kernels.  `PmapReduceFold` adds the slots
(`claim_worker`), the partial results and the serial combine loop: `CombineSlot`
is one turn of it, `combined` its index, and a slot no worker numbered holds the
identity.  The combine is concatenation of sequences, the free associative one: what holds of it holds
of every associative combine.

### ParallelRegion

One whole call of a parallel word: it instantiates `HandleSpace` for the
allocations and `ParallelFor` for the items, adds the three kernels
(`FinishItem`, `FaultItem`), `parallel_apply`, `region_abort` and `region_commit`,
the combine loop, and then the main interpreter allocating, dropping and
collecting.  A value is `Outside` or a handle of the region.  `CommitOrAbort` may
keep a region that nothing refers to, as `references_region` does for logic
variables and for deep nesting.

Left out: objects that hold other objects; a worker that writes to an object
older than the region (tests call this misuse); quotations that consume stack
below their item.  `MainNext` says how much of its chunk the main
interpreter has left when the region begins; the run takes the case of none,
where it soonest claims beside the region.

### Prompts

The return stack entry by entry: `Ret`, `Mark`, `Depth`, `Header`, `Local`;
`base` is `local_base` (0 for none, else the position of the header, so that the
next entry is the first local), `runs` the C activations that nest run loops
with their floors, `mode` stands for `running`, `unwinding` and `error_flag`.  A
program is any sequence of at most `MaxOps` operations from a fragment, each
activation ending wherever it likes, so one run checks every program of that
size.  `aim`, `astray` and `lost` are history: what a raise or error should reach,
whether it did, and whether control went to an entry that is not the caller's
return.  Activations are numbered as they are entered, so `CleanupsPaired` can say
that the side stack holds the cleanups of the ensures in progress, outermost
first: the same ensures, in increasing order.

`Top.looped` tells whether the innermost activation is in `run_until_stopped` or
still in its first chain of primitives: only a loop turns errors into
exceptions, and `ReturnToLoop` lets a collection or tick move a chain there.

`RestartBody` is the turn that `times` takes while the stack unwinds through it:
its loop looks at `error_flag` only, so each remaining iteration calls the body
again and the body's first operation runs before the unwinding goes on.  That
operation is the one the body began with before; a raise goes where it went
then, what it pushes on the return stack is popped on the way to the prompt, and
it may fault, because the stack is not what the body expects.  Whether it faults
is open, as everywhere, in fragments that have `fault`.

Left out: the data stack (a depth check may come out either way where its
outcome matters: in `each` a raise always leaves values, so the check fails;
what the first operation of a restarted body does to the values a raise has left
is not seen, unless it faults);
locals frames of one slot only; combinator bodies that have locals or are inline
quotations; `shift-with`, `try-catch`.  After an error `amb` leaves `local_base`
above the stack and later code follows headers still in memory; the model
follows them at once.

### Rooting

The collector runs inside any allocation and inside any quotation, and sees the
data stack and `gc_roots` but not the C locals of the handler at work.  Each
handler therefore has to keep what it still needs where the collector looks, on
every path, through helpers, error exits and nested calls.  This is a discipline
of the whole code base, so the model covers the whole code base: every primitive
of the thirteen modules above is written as what it does to the values it
holds.

`RootSteps` is the vocabulary: pop, peek, push, drop, `gc_root_push` and
`gc_root_pop`, the allocating macros, reading a part of an object, storing into
one, comparing, calling a quotation, failing, and control (alternatives the data
decides, loops, helpers with returns of their own).  A macro of the source is an
operator with the same meaning (`New` is NEW_ARRAY and its kin with their return
on failure; `PopTyped` is POP_TYPED), and a helper is an operator over the
registers of its arguments, used wherever the source calls it.  What decides a
branch is abstracted to a choice; that the branch exists, and what each side
does to values, is kept.

`Rooting` runs one such handler.  Its state: the C frames still to execute, the
data stack, `gc_roots`, the registers (C locals), a heap of handles and what they
hold, the arrays whose slots are still unwritten, and `error_flag`.  `Allocate`
collects first (`object_alloc_slot` at a full table) and may fail; `Comparison`
is `val_cmp`, which may allocate and so collect (exact quantities of different
units, `core.c:692`) with the two values it compares rooted and nothing else of
the handler's; a quotation may replace what it finds by fresh values, collect,
raise or fail.  A register whose object was collected becomes `Freed`, and one
whose allocation failed `Missing`, the handle -1.  `LiveOperands` forbids to use
the first at all and to open the second; pushing or storing -1 does no harm,
since the collector passes over it (`core.c:4383`).  It also says (`OwnOperands`)
that a handler takes from the stack, and drops with its quotations, no more than
it was given, and pops only roots of its own.  Whether the source looks at the
outcome of an allocation is in the handler: `AllocUnchecked` is an allocation
with no test behind it.

`MCRooting` has two tables.  `Sound` holds the 266 primitives that keep the
discipline and are checked by `rooting`; `Leaky` the thirty-five that do not
(Part 5).

`RootsBalanced` compares `gc_roots` at the end of a handler, after an error too
(only the top level sets it back, so that an error a program catches keeps what
was left there), with what it was at the start.  `EffectKept` says that after a
return without an error the stack holds as many values as the word's effect
says, above the caller's own value.

Left out: what is computed; the other roots (variables, the side stack, the
frames of continuations), which hold values of callers and never those of the
handler; a second object behind a part of a part.

### Synth and CommandQueue

`CommandQueue` is what a program relies on: commands are taken in the order
given, each once, at most `Room` of them waiting.  `Synth` is `synth.c` with the
device part of `audio.c`, one atomic access of a shared variable per step: the
ring with `head` and `tail` and the device thread's copies `dhead` and `dtail`;
`pending` with its ready flag per instrument; the ring of finished samples; the
counters of renders and of scheduled events applied.  The interpreter's words
are `NoteOn`, `PatchWord`, `SequenceNote`, `PlaySamples`, `AudioOn`, `AudioOff`,
`ForgetWord`, `SilenceWord` and `WaitWord`; `pc` says how far the current one is.
The device's steps follow `synth_device_render`: take pending patches, drain
the ring, render, publish.  While the device is off the interpreter applies
commands itself; opening it sets the indices back and may fail.  A binding
number stands for the use of a slot by one name, a version for a stored patch;
both exist only to state the properties.

The schedule is a function from places to events.  Since times are left out the
order of the places means nothing, and any event may be the next to fire.

Left out: voices' sound, parameters, tempo and time of events (an event fires at
some later render); the ring of recent frames.

### Search

The binding store, trail and `lvar_top` of `logic.c`, with `unify_depth` unfolded
into an agenda of pairs still to visit, so that a step is one visit and an error
may stop it anywhere.  `Amb`, `Catch`, `BranchReturns`, `Backtrack`, `Raise`,
`Throw` and `NextLine` are what prompts, errors and the top level do to the
store.  `held` are variables a value kept by the program mentions, which no
backtracking takes back.  Which prompt control reaches is the subject of
`Prompts`; here a raise may reach any catch, a superset.

What unification is for is said by a second reading of the terms: once its
variables stand for values (`Ground`), a term stands for one too, `Value(s, t)`, or
for none when a rest would have to be an atom's elements.  `Value` is a constant of
the module with the equations that define it (`ValueAssumption`), so that the proofs need
no recursive operator; `MCSearch` gives the recursive one, and TLC checks that it
satisfies the equations.  `UnifyMeansEqual` compares the store before and after a
unification by the assignments of values that satisfy it.

## Part 4: the runs

| run | question | bounds | distinct states |
|---|---|---|---|
| `handle_space` | can any order of claims, failed claims, drops and collections give a handle twice, free a live object or leave the counter past the table? does the two-step claim implement the pool? | 3 workers (symmetric), chunks of 2, 1 old object, 7 free handles | 136 981 |
| `pmap_reduce_fold` | is every item folded once, in order within a slot, and does the region end? | 3 threads, 5 items, 2 per claim | 2 739 |
| `parallel_region` | can a call of any parallel word free or reuse something reachable, do an item twice, or fail half way? | 2 workers, 2 items, 2 allocations per item, 2 by the main interpreter, 5 free handles | 693 945 |
| `prompts` | does every return, raise, error and resume arrive where it should, with its own locals and cleanups? | 6 operations, 7 fragments | 1 064 635 |
| `rooting` | does any of 266 handlers use a value a collection may have taken, leave a root or a wrong number of values behind, or show the collector an unwritten array? | 2 rounds of each loop, 18 handles, each allocation and comparison may collect and fail | 64 920 |
| `synth_queue` | are commands applied once and in order, samples freed once, old instruments silent before their slot is reused, and does every wait end? | ring of 3 places (2 commands), 1 slot for 2 names, 1 play at a time, 2 scheduled events, 3 words | 509 098 |
| `search` | does backtracking restore the store, does unification mean equality, does it end? | 2 variables, 2 unifications out of 17 pairs, depth 2, 3 prompts | 398 086 |
| `fold_order` | is the result that of the serial fold? (violated) | 3 threads, 3 items | |
| `pmap_reduce_reuse` | and after `pmap-reduce` has rewound its region? (violated) | as `parallel_region` | |
| `prompts_promises` | the promises of `prompts` over six fragments in which one fails (violated) | 7 operations | |
| `rooting_leaks` | `LiveOperands` for the thirty-five handlers that break the discipline, two of which leave roots behind and nothing worse (violated) | as `rooting` | |
| `search_kept` | is a variable made by `lvar` or `copy` never one the program still holds? (violated) | as `search` | |

To see one finding at a time, restrict `Fragments` of `prompts_promises` to one
of the six sets of `BrokenFragmentsDef`, or `Words` of `rooting_leaks` to one
name of `Leaky`.

`handle_space`, `parallel_region`, `prompts` and `synth_queue` check the whole
inductive invariant that the proofs use (`IInv`), in which the type invariant is a
part; that of `Prompts` says more than types of an orderly fragment only, which
six of the run's seven are (the fourth has `shift` and `resume`).

**Why the bounds are enough to be interesting.**  In `handle_space` seven free
handles are three chunks and an odd one: all three workers can meet the end of
the table while claims of the others are in flight, and free lists are reused.
Two items per claim over five items makes a clamped last claim.  In
`parallel_region` the table holds two chunks and an odd handle beyond the main
interpreter's chunk, so claims fail, collections recover handles, and the main
interpreter goes through all four of its ways to allocate, the collection at a
full table included.  Six operations reach
every pair of prompts with a locals frame, an early exit and a raise among them.

In `rooting` a handler has no other actor, so what matters is that each of its
paths is taken with a collection at each allocation: two rounds of a loop are
what it takes to use in the second what the first left, and eighteen handles are
more than any path allocates.  `FullAt = {TRUE}` makes every allocation collect:
a stale register is found by its next use whether the collection came then or
later, so the runs in which some allocations do not collect add nothing.  A
comparison may collect or not, as only some compared values make it allocate,
and every allocation may be refused.

In `synth_queue` two commands fill the ring, one slot and two names force its
reuse, and three words give a queued note, a new name's patch and a wait.  Two
scheduled events are a sequenced note's, so a third is dropped, and the second
of a note may meet a full ring.

In `search` two variables make aliases and cycles (each of the pairs may be
unified after each), three prompts nest two choices or a choice and a catch in a
line, and depth 2 is passed by the cyclic pairs and not by the others.  The
meaning of a term is taken over seven ground terms, enough to tell apart any two
of the unified terms.

`MaxAllocs`, `MaxMainAllocs`, `MaxOps`, `MaxHandle`, `MaxRounds`, `MaxWords`,
`MaxVars` and `MaxPrompts` are bounds the code does not have or has far higher;
`MaxPlays`, `MaxScheduled`, `MaxInstruments`, `Capacity` and `MaxDepth` are limits of
the code, made small.

**Fairness.**  `FoldFairSpec` and `FairSpec` assume that each created thread keeps
running (the operating system schedules it; it takes no lock) and that the main
interpreter goes on after the join.  A quotation of the model terminates because
its allocations are bounded; one that loops for ever keeps the real word from
returning too.  `Synth` assumes that the device calls back while it is open (weak
fairness of `Device`), that the time of a scheduled event and the end of a play
come if renders go on (strong fairness of `FireScheduled` and `PlayEnds`, whose
frames each render counts down, and which are enabled only during a render), and
that the interpreter continues the word it is in (`Polls`).  Nothing is assumed
of voices: one that is held sounds on, and then `wait-sequence` may wait.  `Search`
assumes only that a unification in progress goes on.  Deadlock is checked in
every run; a handler of `Rooting` that has ended stutters.

**Fragments of `prompts`.**  The passing run leaves out exactly the combinations
that the violation runs and the hazards name: `reset` in a word with locals or
twice in one word (so the two hazards of `resetAnywhere`, at `core.c:2692` and
`core.c:1527`, are covered by `prompts_promises` alone), `shift` through `each`, a
raise through `times` in a program whose operations fault, a resumed slice that
holds more than one locals frame, an error in a `catch` opened in a nested
activation, `fail` through `ensure` or `resume`.  That is why `times` stands in two
fragments, once with `throw` and once with `fault`, and `each` in a third with
`fault` only.  Two of its fragments do without the plain `call`: a
quotation under `catch` or `reset` is already an activation without locals.

## Part 5: findings

Listed in `PROJECT.json`, each shown by a violation run; those marked * were also
reproduced with a build of the program.

1. `pmap_reduce_reuse` (`functional.c:837`) *.  The combine loop allocates in the
   main interpreter while the region is open; `region_abort` rewinds the handle
   counter but not the main interpreter's chunk and free list, so a handle can
   later belong to two live objects.
2. `fold_order` (`functional.c:817`) *.  An associative combine is not enough: slots
   are numbered by arrival and hold interleaved claims.  Concatenating
   `[ "aaaa" "bbbb" "cccc" "dddd" ]` with two workers gives `bbbbddddccccaaaa` on
   some runs.
3. `prompts_promises`, `ErrorReachesCatch` (`words.c:1902`) *.  An error in a `catch`
   opened in the first chain of a branch of `amb` or of a combinator body passes
   the catch by.
4. `prompts_promises`, `LocalsRight` (`words.c:1967`) *.  Headers inside a slice keep
   absolute bases.
5. `prompts_promises`, `RaiseReachesPrompt` (`functional.c:70`) *.  `each` reports a
   raise as an arity error.
6. `prompts_promises`, `NeverLost` (`core.c:2692`) *.  In a word with locals a `reset`
   whose region just ends derails the return.
7. `prompts_promises`, `RaiseReachesPrompt` (`functional.c:261`) *.  `times` begins its
   body again while a raise unwinds through it; when the body's first operation
   faults there, the error takes the place of the raise, and the catch that was
   to be reached does not take it: `( ( 1 2 ( drop drop drop 7 throw ) 5 times )
   catch ) catch` ends the program.  Short of a fault that operation can still take
   what the raise left: `( 1 2 ( drop 7 throw ) 2 times ) catch` arrives, but
   without its flag *.
8. `prompts_promises`, `NeverLost` (`core.c:1527`) *.  A shift to the second of two
   resets in one word takes the first one's number for a return address:
   `: g ( -- ) reset 1 reset 2 shift drop 5 ; g` ends with a segmentation fault.
9. `rooting_leaks` (`functional.c:30`) *.  `map`, `nmap`, `pmap` and `pmap-reduce` take
   a curried quotation off the stack and allocate before it is a root again;
   `fold-times` keeps its combiner and its accumulator in C locals:
   `[ 7 8 9 ] ( drop gc 1 ) ( drop ) 3 fold-times .a` crashes.
10. `rooting_leaks` (`matrix.c:1506`) *.  `row-sums` and its five kin pop the matrix,
   allocate the result and then read the elements: with a small `--max-objects`
   the sums come out wrong.
11. `rooting_leaks` (`logic.c:189`) *.  `unify` lowers the stack past both terms and
   then allocates the tail a rest pattern binds: it crashes when that collects.
12. `rooting_leaks` (`core.c:692`) *.  Comparing exact quantities of different units
   allocates, with the two compared values rooted and nothing else.  Seventeen
   words hold more than that in C locals: `sort` and `argsort` the copy they sort,
   the set literals, `array>set`, the set operations and `+`, `-` and `*` of sets the
   set they build, `member?` its mask, and `=`, `<` and its kind, their fused
   branches, `min` and `max` both operands, which they have dropped.  `sort` on such
   an array crashes with a small `--max-objects`.
13. `rooting_leaks` (`telic.h:2051`).  On a path whose intermediate frames are missing
   `frame_walk` makes them without looking at whether there was room, and with a
   full table goes on to open the object at handle -1: `!`, `array>frame` and the
   frame literal.
14. `search_kept` (`logic.c:264`) *.  `[ 1 2 ] ( drop lvar ) solutions to A` holds the
   same variable twice, and `lvar to Y Y 8 unify` then changes `A`.

Of the other words of `Leaky`: `shift-with` (`words.c:1838`) allocates the
continuation while a curried handler is held in a local only; `rationalize`
(`exact.c:1192`) negates a result no root holds and copies its digits after the
allocation; a foreign call (`foreign.c:386`) drops its arguments and then copies a
returned text that may lie inside one of them; `bytes>value` (`serialize.c:873`)
keeps finished parts for back references in a table that is no root, so a set
member that turns out to be there already (two units that have become equal
since the bytes were written) can be collected and referred to later.  `times`
and `i-times` (`functional.c:250`) leave a root of a curried token behind, and run
it without its bound values, when the token cannot take the fast path: under
`trace`, `1 5 ( + ) curry 3 times` reports a stack underflow *.  `man`
(`words.c:2436`) and `read-arrow` leave roots behind when an allocation fails.
Of the thirty-five, `times` and `i-times` violate `OwnOperands`, `RootsBalanced` and
`EffectKept`; `man` and `read-arrow` violate `RootsBalanced` only; the three of
finding 13 open handle -1; the other twenty-eight use a value a collection may
have taken.  With `Words` narrowed to the twenty of findings 12 and 13, TLC finds
`OwnOperands`, `NothingUnwrittenMarked`, `RootsBalanced` and `EffectKept` kept; no run
says so of the others.

`NoteSoundsWithItsPatch`, defined in `Synth` and in no run, is violated in nine
steps when it is added to `MCSynth.cfg`: a patch and then a note given while a
render is between taking patches and draining the ring make the note sound with
the old patch (`synth.c:1532`).

Noticed on the way, outside what the models say: the natural order is not
transitive across units (`[ 3 m 1 s 0.001 km ] sort`; `core.c:630`, against
`PLAN.md:615`); a sequenced note whose second command meets a full ring leaves
half a note queued (`synth.c:1779`, against `docs/reference.md:6620`); the loops that
wait for a free slot or an empty pending patch do not look at an interrupt
(`synth.c:2014`); a finished buffer that meets a full ring is never freed
(`synth.c:1317`); `n_gc_roots` is set back at the top level only (`core.c:6548`), so an
error caught by a program keeps the roots of a handler that fails with some left,
which is why `RootsBalanced` is asked of the error exits too; the table
of foreign pointers is read without its lock (`foreign.c:458`).

## Part 6: the proofs

TLAPS checks these for every value of the constants that satisfies the named
assumptions (finite set of workers, a positive chunk, a table that starts after
the old objects, numbers that are natural).

**`HandleSpaceProofs`.**  `IInv` is inductive.  `NoDanglingRoot` alone is not: a
collection keeps it only if reachable handles are used handles of the worker's
own chunks (`OwnershipInv`), which needs chunks of different workers apart
(`ChunkInv`), which needs the counter to be at or above the end of every chunk
even after a failed claim is taken back.  The counter itself is no such bound
while claims are in flight; `Settled`, the counter minus what the failed claims
in flight added, is, and `CounterInv` says why taking a claim back is safe: while
one is in flight less than a chunk is left, so no other claim can succeed above
it.  From `Invariance` follow `ClaimsDisjoint`, `RootsSurvive`, `RootsNotReused` and
`CounterWithinTable`; `ImplementsPool` maps `top` to `Settled`, a successful claim to
a grant, `fetch_add` past the table to a refusal, `fetch_sub` to its report and
everything else to a stutter.

**`ParallelForProofs`.**  `IInv` says that the claims made cover exactly the items
below `nextIndex`, one claim each.  It holds as long as the index does not wrap:
`NoOverflow` asks for a positive items-per-claim and room for one claim past the
domain by each thread.  `IndexInv` counts the stopped threads, each of which moves
the index past the domain once, which bounds it; with `Stopped # {}` the index is
at the end, which gives `NoItemMissed`.

**`PmapReduceFoldProofs`.**  `ResultHasEveryItem` says nothing until the word
returns; what leads to it is `FoldInv`.  Every item below the index is held by
exactly one thread, in its partial result or in the range it works through
(`HeldInv`); a range lies after what its thread has folded (`RangesInv`), which
keeps `SlotsInOrder`; only a thread with a slot of its own has folded anything
(`SlotsInv`); and the serial loop has put together the slots below `combined` and
nothing else (`ResultInv`).  `EveryItemOnce` then needs that there are no more slots
than turns of the loop (`SlotsBounded`, an injection into the threads) and that an
injective sequence is as long as what it ranges over.  It assumes `NoOverflow`,
and uses the proof of `ParallelFor`: a step of the fold is a step of `ParallelFor` or
leaves its variables alone, which is the refinement `FoldSharesDomain` (it holds
when the index wraps too).

**`ParallelRegionProofs`.**  One invariant for a whole call, from `region_begin` to
the main interpreter's allocations after the word has returned, composed of the
invariants of the two modules it instantiates (`Space!IInv` while the region is
open, `For!IInv`) and what neither sees:
`ThreadInv`, that a thread that has stopped owns no chunk, so its results cannot
be swept; `ItemsInv`, that the items a worker is still to do are disjoint from
every other's and not yet applied; `ImageInv`, that a result in the shared image
either survives every collection to come or lies on its worker's stack;
`PartialsInv`, that the accumulator of `pmap-reduce`, which between two items is on
no stack, lies in a chunk that only its own worker sweeps, and that no collection
of that worker can come there; and, after the join, `SupplyInv`, that what the main
interpreter may allocate next is apart from what it reaches.  `ReachableExist`
alone is not inductive: it says nothing of a result that was stored and whose
worker then goes on collecting.  `SupplyInv` has the same exception as
`NoLiveHandleOfferedInRegion`, a reduction that has returned, which is finding 1.
`FailureIsClean` proves the action property `FailureLeavesNothing`.  Assumed:
`For!NoOverflow`, and the assumptions on the constants of both modules.  The call
refines the module it shares the domain with: `RegionSharesDomain` maps every
step of a region, a worker's allocation as well as the join, to a step of
`ParallelFor` or a stutter, and needs no bound on the index.

**`SynthProofs`.**  `RingInv` is inductive for every capacity, number of
instruments and program.  It says where the four indices lie round the ring:
while the device drains, its own two lie between the published head and tail in
that order (distances add up), so nothing it reads is overwritten and nothing is
read twice; while the device is off the ring is empty, or is being emptied by
`audio-off`; and while a command is written but not published its place is free.
Without the last two parts `CommandsInOrder` fails on the steps that open and
close the device.  `RingIsQueue` maps `queue` to what lies from the device's place
to the tail: `PublishCommand` is `Put`, `ApplyNext` is `Take`, everything else,
publishing the head included, a stutter.

The other safety properties of `Synth` are proved in the same module, for any
capacities, numbers of instruments and plays, names, and any number of words.
`IInv` adds five parts to `RingInv`.  `SampleInv`: the six places a buffer of samples
may be in are disjoint and each holds it once; the two rings make this delicate,
as a buffer leaves the queue by a step of one thread and comes back by one of the
other, and the interpreter frees what it counted earlier (`collected`) while the
device appends.  `CountInv`: applied, scheduled and queued events add up to those
submitted, exactly unless a sequenced note was queued by half (`torn`) or
`audio-off` is still applying what was queued, which is also what `EventsCounted`
states, in both directions; and the second command of a note is due before it is
counted (`Due`).  `QuietInv`: what one more render and two more renders since the
wait began have emptied.  The count of renders is published after `sounding`, so `passed.wait = 1` means something else
in each of the device's phases (`AppliedSince`, `RenderedSince`); that is why
`wait-quiet` asks for two renders, and why the mutant that asks for one is caught.
`BindingInv`: whatever a slot holds, in the engine or in the queue, is of the
binding stored last (`HeldInv`); a pending patch is the one stored last
(`PatchInv`); a released slot holds nothing or a forget behind which nothing of the
slot is queued, and no longer holds even that once a render that began after the
release has drained the ring (`ReleasedInv`).  `OldInstrumentGone` follows, since a
patch reaches the engine only after its slot was clean.  From `CapacityAssumption`,
`SizesAssumption` and `NamesAssumption`; fairness is not used.

**`PromptsProofs`.**  The five promises of `Prompts`, for orderly programs of any
length: those whose fragment satisfies `Orderly`.  An orderly program may call, use
locals of either kind, leave early, `reset`, `catch`, `ensure`, `throw` and meet
errors in any order; or open `amb`s that nest and backtrack into them, beside
`catch`, `throw` and `reset`; or run `times` and `each` in one another and in `amb`.
What `Orderly` leaves out are `shift` and `resume` and the combinations in which TLC
finds a promise broken within a few operations, each with an operation or two
more than the pair named: `reset` with a combinator in the same activation (the
body's exit pops the mark) or under a locals frame; `each` with what raises in its
body; `times` with what raises in its body and operations that fault (finding 7); a
`fail` that passes an `ensure`; an error or an uncaught `fail` with a `catch` inside
`amb`, `each` or `times`, which then ends outside the loop that the catch is in.
`ensure` is also kept apart from the combinators: a body that `times` begins again
may take the flag off the data stack that `ensure` tests, and the model has no data
stack.  The theorems are statements about behaviours in which
`Orderly(ops)`, a choice made in the initial state and kept; `Fragments` and
`MaxOps` are arbitrary.

None of the five is inductive: where a return leads depends on every entry below
it.  `ProgramInv` therefore describes the stack entry by entry.  `Supported` says
what an entry needs below it: that a header's saved base is the frame below it,
that a prompt lies on the return of the activation that set it.  `Leads` says
where a return goes: to code that may run on what remains when it is popped
(`RunsOn`: its activation owns the new top, and the locals it reads are those of
the innermost frame), or out of the run loop whose floor it stands on, or back
into the body of a combinator; and that each choice prompt has its `amb`.
`Followed` says what lies above the two entries that never stay on top, a header
and the return of an `ensure`.  `Numbered` orders the activations, so each owns one
return, and `SideInv` ties the side stack to the returns of the ensures.

The run loops nest (`Nests`): each stands on the stack of the one that called it,
at a depth (`Bottom`) where that one's code can go on.  A first branch's floor is
its choice prompt, and no mark below has its number, so the unwinding that finds
its own number at the floor is the `fail` meant for it.  While an error is on its
way the loops leave above their floors whatever they find there, so `Leads` is
then claimed only up to the innermost floor and the innermost catch: nothing
above is looked at before it is cut off.  `OpsInv` says what the fragment cannot
have left, for instance a catch inside a loop that errors leave.

An entry's support speaks of those below it only, so it survives every push
(`Pushes`) and every cut (`CutBack`).  Each end of an activation and each unwinding
comes down to one lemma, that popping a return with all above it and with the
base that `restore_local_base_below` finds keeps the invariant (`Returns`); and the
nest of loops survives any change of the stack that keeps the entries below the
loops that stay (`RunsKeep`), which serves the loop that starts (`LoopStarts`), that
ends stopped, failed or unwinding (`Leaves`), and that goes on with a second branch
or another element (`LoopGoesOn`).

`RaisesArrive` covers raises through `times` with the bodies it begins again on the
way.  `LetsThrough` is the part of the invariant that says so: while the stack
unwinds no run loop but the outermost is one of `each`, nor one of `times` in a
program whose operations may fault, so `RestartBody` leaves the stack and the raise
alone (`RestartBodyKeeps`).  Without it the theorem is false, and TLC shows how
(finding 7).

**`SearchProofs`.**  `BacktrackingRestores` is proved from `StoreInv`: types; the
marks of prompts and of a word in progress lie in order along the trail
(`MarksInOrder`); `TrailRestores`; and `OwnMark`, the same for the word in progress,
which may be undone while prompts stay.  The order of the marks is needed
because undoing to an inner mark must not disturb an outer one (`UndoStep`), and
a binding must be on the trail above every mark whose store it changes
(`BindStep`): a variable is bound only while it is unbound, so undoing gives it
back.  `NewVariableStep` says why a handle given out a second time disturbs no
prompt: it lies above the `top` of each.

`UnificationIsEquality` needs the invariant to speak of a unification in progress:
`SoFar` says that the assignments which satisfied the store before and make the
two terms equal are those which satisfy the store now and every pair still to
visit.  Each visit then has to mean the same as the pair it replaces
(`VisitStep`), or to refuse only what nothing satisfies (`RefusalStep`).  What
carries the proof are the lemmas about values: `FlatEqual` for arrays without a
rest, `RestEqual` for one that ends in a rest against one that does not, where
what is left of the longer array (`Slice`) must itself be a term.  There is no
induction over terms: a visit looks one level deep, and the equations of
`ValueAssumption` are used once.  `SoFar` itself was checked with TLC over the bounds
of `search` before it was proved.  The theorem covers arrays of any length and
depth, any number of variables, cyclic bindings included; it says nothing of
terms with wildcards or frames, which match more than what equals them.

**`RootingProofs`.**  What the collector and the allocator promise to a handler that
keeps the discipline.  `LiveOperands` is the handler's part of the contract and a
hypothesis here: `rooting` establishes it for each of the 266 handlers of
`Sound`, with a collection and a refusal possible at every allocation and a
collection at every comparison.  Given that,
for any table of handlers, of any depth and with loops of any length,
`HeapStaysClosed` proves `TypeOK`: the stack, `gc_roots`, every register that is not
stale and every object refer to allocated objects only.  `ReachedSurvives` proves
an action property: what the stack and `gc_roots` reach is there after the step
with all it held, and the object an allocation or a quotation makes has a handle
that nothing reached has.  (A step that pops gives up what only the popped value
reached; `Remaining` is the stack after its pops.)

`TypeOK` is inductive relative to `LiveOperands`, provided that what a sweep leaves
is closed, which is the heart of the proof.  `Reach` marks in `MaxHandle` rounds;
`MarkingEnds` shows that no further round adds anything: a round that adds nothing
is followed by none that does (`RoundsGrow`), and each that adds something adds a
handle, of which there are `MaxHandle` (`RoundsEnd`, by cardinality and a least
number).  That the recursive function of the rounds exists at all has to be
proved first (`RoundsExist`).  From `RootingAssumption`: handles are a finite range
with room for two objects for each operand and one more, and the operands of a
handler are counted by a natural number.

**Only model-checked.**  Termination (`EventuallyJoined`, `WordReturns`, `WaitsEnd`,
`UnifyEnds`), because liveness under fairness is out of the prover's reach; `LiveOperands`,
`NothingUnwrittenMarked`, `RootsBalanced` and `EffectKept` of the 266 handlers of
`Sound`, each of which is a finite set of paths that the run exhausts up to the
number of rounds (a proof would be as many case distinctions over literal code);
and the promises of `Prompts` for programs with `shift` and `resume`: a resumed slice is
supported by another stack than the one it was cut from, which the code itself
gets wrong when the slice holds a locals frame (finding 4).

## Part 7: not modelled

`PROJECT.json` gives the status of every component.  The components that are
`partly` modelled only through `Rooting` (collections, indexing, exact numbers,
units, serialization, strings, databases and streams, matrices, formats, foreign
calls) are modelled as far as the life of values goes; what they compute is
sequential and pure, depends on data of unbounded size, and is better tested
than checked on instances.

Not modelled at all, with the reason:

- audio effects and the floating-point kernels: no useful finite instances;
- the symbol table: the probe repeated under the lock settles every order of
  whole steps, and what is left is the memory order of single accesses;
- compiler, dictionary and superword fuser: translations of an unbounded
  language, without state shared between actors;
- reader, REPL, help, gamepads, platform layer: text handling and system calls;
- the pump thread of the screen: driven by a window system whose promises are
  not in this code;
- slabs under the handles (`region_abort` also rewinds `arena.used`): the models
  give objects no storage;
- libraries, examples, tools, vendored code: programs in the language, and third
  parties.
