---------------------------- MODULE ParallelFor ----------------------------
(***************************************************************************)
(* How the threads of a parallel region share the items of the domain      *)
(* (src/c/core.c, parallel_for and worker_entry): each thread claims the   *)
(* next ItemsPerClaim indices with one atomic addition and stops when the  *)
(* index it got lies past the domain.  The shared index is a C int, so it  *)
(* wraps at IntMax.                                                        *)
(***************************************************************************)
EXTENDS Integers, Sequences, FiniteSets

CONSTANTS
  Threads,        \* the threads the call asks for, the calling one included
  Caller,         \* the calling thread, which works like the others
  NItems,         \* task->n_items
  ItemsPerClaim,  \* task->items_per_claim
  IntMax          \* largest int

ASSUME ParallelForAssumption ==
  /\ IsFiniteSet(Threads)
  /\ Caller \in Threads
  /\ IntMax \in Nat
  /\ NItems \in 0 .. IntMax
  /\ ItemsPerClaim \in -(IntMax + 1) .. IntMax

VARIABLES
  nextIndex,  \* task->next_index
  thread,     \* what each thread is doing
  range,      \* the items it works on: from the first up to, not including, to
  claims      \* the ranges handed to kernels so far, in order (history)

forVars == <<nextIndex, thread, range, claims>>

Indices == 0 .. (NItems - 1)

\* Mutant: the end of a claim is not clamped to the domain.
MinimumUnclamped(a, b) == a

Minimum(a, b) == IF a <= b THEN a ELSE b

\* Addition of C ints: atomic_fetch_add wraps, and the build wraps the plain
\* addition of the same operands too.
Wrap(i) == ((i + IntMax + 1) % (2 * (IntMax + 1))) - (IntMax + 1)

NoRange == [from |-> 0, to |-> 0]
Items(r) == r.from .. (r.to - 1)

----------------------------------------------------------------------------
\* There are never more threads than items, and creating one may fail; the
\* threads there are do all the work.
Init ==
  /\ nextIndex = 0
  /\ \E created \in SUBSET (Threads \ {Caller}) :
       /\ created = {} \/ Cardinality(created) < NItems
       /\ thread = [t \in Threads |-> IF t = Caller \/ t \in created THEN "claiming" ELSE "absent"]
  /\ range = [t \in Threads |-> NoRange]
  /\ claims = <<>>

\* Mutant: the index is read and written in two operations, so a claim of
\* another thread in between is lost.
ClaimItemsNotAtomic(t) ==
  LET claimed == [from |-> nextIndex,
                  to |-> Minimum(Wrap(nextIndex + ItemsPerClaim), NItems)]
  IN  /\ thread[t] = "claiming"
      /\ nextIndex < NItems
      /\ nextIndex' \in {nextIndex, Wrap(nextIndex + ItemsPerClaim)}
      /\ thread' = [thread EXCEPT ![t] = "working"]
      /\ range' = [range EXCEPT ![t] = claimed]
      /\ claims' = Append(claims, claimed)

\* Mutant: the index moves one item too far.
ClaimItemsSkipping(t) ==
  LET claimed == [from |-> nextIndex,
                  to |-> Minimum(Wrap(nextIndex + ItemsPerClaim), NItems)]
  IN  /\ thread[t] = "claiming"
      /\ nextIndex < NItems
      /\ nextIndex' = Wrap(nextIndex + ItemsPerClaim + 1)
      /\ thread' = [thread EXCEPT ![t] = "working"]
      /\ range' = [range EXCEPT ![t] = claimed]
      /\ claims' = Append(claims, claimed)

ClaimItems(t) ==
  LET claimed == [from |-> nextIndex,
                  to |-> Minimum(Wrap(nextIndex + ItemsPerClaim), NItems)]
  IN  /\ thread[t] = "claiming"
      /\ nextIndex < NItems
      /\ nextIndex' = Wrap(nextIndex + ItemsPerClaim)
      /\ thread' = [thread EXCEPT ![t] = "working"]
      /\ range' = [range EXCEPT ![t] = claimed]
      /\ claims' = Append(claims, claimed)

\* The kernel returns, having worked through the range or failed in it.
FinishRange(t) ==
  /\ thread[t] = "working"
  /\ thread' = [thread EXCEPT ![t] = "claiming"]
  /\ range' = [range EXCEPT ![t] = NoRange]
  /\ UNCHANGED <<nextIndex, claims>>

Stop(t) ==
  /\ thread[t] = "claiming"
  /\ nextIndex >= NItems
  /\ nextIndex' = Wrap(nextIndex + ItemsPerClaim)
  /\ thread' = [thread EXCEPT ![t] = "stopped"]
  /\ UNCHANGED <<range, claims>>

\* Mutant: the caller also waits for the threads it could not create.
JoinedByAll == \A t \in Threads : thread[t] = "stopped"

\* The caller has joined every thread.
Joined == \A t \in Threads : thread[t] \in {"stopped", "absent"}
Done == Joined /\ UNCHANGED forVars

Next == (\E t \in Threads : ClaimItems(t) \/ FinishRange(t) \/ Stop(t)) \/ Done

Spec == Init /\ [][Next]_forVars

----------------------------------------------------------------------------
TypeOK ==
  /\ nextIndex \in -(IntMax + 1) .. IntMax
  /\ thread \in [Threads -> {"claiming", "working", "stopped", "absent"}]
  /\ range \in [Threads -> [from : Int, to : Int]]
  /\ claims \in Seq([from : Int, to : Int])

\* reference.md: "Apply xt to each element across worker threads, results in
\* input order, with explicit worker count w and items-per-claim c".  A kernel
\* is only ever handed items of the domain.
ClaimsInDomain == \A k \in DOMAIN claims : Items(claims[k]) \subseteq Indices

\* No item is handed out twice, whichever threads claim in whatever order.
ClaimsDisjoint ==
  \A j, k \in DOMAIN claims : j # k => Items(claims[j]) \cap Items(claims[k]) = {}

\* When the caller has joined the threads every item has been handed out.
JoinedMeansAllClaimed == Joined => UNION {Items(claims[k]) : k \in DOMAIN claims} = Indices

\* The region ends even when some threads could not be created.
EventuallyJoined == <>Joined

----------------------------------------------------------------------------
(* The inductive invariant, which ParallelForProofs proves when nextIndex   *)
(* has room for one claim past the domain by every thread.                  *)
NoOverflow ==
  /\ ItemsPerClaim > 0
  /\ NItems + ItemsPerClaim * (Cardinality(Threads) + 1) <= IntMax

Stopped == {t \in Threads : thread[t] = "stopped"}

\* Only a claim inside the domain and each thread's last one move the index.
IndexInv ==
  /\ 0 <= nextIndex
  /\ nextIndex <= NItems + ItemsPerClaim * (Cardinality(Stopped) + 1)
  /\ Stopped # {} => nextIndex >= NItems

\* The claims made are exactly the items below the index, one claim each.
ClaimsInv ==
  /\ \A k \in DOMAIN claims :
       LET r == claims[k]
       IN  0 <= r.from /\ r.from < r.to /\ r.to <= nextIndex /\ r.to <= NItems
  /\ \A i \in Indices : i < nextIndex => \E k \in DOMAIN claims : i \in Items(claims[k])
  /\ ClaimsDisjoint

\* The calling thread works like the others, and is always there.
CallerInv == thread[Caller] # "absent"

IInv == TypeOK /\ IndexInv /\ ClaimsInv /\ CallerInv
=============================================================================
