----------------------------- MODULE ChunkPool -----------------------------
(***************************************************************************)
(* What a handle space promises the workers of a parallel region: a worker *)
(* asks for a chunk of SlotsPerClaim consecutive handles and, in one       *)
(* indivisible step, either gets the next chunk nobody else has or is      *)
(* refused because less than one chunk is left below Cap.                  *)
(***************************************************************************)
EXTENDS Integers

CONSTANTS
  Workers,        \* the threads of the region
  SlotsPerClaim,  \* handles in one chunk
  Base,           \* first handle of the region
  Cap             \* size of the handle table, fixed while the region runs

VARIABLES
  top,      \* first handle no chunk contains yet
  granted,  \* granted[w]: first handles of the chunks worker w owns
  refused   \* workers that have been refused and not yet told so

vars == <<top, granted, refused>>

Init ==
  /\ top = Base
  /\ granted = [w \in Workers |-> {}]
  /\ refused = {}

Grant(w) ==
  /\ w \notin refused
  /\ top + SlotsPerClaim <= Cap
  /\ granted' = [granted EXCEPT ![w] = @ \cup {top}]
  /\ top' = top + SlotsPerClaim
  /\ UNCHANGED refused

Refuse(w) ==
  /\ w \notin refused
  /\ top + SlotsPerClaim > Cap
  /\ refused' = refused \cup {w}
  /\ UNCHANGED <<top, granted>>

Report(w) ==
  /\ w \in refused
  /\ refused' = refused \ {w}
  /\ UNCHANGED <<top, granted>>

Next == \E w \in Workers : Grant(w) \/ Refuse(w) \/ Report(w)

Spec == Init /\ [][Next]_vars
=============================================================================
