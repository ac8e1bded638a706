---------------------------- MODULE CommandQueue ----------------------------
(***************************************************************************)
(* What the command ring promises: the commands a program gives are        *)
(* applied in the order given, none lost, repeated or changed on the way,  *)
(* and at most Room of them wait.                                          *)
(***************************************************************************)
EXTENDS Naturals, Sequences

CONSTANT Room
VARIABLES queue, given      \* the commands that wait; the command the program gives

Init == queue = <<>>
Put == Len(queue) < Room /\ queue' = Append(queue, given)
Take == queue # <<>> /\ queue' = Tail(queue)

Spec == Init /\ [][Put \/ Take]_queue
==============================================================================
