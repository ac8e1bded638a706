------------------------------- MODULE Prompts -------------------------------
(***************************************************************************)
(* The return stack of the interpreter and what unwinds it (src/c/core.c,  *)
(* words.c, logic.c, functional.c, forth/exceptions.telic): word calls,    *)
(* locals frames, prompts (reset, catch, amb), throw, shift, fail,         *)
(* interpreter errors, resume, and the nested C activations of the run     *)
(* loop that amb, resume and the combinators make.                         *)
(*                                                                         *)
(* A program is any bounded sequence of the operations of one fragment of  *)
(* the language; a body ends wherever it likes.                            *)
(*                                                                         *)
(* Abstractions: data-stack values are left out, so a depth check may come *)
(* out either way when its outcome depends on them; every locals frame has *)
(* one slot and no slot holds a mark; a combinator's body has no locals    *)
(* of its own (its frame reuse is not modelled).                           *)
(***************************************************************************)
EXTENDS Integers, Sequences, FiniteSetsExt

CONSTANTS
  Fragments,  \* sets of operations; a behaviour uses those of one of them
  MaxOps      \* bound: operations a program executes

Operations ==
  {"call", "locals", "flatLocals", "exit", "reset", "resetAnywhere", "catch", "catchTop",
   "ensure", "throw", "shift", "resume", "amb", "fail", "failToAmb", "each", "times", "gc", "fault"}

ASSUME PromptsAssumption ==
  /\ Fragments \subseteq SUBSET Operations
  /\ MaxOps \in Nat

VARIABLES
  ops,     \* the fragment
  nOps,    \* operations executed
  rs,      \* return_stack up to rsp
  base,    \* local_base: 0, or the position of a header whose local is next
  runs,    \* the C activations of the run loop, innermost last
  pc,      \* ip: what is running, in which activation, reading whose locals
  mode,    \* "running", "stopped", "unwinding", "failed" (error_flag), "over"
  target,  \* unwind_target
  cont,    \* the continuation captured last
  side,    \* side_stack: the ensure activations whose cleanup it holds
  thrown,  \* the flag catch left on the data stack
  fresh,   \* next_mark_id, also used to number activations
  aim,     \* the prompt meant by the last raise or error (history)
  astray,  \* "raise" or "error" once one has not reached its prompt (history)
  lost     \* control went to something not the caller's return (history)

stackVars == <<rs, base>>
historyVars == <<aim, astray, lost>>
vars == <<ops, nOps, rs, base, runs, pc, mode, target, cont, side, thrown, fresh,
          aim, astray, lost>>

----------------------------------------------------------------------------
(* Entries of the return stack.  A return leads to "to" when activation     *)
(* "of" ends; a mark belongs to activation "of".                            *)
Ret(to, of) == [k |-> "ret", to |-> to, of |-> of]
Mark(kind, id, uid, of) == [k |-> "mark", kind |-> kind, id |-> id, uid |-> uid, of |-> of]
Depth == [k |-> "depth"]
Header(saved) == [k |-> "header", saved |-> saved]
Local(act) == [k |-> "local", act |-> act]

At(code, act, env) == [code |-> code, act |-> act, env |-> env]
Stop == At("stop", 0, 0)
NoCont == [slice |-> <<>>, offset |-> 0, pc |-> Stop, of |-> 0]
NoPrompt == [k |-> "none", id |-> 0, uid |-> 0]

Top == runs[Len(runs)]
Floor == Top.floor
Prefix(s, n) == SubSeq(s, 1, n)
Last(s) == s[Len(s)]
PopRun == Prefix(runs, Len(runs) - 1)

\* A loop that takes over from a chain of operations is in run_until_stopped.
Looping(rr) == IF rr = <<>> THEN rr ELSE [rr EXCEPT ![Len(rr)].looped = TRUE]

Run(op, floor, looped, at, id, body, left) ==
  [op |-> op, floor |-> floor, looped |-> looped, at |-> at, id |-> id, body |-> body,
   left |-> left, pc |-> pc, base |-> base]

\* prompt_index: the topmost mark of one of the kinds, 0 when there is none.
PromptIndex(kinds) ==
  Max({0} \cup {i \in DOMAIN rs : rs[i].k = "mark" /\ rs[i].kind \in kinds})

SavedBase(s, b) == IF s[b].k = "header" THEN s[b].saved ELSE 0

\* Mutant: the locals frames above the prompt stay current.
BaseBelowUnrestored(m) == base

\* restore_local_base_below: the innermost locals frame below position m.
BaseBelow(m) ==
  LET below[b \in 0 .. Len(rs)] == IF b < m THEN b ELSE below[SavedBase(rs, b)]
  IN  below[base]

----------------------------------------------------------------------------
(* Leaving an activation.                                                   *)

\* Mutant: marks are left for the return to trip over.
UnmarkedNot(s) == s

Unmarked(s) == Prefix(s, Max({0} \cup {i \in DOMAIN s : s[i].k # "mark"}))

\* unwind_locals_scopes: drop the locals frames at the top of the stack.
WithoutLocals(s, b) ==
  LET drop[c \in 1 .. Len(s)] ==
        LET saved == SavedBase(s, c)
        IN  IF saved > Floor /\ saved + 1 = c - 1 THEN drop[saved]
            ELSE [rs |-> Prefix(s, c - 1), base |-> saved]
  IN  IF b > Floor /\ Len(s) = b + 1 THEN drop[b] ELSE [rs |-> s, base |-> b]

\* Control goes to a popped entry, which should be the return of activation act.
GoTo(entry, act) ==
  /\ lost' = (lost \/ entry.k # "ret" \/ entry.of # act)
  /\ IF entry.k = "ret" /\ entry.to.code # "stop"
     THEN mode' = "running" /\ pc' = entry.to
     ELSE mode' = "stopped" /\ UNCHANGED pc

\* p_exit with return stack s and local base b, at the end of activation act.
Exit(s, b, act) ==
  LET left == WithoutLocals(Unmarked(s), b)
  IN  /\ base' = left.base
      /\ IF Len(left.rs) <= Floor
         THEN /\ rs' = left.rs
              /\ mode' = "stopped"
              /\ lost' = (lost \/ act # Top.body)
              /\ UNCHANGED pc
         ELSE /\ rs' = Prefix(left.rs, Len(left.rs) - 1)
              /\ GoTo(Last(left.rs), act)

\* unwind_to: cut the stack back to the prompt at m, and let the run loops of
\* this activation and those around it find it.
UnwindTo(m, cause) ==
  /\ target' = rs[m].id
  /\ rs' = Prefix(rs, m)
  /\ base' = BaseBelow(m)
  /\ mode' = "unwinding"
  /\ runs' = Looping(runs)
  /\ aim' = [uid |-> rs[m].uid, cause |-> cause]

\* An interpreter error: it is for the innermost catch.
Fail ==
  LET m == PromptIndex({"catch"})
  IN  /\ mode' = "failed"
      /\ aim' = [uid |-> IF m = 0 THEN 0 ELSE rs[m].uid, cause |-> "error"]

----------------------------------------------------------------------------
\* The program runs as one word under execute_cfa.
Init ==
  /\ ops \in Fragments
  /\ nOps = 0
  /\ rs = <<Ret(Stop, 1)>>
  /\ base = 0
  /\ pc = At("plain", 1, 0)
  /\ runs = <<[op |-> "top", floor |-> 0, looped |-> TRUE, at |-> 0, id |-> 0, body |-> 1,
               left |-> 0, pc |-> Stop, base |-> 0]>>
  /\ mode = "running"
  /\ target = 0
  /\ cont = NoCont
  /\ side = <<>>
  /\ thrown = FALSE
  /\ fresh = 2
  /\ aim = [uid |-> 0, cause |-> "none"]
  /\ astray = "no"
  /\ lost = FALSE

\* The code the program wrote, as opposed to that of catch and ensure.
InProgram == mode = "running" /\ pc.code \in {"plain", "locals"} /\ ~lost

Operation(op) ==
  /\ InProgram
  /\ op \in ops
  /\ nOps < MaxOps
  /\ nOps' = nOps + 1

Numbering(n) == fresh' = fresh + n

\* docol: a word without locals.
Call ==
  /\ Operation("call")
  /\ rs' = Append(rs, Ret(pc, fresh))
  /\ pc' = At("plain", fresh, 0)
  /\ Numbering(1)
  /\ UNCHANGED <<ops, base, runs, mode, target, cont, side, thrown, historyVars>>

\* docol and p_enter_locals; a flat frame is one with no other around it.
CallWithLocals ==
  /\ \E op \in {"locals", "flatLocals"} : Operation(op) /\ (op = "flatLocals" => base = 0)
  /\ rs' = rs \o <<Ret(pc, fresh), Header(base), Local(fresh)>>
  /\ base' = Len(rs) + 2
  /\ pc' = At("locals", fresh, fresh)
  /\ Numbering(1)
  /\ UNCHANGED <<ops, runs, mode, target, cont, side, thrown, historyVars>>

\* The word's last cells: p_leave_locals pops what it takes for its locals
\* and their header, then p_exit.
EndBody ==
  /\ InProgram
  /\ IF pc.code = "locals"
     THEN LET header == Len(rs) - 1
          IN  Exit(Prefix(rs, header - 1), SavedBase(rs, header), pc.act)
     ELSE Exit(rs, base, pc.act)
  /\ UNCHANGED <<ops, nOps, runs, target, cont, side, thrown, fresh, aim, astray>>

\* exit in the middle of a word with locals: p_exit alone.
EarlyExit ==
  /\ Operation("exit")
  /\ pc.code = "locals"
  /\ Exit(rs, base, pc.act)
  /\ UNCHANGED <<ops, runs, target, cont, side, thrown, fresh, aim, astray>>

\* reset, once in an activation that has no locals, or anywhere.
Reset ==
  /\ \E op \in {"reset", "resetAnywhere"} :
       Operation(op) /\ (op = "reset" => pc.env = 0 /\ Last(rs).k # "mark")
  /\ rs' = Append(rs, Mark("exception", fresh, fresh, pc.act))
  /\ Numbering(1)
  /\ UNCHANGED <<ops, base, runs, pc, mode, target, cont, side, thrown, historyVars>>

\* What calling catch (activation c) with a quotation (activation q) pushes.
CatchEntries(caller, c, q) ==
  <<Ret(caller, c), Mark("catch", c, c, c), Depth, Ret(At("catch", c, 0), q)>>

\* catch: (catch-prompt) execute.  catchTop is one the run loop itself is in.
Catch ==
  /\ \E op \in {"catch", "catchTop"} : Operation(op) /\ (op = "catchTop" => Len(runs) = 1)
  /\ rs' = rs \o CatchEntries(pc, fresh, fresh + 1)
  /\ pc' = At("plain", fresh + 1, pc.env)
  /\ Numbering(2)
  /\ UNCHANGED <<ops, base, runs, mode, target, cont, side, thrown, historyVars>>

\* (catch-end) 0 ;
CatchEnd ==
  /\ mode = "running" /\ pc.code = "catch" /\ ~lost
  /\ Exit(Prefix(rs, Len(rs) - 2), base, pc.act)
  /\ thrown' = FALSE
  /\ UNCHANGED <<ops, nOps, runs, target, cont, side, fresh, aim, astray>>

\* ensure: >side catch
Ensure ==
  /\ Operation("ensure")
  /\ side' = Append(side, fresh)
  /\ rs' = (Append(rs, Ret(pc, fresh)))
             \o CatchEntries(At("ensure", fresh, 0), fresh + 1, fresh + 2)
  /\ pc' = At("plain", fresh + 2, pc.env)
  /\ Numbering(3)
  /\ UNCHANGED <<ops, base, runs, mode, target, cont, thrown, historyVars>>

Raise(cause) ==
  LET m == PromptIndex({"exception", "catch"})
  IN  IF m = 0
      THEN Fail /\ UNCHANGED <<rs, base, runs, target>>
      ELSE UnwindTo(m, cause)

\* Mutant: on the throw path the cleanup stays on the side stack.
EnsureEndNoCleanup ==
  /\ mode = "running" /\ pc.code = "ensure" /\ ~lost
  /\ IF thrown
     THEN side' = side /\ Raise("raise") /\ UNCHANGED <<pc, lost>>
     ELSE side' = Prefix(side, Len(side) - 1) /\ Exit(rs, base, pc.act) /\ UNCHANGED <<runs, target, aim>>
  /\ UNCHANGED <<ops, nOps, cont, thrown, fresh, astray>>

\* side> execute if throw then ;  The cleanup does nothing but be popped.
EnsureEnd ==
  /\ mode = "running" /\ pc.code = "ensure" /\ ~lost
  /\ side # <<>>
  /\ side' = Prefix(side, Len(side) - 1)
  /\ IF thrown
     THEN Raise("raise") /\ UNCHANGED <<pc, lost>>
     ELSE Exit(rs, base, pc.act) /\ UNCHANGED <<runs, target, aim>>
  /\ UNCHANGED <<ops, nOps, cont, thrown, fresh, astray>>

Throw ==
  /\ Operation("throw")
  /\ Raise("raise")
  /\ UNCHANGED <<ops, pc, cont, side, thrown, fresh, astray, lost>>

\* An operation reports an interpreter error.
Fault ==
  /\ Operation("fault")
  /\ Fail
  /\ UNCHANGED <<ops, stackVars, runs, pc, target, cont, side, thrown, fresh, astray, lost>>

Shift ==
  /\ Operation("shift")
  /\ LET m == PromptIndex({"exception"})
     IN  IF m = 0
         THEN Fail /\ UNCHANGED <<rs, base, runs, target, cont>>
         ELSE /\ cont' = [slice |-> SubSeq(rs, m + 1, Len(rs)), offset |-> base - m,
                          pc |-> pc, of |-> rs[m].of]
              /\ UnwindTo(m, "raise")
  /\ UNCHANGED <<ops, pc, side, thrown, fresh, astray, lost>>

\* The slice goes back under a mark of its own, whose id is always 0; only
\* local_base is re-anchored.
Resume ==
  /\ Operation("resume")
  /\ cont # NoCont
  /\ LET below == rs \o <<Ret(Stop, cont.of), Mark("exception", 0, fresh, cont.of)>>
     IN  /\ rs' = below \o cont.slice
         /\ base' = IF cont.offset >= 0 THEN Len(below) + cont.offset ELSE base
  /\ runs' = Append(runs, Run("resume", Len(rs), TRUE, 0, 0, cont.of, 0))
  /\ pc' = cont.pc
  /\ Numbering(1)
  /\ UNCHANGED <<ops, mode, target, cont, side, thrown, historyVars>>

\* amb: a choice prompt, and the first branch under execute_xt.
Amb ==
  /\ Operation("amb")
  /\ rs' = rs \o <<Mark("choice", fresh, fresh, pc.act), Ret(Stop, fresh + 1)>>
  /\ runs' = Append(runs, Run("amb1", Len(rs) + 1, FALSE, Len(rs), fresh, fresh + 1, 0))
  /\ pc' = At("plain", fresh + 1, pc.env)
  /\ Numbering(2)
  /\ UNCHANGED <<ops, base, mode, target, cont, side, thrown, historyVars>>

\* fail, where an amb is open or anywhere.
Backtrack ==
  /\ \E op \in {"fail", "failToAmb"} :
       Operation(op) /\ (op = "failToAmb" => PromptIndex({"choice"}) # 0)
  /\ LET m == PromptIndex({"choice"})
     IN  IF m = 0
         THEN Fail /\ UNCHANGED <<rs, base, runs, target>>
         ELSE UnwindTo(m, "raise")
  /\ UNCHANGED <<ops, pc, cont, side, thrown, fresh, astray, lost>>

\* each and times over two elements: call_open, call_invoke.  The body is a
\* word without locals that ends with exit.
Combinator ==
  /\ \E op \in {"each", "times"} :
       /\ Operation(op)
       /\ runs' = Append(runs, Run(op, Len(rs), FALSE, 0, 0, fresh, 2))
  /\ pc' = At("plain", fresh, 0)
  /\ Numbering(1)
  /\ UNCHANGED <<ops, rs, base, mode, target, cont, side, thrown, historyVars>>

\* A pending collection, tick or trace sends the chain of operations back to
\* the run loop.
ReturnToLoop ==
  /\ InProgram
  /\ "gc" \in ops
  /\ ~Top.looped
  /\ runs' = Looping(runs)
  /\ UNCHANGED <<ops, nOps, stackVars, pc, mode, target, cont, side, thrown, fresh, historyVars>>

----------------------------------------------------------------------------
(* The run loop, and the C functions that called it when it ends.           *)

Delivered(uid) ==
  astray' = IF uid = aim.uid THEN astray ELSE aim.cause

\* The loop pops entries until it finds the prompt, then returns from the
\* word that set the prompt.
Unwind ==
  /\ mode = "unwinding" /\ ~lost
  /\ Len(rs) > Floor
  /\ LET entry == Last(rs)
         left == WithoutLocals(Prefix(rs, Len(rs) - 1), base)
     IN  IF entry.k = "mark" /\ entry.id = target
         THEN /\ Delivered(entry.uid)
              /\ base' = left.base
              /\ rs' = Prefix(left.rs, Len(left.rs) - 1)
              /\ GoTo(Last(left.rs), entry.of)
              /\ thrown' = TRUE
         ELSE /\ rs' = Prefix(rs, Len(rs) - 1)
              /\ UNCHANGED <<base, pc, mode, thrown, astray, lost>>
  /\ UNCHANGED <<ops, nOps, runs, target, cont, side, fresh, aim>>

\* catch_interpreter_error, which only a run loop calls, can use a prompt set
\* in its own activation.
Catchable ==
  LET m == PromptIndex({"catch"})
  IN  Top.looped /\ m > Floor /\ m < Len(rs)

\* Mutant: an error goes to any prompt that a throw goes to.
CatchInterpreterErrorAtReset ==
  /\ mode = "failed" /\ ~lost
  /\ Catchable
  /\ LET m == PromptIndex({"catch", "exception"})
     IN  Delivered(rs[m].uid) /\ UnwindTo(m, aim.cause)
  /\ UNCHANGED <<ops, nOps, pc, cont, side, thrown, fresh, lost>>

CatchInterpreterError ==
  /\ mode = "failed" /\ ~lost
  /\ Catchable
  /\ LET m == PromptIndex({"catch"})
     IN  Delivered(rs[m].uid) /\ UnwindTo(m, aim.cause)
  /\ UNCHANGED <<ops, nOps, pc, cont, side, thrown, fresh, lost>>

\* The innermost run loop has ended: its body stopped, or it does not hold
\* the prompt the stack unwinds to, or it does not catch the error.
RunEnds ==
  /\ ~lost
  /\ Len(runs) > 1
  /\ \/ mode = "stopped"
     \/ mode = "unwinding" /\ Len(rs) <= Floor
     \/ mode = "failed" /\ ~Catchable

\* The C function returns to the chain or loop that called it, with the error
\* or the unwinding if there is one.
ReturnFromRun(after) ==
  /\ mode' = IF after = "stopped" THEN "running" ELSE after
  /\ runs' = IF after = "unwinding" THEN Looping(PopRun) ELSE PopRun
  /\ pc' = Top.pc

\* After an error the code leaves local_base above rsp, and follows the headers
\* that are still in memory there when it next needs a base; here they are
\* followed at once.
AmbReturns ==
  /\ RunEnds /\ Top.op \in {"amb1", "amb2"}
  /\ Top.op = "amb1" /\ mode = "unwinding" => target # Top.id
  /\ IF Top.op = "amb1" /\ mode # "unwinding"
     THEN rs' = Prefix(rs, Top.at) /\ base' = BaseBelow(Top.at + 1)
     ELSE UNCHANGED <<rs, base>>
  /\ ReturnFromRun(mode)
  /\ UNCHANGED <<ops, nOps, target, cont, side, thrown, fresh, historyVars>>

\* Mutant: any unwinding out of the first branch starts the second.
SecondBranchOnAnyUnwind ==
  /\ RunEnds /\ Top.op = "amb1"
  /\ mode = "unwinding"
  /\ Delivered(Top.id)
  /\ rs' = Append(rs, Ret(Stop, fresh))
  /\ runs' = [runs EXCEPT ![Len(runs)] =
                [@ EXCEPT !.op = "amb2", !.floor = Len(rs), !.looped = FALSE, !.body = fresh]]
  /\ pc' = At("plain", fresh, Top.pc.env)
  /\ mode' = "running"
  /\ Numbering(1)
  /\ UNCHANGED <<ops, nOps, base, target, cont, side, thrown, aim, lost>>

\* A fail that chose this amb starts the second branch, from its depth.
SecondBranch ==
  /\ RunEnds /\ Top.op = "amb1"
  /\ mode = "unwinding" /\ target = Top.id
  /\ Delivered(Top.id)
  /\ rs' = Append(Prefix(rs, Top.at), Ret(Stop, fresh))
  /\ runs' = [runs EXCEPT ![Len(runs)] =
                [@ EXCEPT !.op = "amb2", !.floor = Top.at, !.looped = FALSE, !.body = fresh]]
  /\ pc' = At("plain", fresh, Top.pc.env)
  /\ mode' = "running"
  /\ Numbering(1)
  /\ UNCHANGED <<ops, nOps, base, target, cont, side, thrown, aim, lost>>

\* Mutant: the resumer keeps the locals frame the slice left.
ResumeReturnsKeepingBase ==
  /\ RunEnds /\ Top.op = "resume"
  /\ ReturnFromRun(mode)
  /\ UNCHANGED <<ops, nOps, stackVars, target, cont, side, thrown, fresh, historyVars>>

ResumeReturns ==
  /\ RunEnds /\ Top.op = "resume"
  /\ base' = Top.base
  /\ ReturnFromRun(mode)
  /\ UNCHANGED <<ops, nOps, rs, target, cont, side, thrown, fresh, historyVars>>

NextElement ==
  /\ RunEnds /\ Top.op \in {"each", "times"}
  /\ mode = "stopped" /\ Top.left > 1
  /\ runs' = [runs EXCEPT ![Len(runs)] =
                [@ EXCEPT !.left = Top.left - 1, !.looped = FALSE, !.body = fresh]]
  /\ pc' = At("plain", fresh, 0)
  /\ mode' = "running"
  /\ Numbering(1)
  /\ UNCHANGED <<ops, nOps, stackVars, target, cont, side, thrown, historyVars>>

\* times looks at error_flag alone: while the stack unwinds it begins its body
\* again for every element left, and the first operation of the body runs.  It
\* is the operation the body began with before, so a raise goes where it went
\* then (a shift captures again, now an empty slice), and what it pushes lies
\* above the prompt and is popped on the way there.  But it may fault: then the
\* error takes the place of the raise.
RestartBody ==
  /\ RunEnds /\ Top.op = "times"
  /\ mode = "unwinding" /\ Top.left > 1
  /\ runs' = [runs EXCEPT ![Len(runs)] = [@ EXCEPT !.left = Top.left - 1]]
  /\ cont' \in {cont} \cup
       {[slice |-> <<>>, offset |-> base - Len(rs), pc |-> At("plain", Top.body, 0),
         of |-> Last(rs).of] : op \in ops \cap {"shift"}}
  /\ \E faults \in {"fault" \in ops, FALSE} :
       IF faults THEN Fail /\ astray' = aim.cause ELSE UNCHANGED <<mode, aim, astray>>
  /\ UNCHANGED <<ops, nOps, stackVars, pc, target, side, thrown, fresh, lost>>

\* each checks what its quotation left before it looks at unwinding, so what a
\* throw or shift pushed is reported as the quotation's.
CombinatorReturns ==
  /\ RunEnds /\ Top.op \in {"each", "times"}
  /\ mode = "stopped" \/ (mode = "unwinding" /\ Top.op = "times") => Top.left = 1
  /\ LET masked == Top.op = "each" /\ mode = "unwinding"
     IN  /\ ReturnFromRun(IF masked THEN "failed" ELSE mode)
         /\ astray' = IF masked THEN aim.cause ELSE astray
  /\ UNCHANGED <<ops, nOps, stackVars, target, cont, side, thrown, fresh, aim, lost>>

\* The outermost loop ends: with an error if nothing caught it.
Finish ==
  /\ ~lost /\ Len(runs) = 1
  /\ mode = "stopped" \/ (mode = "failed" /\ ~Catchable)
  /\ mode' = "over"
  /\ astray' = IF mode = "stopped" \/ (mode = "failed" /\ aim.uid = 0) THEN astray ELSE aim.cause
  /\ UNCHANGED <<ops, nOps, stackVars, runs, pc, target, cont, side, thrown, fresh, aim, lost>>

Execute ==
  \/ Call \/ CallWithLocals \/ EndBody \/ EarlyExit
  \/ Reset \/ Throw \/ Shift \/ Resume \/ Fault
  \/ Catch \/ CatchEnd \/ Ensure \/ EnsureEnd
  \/ Amb \/ Backtrack \/ Combinator \/ ReturnToLoop

LoopEnds ==
  \/ Unwind \/ CatchInterpreterError
  \/ AmbReturns \/ SecondBranch \/ ResumeReturns
  \/ NextElement \/ RestartBody \/ CombinatorReturns
  \/ Finish

Next == Execute \/ LoopEnds \/ (mode = "over" /\ UNCHANGED vars)

Spec == Init /\ [][Next]_vars

----------------------------------------------------------------------------
Codes == {"plain", "locals", "catch", "ensure", "stop"}

TypeOK ==
  /\ ops \in Fragments
  /\ nOps \in 0 .. MaxOps
  /\ \A i \in DOMAIN rs : rs[i].k \in {"ret", "mark", "depth", "header", "local"}
  /\ base \in 0 .. Len(rs)
  /\ pc \in [code : Codes, act : Nat, env : Nat]
  /\ \A i \in DOMAIN runs : runs[i].floor \in Nat
  /\ mode = "running" => Floor <= Len(rs)
  /\ mode \in {"running", "stopped", "unwinding", "failed", "over"}
  /\ side \in Seq(Nat)
  /\ astray \in {"no", "raise", "error"}

\* continuations.md: after a reset whose region just ends, "EXIT pops the mark
\* (skip)" and "jumps to where guard was called from".  Whatever prompts and
\* locals frames lie on the stack, an activation that ends or is unwound goes
\* back to its own caller.
NeverLost == ~lost

\* continuations.md: "a slice captured mid-word restores its locals correctly
\* when resumed".  Code that has locals in scope always reads those of its own
\* activation, after calls, early exits, unwinding, catching and resuming.
LocalsRight ==
  mode = "running" /\ pc.env # 0 =>
    /\ base \in 1 .. (Len(rs) - 1)
    /\ rs[base + 1] = Local(pc.env)

\* continuations.md: "Because the cascade crosses nested run_inner levels, it
\* does not matter whether an execute or a combinator body sits between the
\* reset and the shift".  A throw, shift or fail reaches the prompt that was
\* nearest when it was raised, and nothing on the way reports it as an error.
RaiseReachesPrompt == astray # "raise"

\* reference.md: catch leaves "(exc 1) on a throw or an interpreter error".  An
\* interpreter error reaches the innermost catch around it, and ends the
\* program only when there is none.
ErrorReachesCatch == astray # "error"

\* The ensure activations that have not run their cleanup.
EnsureReturns(s) == {i \in 1 .. Len(s) : s[i].k = "ret" /\ s[i].to.code = "ensure"}
PendingEnsures ==
  {rs[i].to.act : i \in EnsureReturns(rs)} \cup (IF pc.code = "ensure" THEN {pc.act} ELSE {})

Increasing(s) == \A i, j \in 1 .. Len(s) : i < j => s[i] < s[j]

\* reference.md: ensure runs its cleanup "whether body-xt returns normally or
\* throws/errors".  The cleanups on the side stack are those of the ensures
\* still in progress, outermost first (activations are numbered as they are
\* entered), each found by its own, through any nesting of returns, throws,
\* resets and errors.
CleanupsPaired ==
  mode = "running" =>
    /\ {side[i] : i \in 1 .. Len(side)} = PendingEnsures
    /\ Increasing(side)

----------------------------------------------------------------------------
(* The inductive invariant.  The interpreter keeps its promises to programs *)
(* that combine its operations with some care.  Left out are continuations  *)
(* and the combinations with which TLC finds one broken within a few        *)
(* operations: a reset whose mark a locals frame or the body of a           *)
(* combinator leaves its region over, each with what raises in its body,    *)
(* times with what raises there and what may fault, a fail that passes an   *)
(* ensure, and an error that leaves amb or a combinator with a catch set    *)
(* inside it; and ensure within a combinator, whose body, begun again, can  *)
(* take the flag off the data stack that ensure looks at.                   *)

Bodies == {"each", "times"}
Raises == {"throw", "ensure", "fail", "failToAmb"}

Orderly(O) ==
  /\ O \cap {"shift", "resume", "resetAnywhere"} = {}
  /\ O \cap Bodies # {} => O \cap {"reset", "ensure"} = {}
  /\ "each" \in O \/ {"times", "fault"} \subseteq O => O \cap Raises = {}
  /\ "amb" \in O /\ O \cap {"fail", "failToAmb"} # {} => "ensure" \notin O
  /\ O \cap {"amb", "each", "times"} # {} /\ O \cap {"fault", "fail"} # {} =>
       O \cap {"catch", "ensure"} = {}

Places == [code : Codes, act : Nat, env : Nat]
Entries ==
  [k : {"ret"}, to : Places, of : Nat]
    \cup [k : {"mark"}, kind : {"exception", "catch", "choice"}, id : Nat, uid : Nat, of : Nat]
    \cup {Depth} \cup [k : {"header"}, saved : Nat] \cup [k : {"local"}, act : Nat]

\* b is the header of the innermost locals frame among the first n entries.
Innermost(s, b, n) ==
  /\ b \in 0 .. n
  /\ b # 0 => s[b].k = "header"
  /\ \A i \in b + 1 .. n : s[i].k # "header"

\* What may run when n entries are on the stack: the activation that the top
\* entry belongs to, with the locals of the innermost frame.
RunsOn(s, at, n) ==
  /\ at.env # 0 => \E b \in 1 .. n - 1 : Innermost(s, b, n) /\ s[b + 1] = Local(at.env)
  /\ \/ s[n].k = "ret" /\ at.code \in {"plain", "ensure"} /\ at.act = s[n].of
     \/ s[n].k = "mark" /\ s[n].kind = "exception" /\ at.code = "plain" /\ at.act = s[n].of
     \/ s[n].k = "depth" /\ at.code = "catch" /\ n > 1 /\ at.act = s[n - 1].of
     \/ s[n].k = "local" /\ at.code = "locals" /\ at.act = s[n].act /\ at.env = at.act

\* The same in run loop r.  The body of a combinator pushes no return, so it
\* starts and ends at the floor of its loop.
RunsIn(s, r, at, n) ==
  IF r.op \in Bodies /\ n = r.floor THEN at = At("plain", r.body, 0)
  ELSE n > r.floor /\ RunsOn(s, at, n)

\* What an entry says of those below it.
Supported(s, i) ==
  /\ s[i].k = "mark" /\ s[i].kind # "choice" => i > 1 /\ s[i - 1].k = "ret" /\ s[i - 1].of = s[i].of
  /\ s[i].k = "depth" => i > 1 /\ s[i - 1].k = "mark" /\ s[i - 1].kind = "catch"
  /\ s[i].k = "header" => i > 1 /\ s[i - 1].k = "ret" /\ Innermost(s, s[i].saved, i - 1)
  /\ s[i].k = "local" => i > 2 /\ s[i - 1].k = "header" /\ s[i - 2].of = s[i].act

\* Where a return leads, and whose a choice is.  The first return above the
\* floor of a run loop leads out of it or back into the body of its combinator.
Leads(s, rr, i) ==
  /\ s[i].k = "ret" /\ i = 1 => s[i] = Ret(Stop, 1)
  /\ s[i].k = "ret" /\ i # 1 /\ (\A k \in 2 .. Len(rr) : rr[k].floor # i - 1) => RunsOn(s, s[i].to, i - 1)
  /\ s[i].k = "ret" => \A k \in 2 .. Len(rr) :
       rr[k].floor = i - 1 /\ (\A j \in k + 1 .. Len(rr) : rr[j].floor # i - 1) =>
         IF rr[k].op \in Bodies THEN s[i].to = At("plain", rr[k].body, 0) ELSE s[i] = Ret(Stop, rr[k].body)
  /\ s[i].k = "mark" /\ s[i].kind = "choice" =>
       \E k \in 2 .. Len(rr) : rr[k].op = "amb1" /\ rr[k].floor = i /\ rr[k].id = s[i].id

\* What always comes next on the stack, except at a prompt just unwound to.
Followed(s, i) ==
  /\ s[i].k = "header" => i < Len(s) /\ s[i + 1].k = "local"
  /\ i \in EnsureReturns(s) => i < Len(s) /\ s[i + 1].k = "mark" /\ s[i + 1].kind = "catch"

\* Activations and marks are numbered upwards.
Numbered(s, n) ==
  /\ \A i \in 1 .. Len(s) : s[i].k = "ret" =>
       /\ 0 < s[i].of /\ s[i].of < n
       /\ \A j \in i + 1 .. Len(s) : s[j].k = "ret" => s[i].of < s[j].of
  /\ \A i \in 1 .. Len(s) : s[i].k = "mark" => s[i].id < n /\ s[i].uid = s[i].id

WellFormed(s, n) ==
  /\ s \in Seq(Entries)
  /\ \A i \in 1 .. Len(s) : Supported(s, i) /\ Followed(s, i)
  /\ Numbered(s, n)

IsCatch(s, i) == s[i].k = "mark" /\ s[i].kind = "catch"
IsChoice(s, i) == s[i].k = "mark" /\ s[i].kind = "choice"

\* Where the stack ends when run loop r returns to the code that called it.
Bottom(r) == IF r.op \in Bodies THEN r.floor ELSE r.at

Loops ==
  [op : {"top", "amb1", "amb2"} \cup Bodies, floor : Nat, looped : BOOLEAN, at : Nat, id : Nat,
   body : Nat, left : Nat, pc : Places, base : Nat]

\* Run loop r, called from run loop q, on stack s.
Nests(s, q, r) ==
  /\ r.op # "top" /\ r.pc.code \in {"plain", "locals"}
  /\ r.op = "amb1" => r.floor = r.at + 1 /\ (r.floor <= Len(s) => IsChoice(s, r.floor))
  /\ r.op = "amb2" => r.floor = r.at
  /\ IF q.op \in Bodies THEN q.floor <= Bottom(r) ELSE q.floor < Bottom(r)
  /\ Bottom(r) <= Len(s) => RunsIn(s, q, r.pc, Bottom(r))
  /\ r.op = "amb1" => \A i \in 1 .. Len(s) : i < r.floor /\ s[i].k = "mark" => s[i].id # r.id
  /\ r.op \in Bodies /\ r.floor <= Len(s) => s[r.floor].k # "mark"
  /\ r.floor < Len(s) => s[r.floor + 1].k = "ret" \/ (r.op \in Bodies /\ IsChoice(s, r.floor + 1))

Outermost ==
  [op |-> "top", floor |-> 0, looped |-> TRUE, at |-> 0, id |-> 0, body |-> 1,
   left |-> 0, pc |-> Stop, base |-> 0]

CatchIndex == PromptIndex({"catch"})
CatchUid == IF CatchIndex = 0 THEN 0 ELSE rs[CatchIndex].uid

\* After an error the loops that end leave above their floors what they find
\* there; nothing looks at it before a catch or a choice takes it away.
RunsInv ==
  /\ runs \in Seq(Loops) /\ runs # <<>> /\ runs[1] = Outermost
  /\ \A k \in 2 .. Len(runs) : Nests(rs, runs[k - 1], runs[k])
  /\ \A i \in 1 .. Len(rs) :
       mode \notin {"failed", "over"} \/ i <= Floor \/ i <= CatchIndex => Leads(rs, runs, i)

\* What the operations of the fragment can have left.
OpsInv ==
  /\ \A k \in 2 .. Len(runs) : (IF runs[k].op \in Bodies THEN runs[k].op ELSE "amb") \in ops
  /\ \A i \in 1 .. Len(rs) : rs[i].k = "mark" /\ rs[i].kind = "exception" => "reset" \in ops
  /\ side # <<>> => "ensure" \in ops
  /\ ops \cap {"fault", "fail"} # {} \/ mode = "failed" =>
       \A i \in 1 .. Len(rs), k \in 2 .. Len(runs) : IsCatch(rs, i) => i <= runs[k].floor

\* A run loop that hands on an unwinding.
LetsThrough(r) == r.op # "each" /\ (r.op = "times" => "fault" \notin ops)

ControlInv ==
  /\ mode = "running" => rs # <<>> /\ RunsIn(rs, Top, pc, Len(rs))
  /\ mode = "stopped" => Len(rs) = Floor
  /\ mode = "failed" =>
       /\ aim.uid = CatchUid
       /\ rs # <<>> => ~IsCatch(rs, Len(rs))
       /\ IF Top.op \in Bodies THEN Floor <= Len(rs) ELSE Floor < Len(rs)
  /\ mode = "unwinding" =>
       /\ rs # <<>> /\ rs[Len(rs)].k = "mark" /\ rs[Len(rs)].id = target /\ rs[Len(rs)].uid = aim.uid
       /\ \A k \in 2 .. Len(runs) : LetsThrough(runs[k])
  /\ astray = "no" /\ ~lost

SideInv ==
  /\ side \in Seq(Nat) /\ Increasing(side)
  /\ {side[i] : i \in 1 .. Len(side)} =
       {rs[i].to.act : i \in EnsureReturns(rs)}
         \cup (IF mode = "running" /\ pc.code = "ensure" THEN {pc.act} ELSE {})

ProgramInv ==
  /\ fresh \in Nat \ {0} /\ pc \in Places /\ nOps \in 0 .. MaxOps
  /\ mode \in {"running", "stopped", "unwinding", "failed", "over"}
  /\ WellFormed(rs, fresh) /\ Innermost(rs, base, Len(rs))
  /\ RunsInv /\ OpsInv /\ ControlInv /\ SideInv

IInv == TypeOK /\ (Orderly(ops) => ProgramInv)
=============================================================================
