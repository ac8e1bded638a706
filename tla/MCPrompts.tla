------------------------------ MODULE MCPrompts ------------------------------
(* Prompts for TLC: fragments of the language in which the interpreter keeps *)
(* its promises.  The other runs name the operation that breaks one.         *)
EXTENDS Prompts

\* A quotation under catch is a call without locals, too.
Frames == {"locals", "exit"}
Words == Frames \cup {"call"}

FragmentsDef ==
  {Frames \cup {"catch", "reset", "ensure", "throw", "fault"},
   Frames \cup {"catch", "throw", "amb", "failToAmb", "gc"},
   Words \cup {"catchTop", "amb", "fail", "fault"},
   {"call", "flatLocals", "catch", "reset", "shift", "resume", "throw", "fault"},
   Words \cup {"catchTop", "throw", "times"},
   Words \cup {"catchTop", "times", "fault"},
   Words \cup {"catchTop", "each", "fault"}}

\* Six in which it breaks one of them: an amb between a catch and an error, a
\* slice that holds a locals frame, a shift out of the body of each, a throw out
\* of a body that times begins again, a reset whose region ends inside a locals
\* frame, and a shift to the second of two resets in one word.
BrokenFragmentsDef ==
  {{"catch", "amb", "fault"},
   {"call", "locals", "reset", "shift", "resume"},
   {"reset", "each", "shift"},
   {"catchTop", "times", "throw", "fault"},
   {"resetAnywhere", "locals"},
   {"resetAnywhere", "shift"}}

\* continuations.md and reference.md: what is said above of returns, locals,
\* raises and errors, of the whole language.
PromisesKept == NeverLost /\ LocalsRight /\ RaiseReachesPrompt /\ ErrorReachesCatch
=============================================================================
