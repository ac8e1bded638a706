-------------------------- MODULE RootingFunctional --------------------------
(***************************************************************************)
(* The combinators of functional.c, in the steps of RootSteps.             *)
(***************************************************************************)
EXTENDS RootSteps

(* An element of the sequence in register s pushed and the callable xt run *)
(* on it (call_step, call_one_result).                                     *)
PushElement(s) == Part("element", s) \o Push("element")

(* A mapped result: written with zeros before anything can run.            *)
MappedResult == NewVector("result") \o Written("result") \o Root("result")

p_map ==
    PopTyped("xt") \o PeekTyped("source", 0) \o MappedResult \o CallOpen("xt")
    \o Loop(PushElement("source") \o Call("xt", 1, 1) \o ErrBreak
            \o Pop("value") \o Store("value", "result"))
    \o CallClose \o Unroot \o ErrRet \o Leave(1, "result")

p_each ==
    PopTyped("xt") \o PeekTyped("source", 0) \o CallOpen("xt")
    \o Loop(PushElement("source") \o Call("xt", 1, 0) \o ErrBreak)
    \o CallClose \o ErrRet \o Drop(1)

(* Two sources stand for the arity of nmap.                                *)
p_nmap ==
    PopTyped("arity") \o Check \o PopTyped("xt") \o Check
    \o PeekTyped("first", 1) \o PeekTyped("second", 0) \o Check \o MappedResult \o CallOpen("xt")
    \o Loop(PushElement("first") \o PushElement("second") \o Call("xt", 2, 1) \o ErrBreak
            \o Pop("value") \o Store("value", "result"))
    \o CallClose \o Unroot \o ErrRet \o Leave(2, "result")

p_filter ==
    PopTyped("xt") \o PeekTyped("source", 0) \o Check \o CallOpen("xt")
    \o Loop(PushElement("source") \o Call("xt", 1, 1) \o ErrBreak \o Pop("verdict"))
    \o CallClose \o ErrRet \o NewVector("result")
    \o CopyParts("source", "result") \o Leave(1, "result")

p_find_first ==
    PopTyped("pred") \o PeekTyped("source", 0) \o CallOpen("pred") \o Nothing("found")
    \o Loop(PushElement("source") \o Call("pred", 1, 1) \o ErrBreak \o Pop("verdict")
            \o Maybe(Part("found", "source") \o Break))
    \o CallClose \o ErrRet \o Leave(1, "found")

p_reduce ==
    PopTyped("combiner") \o Pop("result") \o PeekTyped("source", 0) \o CallOpen("combiner")
    \o Maybe(CallClose \o Reject)
    \o Loop(Push("result") \o PushElement("source") \o Call("combiner", 2, 1) \o ErrBreak
            \o Pop("result"))
    \o CallClose \o ErrRet \o Pop("source") \o Push("result")

(* The counted loops: on the fast path a trampoline runs the callable and  *)
(* the context is closed; otherwise (tracing, or a word the trampoline     *)
(* cannot run) the target's code is executed and nothing is closed.        *)
CountedLoop(perRound, takes) ==
    PopTyped("n") \o PopTyped("xt") \o Check
    \o Either(CallOpen("xt") \o Loop(perRound \o Call("xt", takes, 0) \o ErrBreak) \o CallClose,
              CallOpen("xt") \o Loop(perRound \o CallBare("xt", takes, 0) \o ErrBreak))

p_times == CountedLoop(<<>>, 0)
p_i_times == CountedLoop(PushPlain, 1)

p_fold_times ==
    PopTyped("n") \o PopTyped("combiner") \o PopTyped("mapper") \o Pop("accumulator") \o Check
    \o CallOpen("mapper") \o Maybe(CallClose \o Reject)
    \o Loop(PushPlain \o Call("mapper", 1, 1) \o ErrBreak \o Pop("term")
            \o Push("accumulator") \o Push("term") \o CallBare("combiner", 2, 1) \o ErrBreak
            \o Pop("accumulator"))
    \o CallClose \o ErrRet \o Push("accumulator")

(* The serial part of the parallel words: no collection of the             *)
(* interpreter's heap runs inside the region itself.                       *)
p_pmap ==
    Check \o PopTyped("function") \o PopTyped("claim") \o PopTyped("workers") \o PeekTyped("domain", 0)
    \o MappedResult \o Use("function") \o Use("domain") \o Unroot \o Check \o Leave(1, "result")

p_pmap_reduce ==
    Check \o PopTyped("combine") \o PopTyped("map") \o Pop("identity") \o PopTyped("claim")
    \o PopTyped("workers") \o PeekTyped("domain", 0)
    \o Root("identity") \o NewVector("partials") \o Store("identity", "partials")
    \o Written("partials") \o Root("partials") \o Use("map") \o Use("combine") \o Use("domain")
    \o Maybe(Unroot \o Unroot \o Reject)
    \o Root("combine") \o Push("identity")
    \o Loop(Part("element", "partials") \o Push("element") \o Call("combine", 2, 1)
            \o OnError(Unroot \o Unroot \o Unroot \o Ret))
    \o Pop("result") \o Unroot \o Unroot \o Unroot \o Leave(1, "result")
==============================================================================
