---------------------------- MODULE RootingLogic ----------------------------
(***************************************************************************)
(* The words of logic.c, in the steps of RootSteps: what unification and   *)
(* the two branches of amb hold while they allocate.  The variable stack   *)
(* is marked; in the model it is the value the caller keeps.               *)
(***************************************************************************)
EXTENDS RootSteps

p_lvar == Check \o PushPlain
bind_var(value) == Store(value, "vars")
deref(value) == Maybe(Part(value, "vars"))

(* The rest of the subject, made while the pair it is a part of is rooted, *)
(* is bound at once.                                                       *)
unify_rest(pattern, subject) ==
    Root(pattern) \o Root(subject) \o AllocVector("remaining") \o Unroot \o Unroot \o ErrRet
    \o CopyParts(subject, "remaining") \o bind_var("remaining")

(* Two elements of the terms; and the terms, which hold them.              *)
unify_elements ==
    Part("left_item", "left") \o Part("right_item", "right")
    \o Choice(<<bind_var("left_item"), bind_var("right_item"), Check \o unify_rest("left_item", "right_item"),
                Compare("left_item", "right_item"), Ret>>)
unify_depth ==
    Choice(<<bind_var("left"), bind_var("right"), Check \o unify_rest("left", "right"),
             Loop(unify_elements), Compare("left", "right"), <<>>>>)
unify == Sub(unify_depth)

(* Without success the word ends in a jump to a choice or in an error.     *)
unify_outcome == ErrRet \o Maybe(Use("left") \o Use("right") \o Reject) \o deref("left") \o Push("left")

p_unify == Peek("right", 0) \o Peek("left", 1) \o Drop(2) \o Peek("vars", 0) \o unify \o unify_outcome
p_matches == Peek("right", 0) \o Peek("left", 1) \o Peek("vars", 2) \o unify \o ErrRet \o LeavePlain(2)
p_unify_keep == p_matches
p_deref == Peek("value", 0) \o Peek("vars", 1) \o deref("value") \o Leave(1, "value")

(* The first branch ends, or fails back to the choice and the second runs  *)
(* in its place.                                                           *)
p_amb ==
    PopTyped("branch2") \o PopTyped("branch1") \o Root("branch1") \o Root("branch2")
    \o Sub(Either(Call("branch1", 0, 1), Call("branch1", 0, 0) \o ErrRet \o Call("branch2", 0, 1)))
    \o Unroot \o Unroot

p_rest == Peek("variable", 0) \o Check \o LeavePlain(1)
p_wildcard == PushPlain
==============================================================================
