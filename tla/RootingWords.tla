---------------------------- MODULE RootingWords ----------------------------
(***************************************************************************)
(* The words of words.c that move, bind, print, sort and describe values,  *)
(* in the steps of RootSteps.                                              *)
(***************************************************************************)
EXTENDS RootSteps, RootingCollections

p_dup == Peek("a", 0) \o Push("a")
p_drop == Drop(1)
p_swap == Pop("top") \o Pop("below") \o Push("top") \o Push("below")
p_over == Peek("a", 1) \o Push("a")
p_nip == Pop("top") \o Leave(1, "top")
p_rot == Pop("c") \o Pop("b") \o Pop("a") \o Push("b") \o Push("c") \o Push("a")
p_depth == PushPlain
(* pick and roll for a depth of one.                                       *)
p_pick == PeekTyped("depth", 0) \o Check \o Drop(1) \o Peek("picked", 1) \o Push("picked")
p_pick_n == Check \o Peek("picked", 1) \o Push("picked")
p_roll == PeekTyped("depth", 0) \o Check \o Drop(1) \o Pop("top") \o Pop("rolled") \o Push("top") \o Push("rolled")

PrintTop == Peek("value", 0) \o Use("value") \o Drop(1)
p_dot == PrintTop
p_dot_all == PrintTop
p_see == PeekTyped("value", 0) \o Use("value") \o Drop(1)
p_apropos == p_see
p_emit_ == PeekTyped("code", 0) \o Check \o Drop(1)
p_dots == Loop(Peek("value", 0) \o Use("value"))

(* Text is gathered outside the heap before the string is made.            *)
RenderTop == Peek("value", 0) \o Use("value") \o Check \o New("text") \o Leave(1, "text")
p_render == RenderTop
p_see_to_string == Check \o RenderTop
p_telic_version == New("text") \o Push("text")

Truth == Peek("value", 0) \o Use("value")
p_zeq == Truth \o LeavePlain(1)
p_not == Truth \o LeavePlain(1)
p_and == Peek("left", 1) \o Peek("right", 0) \o Use("left") \o Use("right") \o LeavePlain(2)
p_or == p_and
p_zeq_zbranch == Truth \o Drop(1)
p_null == PushPlain
p_type_of == Truth \o Loop(Part("value", "value")) \o LeavePlain(1)
p_null_ == p_type_of
p_size == Truth \o Maybe(Part("value", "value")) \o Check \o LeavePlain(1)
p_size_len == Truth \o LeavePlain(1)

(* A token that binds values; a bound token's own bindings are taken over. *)
curried_new(target, first, second) ==
    New("curried") \o Either(Store(target, "curried"), Loop(Part("item", target) \o Store("item", "curried")))
    \o Store(first, "curried") \o Store(second, "curried")
p_curry ==
    Peek("xt", 0) \o Check \o Peek("one", 1) \o Copy("two", "one") \o curried_new("xt", "one", "two") \o Leave(2, "curried")
p_2curry ==
    Peek("xt", 0) \o Check \o Peek("one", 1) \o Peek("two", 2) \o curried_new("xt", "one", "two") \o Leave(3, "curried")
p_ncurry ==
    PeekTyped("count", 0) \o Check \o Peek("xt", 1) \o Check \o Peek("one", 2) \o Peek("two", 3)
    \o curried_new("xt", "one", "two") \o Leave(4, "curried")

(* The code of a callable that runs is not the collector's: only the token *)
(* and what it binds are, and the bindings are on the stack by then.       *)
p_execute == PopTyped("xt") \o Loop(Part("binding", "xt") \o Push("binding") \o Break) \o Check

vector_sorted_copy == New("sorted") \o Use("collection")
p_sort ==
    Peek("collection", 0) \o Choice(<<
      Copy("source", "collection") \o Sub(array_sorted_copy) \o ErrRet \o Leave(1, "sorted"),
      Copy("source", "collection") \o Sub(set_elements_copy) \o ErrRet \o Leave(1, "sorted"),
      Sub(vector_sorted_copy) \o ErrRet \o Leave(1, "sorted"),
      Part("collection", "collection") \o Sub(vector_sorted_copy) \o ErrRet \o Drop(1)
        \o Root("sorted") \o Alloc("quantity") \o Unroot \o ErrRet \o Store("sorted", "quantity") \o Push("quantity"),
      Reject>>)
p_argsort ==
    Peek("collection", 0) \o Choice(<<
      Copy("source", "collection") \o Sub(array_argsort_copy) \o ErrRet \o Leave(1, "sorted"),
      Maybe(Part("collection", "collection")) \o Check \o Sub(vector_sorted_copy) \o ErrRet \o Leave(1, "sorted")>>)

(* The list of globals is cleared and rooted before its entries are made.  *)
p_globals_counted ==
    NewVector("bindings") \o Root("bindings")
    \o Loop(Maybe(Fail) \o OnError(Unroot \o Ret) \o AllocVector("binding") \o OnError(Unroot \o Ret)
            \o Nothing("value") \o Store("value", "binding") \o Written("binding") \o Store("binding", "bindings"))
    \o Written("bindings") \o Unroot \o Push("bindings")
p_globals ==
    NewVector("bindings") \o Written("bindings") \o Root("bindings")
    \o Loop(Maybe(Fail) \o OnError(Unroot \o Ret) \o AllocVector("binding") \o OnError(Unroot \o Ret)
            \o Nothing("value") \o Store("value", "binding") \o Written("binding") \o Store("binding", "bindings"))
    \o Unroot \o Push("bindings")

(* Help: a string is made, its key interned, and the frame takes it.       *)
help_put(frame) == Sub(New("text") \o Maybe(Fail) \o Store("text", frame))
p_man ==
    PeekTyped("target", 0) \o Choice(<<
      New("description") \o Root("description") \o New("frame") \o Root("frame")
        \o help_put("frame") \o help_put("frame") \o Use("description") \o help_put("frame")
        \o Unroot \o Unroot \o Leave(1, "frame"),
      New("frame") \o Root("frame") \o help_put("frame") \o help_put("frame") \o help_put("frame")
        \o Unroot \o Leave(1, "frame"),
      LeavePlain(1),
      New("frame") \o Root("frame") \o help_put("frame") \o help_put("frame") \o help_put("frame")
        \o Maybe(help_put("frame") \o help_put("frame") \o help_put("frame"))
        \o Maybe(AllocVector("examples") \o OnError(Unroot \o Ret) \o Written("examples") \o Root("examples")
                 \o Loop(Alloc("example") \o OnError(Unroot \o Unroot \o Ret) \o Store("example", "examples")
                         \o help_put("example") \o OnError(Unroot \o Unroot \o Ret)
                         \o help_put("example") \o OnError(Unroot \o Unroot \o Ret))
                 \o Store("examples", "frame") \o Unroot)
        \o Unroot \o Leave(1, "frame")>>)

p_edit == Check \o New("source") \o Check \o Use("source") \o Check \o Use("source")
p_colors ==
    New("frame") \o Root("frame") \o Loop(Maybe(Fail) \o ErrBreak \o Use("frame")) \o Unroot \o ErrRet \o Push("frame")

(* format: the template is off the stack; its text and the values it names *)
(* are read before the result is made, and those values leave the stack.   *)
interp_render_val(value) == Use(value) \o Maybe(Fail)
interp_render_with_spec(value) == Either(Fail, interp_render_val(value))
interpolate ==
    Use("template") \o Check
    \o Loop(Use("template") \o Maybe(Fail \o Alloc("text") \o Ret)
            \o Peek("value", 0) \o Either(interp_render_val("value"), interp_render_with_spec("value")))
    \o OnError(Alloc("text") \o Ret) \o Drop(1) \o Alloc("text")
p_format == PopTyped("template") \o Sub(interpolate) \o ErrRet \o Push("text")

p_seed == PeekTyped("seed", 0) \o Drop(1)
p_random == PushPlain
p_random_int == PeekTyped("bound", 0) \o Check \o LeavePlain(1)
p_resample_indices_ext ==
    PeekTyped("seed", 0) \o PeekTyped("count", 1) \o Check \o NewVector("indices") \o Written("indices") \o Leave(2, "indices")
p_tick_every == PeekTyped("seconds", 0) \o Check \o Drop(1)
==============================================================================
