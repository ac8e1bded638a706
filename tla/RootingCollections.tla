------------------------- MODULE RootingCollections -------------------------
(***************************************************************************)
(* The primitives of collections.c that handle sets, arrays, frames and    *)
(* JSON, in the steps of RootSteps.  A literal's mark counts as an operand.*)
(***************************************************************************)
EXTENDS RootSteps

(* Sets.  Every search and every merge compares elements.                  *)
Search(set, value) == Loop(Part("item", set) \o Compare("item", value))

set_add(set, value) == Search(set, value) \o Maybe(Store(value, set))
set_member(set, value) == Search(set, value)
set_remove(set, value) == Search(set, value)

set_union ==
    New("combined") \o Loop(Part("left_item", "left") \o Part("item", "right")
                            \o Compare("left_item", "item") \o Store("item", "combined"))
    \o Loop(Part("item", "left") \o Store("item", "combined"))

set_intersect ==
    New("combined") \o Loop(Part("left_item", "left") \o Part("item", "right")
                            \o Compare("left_item", "item") \o Maybe(Store("left_item", "combined")))

set_difference == set_intersect

BinarySetOp(combine) ==
    PeekTyped("left", 1) \o PeekTyped("right", 0) \o Sub(combine) \o ErrRet \o Leave(2, "combined")

p_union == BinarySetOp(set_union)
p_intersect == BinarySetOp(set_intersect)
p_difference == BinarySetOp(set_difference)

(* The new set holds nothing until its values are copied and sorted.       *)
build_set_from_values ==
    New("set") \o Loop(Part("one", "values") \o Part("item", "values") \o Compare("one", "item"))
    \o Loop(Part("item", "values") \o Store("item", "set"))

p_array_to_set == PeekTyped("values", 0) \o Sub(build_set_from_values) \o ErrRet \o Leave(1, "set")
p_frame_key_set ==
    PeekTyped("frame", 0) \o Check \o New("set") \o Loop(Use("frame"))
    \o ErrRet \o Leave(1, "set")

p_setclose ==
    Peek("one", 1) \o Peek("item", 0) \o Sub(New("set") \o Compare("one", "item")
        \o Store("one", "set") \o Maybe(Store("item", "set"))) \o ErrRet \o Leave(3, "set")
p_set == Check \o p_setclose

p_set_add == PeekTyped("set", 1) \o Peek("value", 0) \o set_add("set", "value") \o ErrRet \o Drop(1)
p_set_remove == PeekTyped("set", 1) \o Peek("value", 0) \o set_remove("set", "value") \o ErrRet \o Drop(1)

p_member ==
    PeekTyped("set", 1) \o Peek("elements", 0)
    \o Either(New("mask") \o Loop(Part("element", "elements") \o set_member("set", "element"))
                \o ErrRet \o Leave(2, "mask"),
              Maybe(set_member("set", "elements")) \o ErrRet \o LeavePlain(2))

p_position_of ==
    Peek("target", 0) \o Peek("collection", 1)
    \o Either(Check, Search("collection", "target")) \o ErrRet \o LeavePlain(2)

(* Arrays.                                                                 *)
p_array_close ==
    NewVector("array") \o Peek("one", 1) \o Peek("item", 0) \o Store("one", "array")
    \o Store("item", "array") \o Written("array") \o Leave(3, "array")
p_array == Check \o p_array_close
p_array_lit == p_array_close

p_array_of ==
    Check \o NewVector("array") \o Peek("value", 1) \o Loop(Store("value", "array"))
    \o Written("array") \o Leave(2, "array")
p_take == Check \o PeekTyped("source", 1) \o NewVector("result") \o CopyParts("source", "result") \o Leave(2, "result")
p_reverse == PeekTyped("source", 0) \o NewVector("result") \o CopyParts("source", "result") \o Leave(1, "result")
p_concat ==
    PeekTyped("b", 0) \o PeekTyped("a", 1) \o NewVector("result")
    \o CopyParts("a", "result") \o CopyParts("b", "result") \o Leave(2, "result")
p_flatten_array ==
    PeekTyped("arrays", 0)
    \o Maybe(Check \o NewVector("destination")
             \o Loop(Part("item", "arrays") \o Maybe(Part("item", "item")) \o Store("item", "destination"))
             \o Written("destination") \o Leave(1, "destination"))
p_sample ==
    PeekTyped("source", 2) \o Check
    \o Either(New("sampled"), Check \o NewVector("sampled") \o Check \o CopyParts("source", "sampled"))
    \o Leave(3, "sampled")
p_range == Check \o NewVector("result") \o Written("result") \o Leave(2, "result")
p_int_segment == Check \o New("segment") \o Leave(1, "segment")
p_add_last == PeekTyped("array", 1) \o Peek("value", 0) \o Store("value", "array") \o Drop(1)
p_remove_last == PeekTyped("array", 0) \o Check \o Part("last", "array") \o Leave(1, "last")
p_spread == PeekTyped("source", 0) \o Check \o Drop(1) \o Loop(Part("item", "source") \o Push("item"))
p_slice_store ==
    Check \o PeekTyped("target", 1) \o PeekTyped("source", 5) \o Check
    \o Loop(Part("item", "source") \o Store("item", "target")) \o Leave(6, "target")
p_to_slice ==
    Check \o PeekTyped("target", 1) \o Check \o Peek("value", 3) \o Store("value", "target") \o Leave(4, "target")

(* set_elements_copy, array_sorted_copy, array_argsort_copy: the copy is   *)
(* in no root while its elements are compared.                             *)
array_sorted_copy ==
    NewVector("sorted") \o CopyParts("source", "sorted")
    \o Loop(Part("one", "sorted") \o Part("item", "sorted") \o Compare("one", "item"))
    \o Use("sorted")
array_argsort_copy ==
    NewVector("sorted") \o Check \o Loop(Part("one", "source") \o Part("item", "source") \o Compare("one", "item"))
    \o Written("sorted")
set_elements_copy == NewVector("sorted") \o CopyParts("source", "sorted")
==============================================================================
