-------------------------- MODULE RootingIndexing --------------------------
(***************************************************************************)
(* Element access of indexing.c, in the steps of RootSteps.  A row of a    *)
(* matrix is made while the operands are still below interp->dsp; when the *)
(* matrix carries a unit they are dropped before the row is given its      *)
(* unit.  An operand a fused operation takes from a local stands in the    *)
(* model as a value of the stack that the operation leaves alone: the      *)
(* return stack is marked as the data stack is.                            *)
(***************************************************************************)
EXTENDS RootSteps, RootingArithmetic

(* drops: how far below the top the element goes.                          *)
array_index_fetch(drops) ==
    Maybe(Part("source", "source"))
    \o Choice(<<
         Check \o Part("item", "source") \o Leave(drops, "item"),
         Check \o New("row") \o Use("source") \o Either(Drop(drops) \o push_quantity("row") \o ErrRet, Leave(drops, "row")),
         Check \o Use("source") \o LeavePlain(drops),
         Reject>>)

p_at_i_array == Peek("source", 1) \o Either(Check \o Part("item", "source") \o Leave(2, "item"), array_index_fetch(2))
p_at_i_segment == Peek("source", 1) \o Either(Check \o Use("source") \o LeavePlain(2), array_index_fetch(2))
p_at_i == Check \o Peek("source", 1) \o array_index_fetch(2)
p_at_i_local0 == Peek("source", 0) \o array_index_fetch(1)
p_at_i_swap_local0 == Check \o Peek("source", 1) \o array_index_fetch(1)
p_at_i_depth_top == Check \o Peek("source", 1) \o array_index_fetch(1)
p_at_i_depth == Check \o Peek("source", 1) \o array_index_fetch(0)
p_at_i_lit == Peek("source", 0) \o array_index_fetch(1)
p_at_i_lit_local0 == Peek("source", 0) \o array_index_fetch(0)
p_at_i_ll0 == Peek("source", 0) \o array_index_fetch(0)
p_gather_local0 ==
    Peek("indices", 0) \o Peek("source", 1) \o Check \o Maybe(Part("item", "indices") \o Check) \o array_index_fetch(2)

(* A value stored in an array is reached from the array from then on.      *)
array_element_store ==
    Peek("target", 2) \o Peek("value", 1) \o Check \o Either(Store("value", "target"), Use("target"))
array_element_store_fast == Peek("target", 2) \o Peek("value", 1) \o Check \o Store("value", "target")
STORE_I_ARRAY_OP(n) == Either(array_element_store_fast, array_element_store) \o Drop(n)
STORE_I_OP(n) == array_element_store \o Drop(n)
p_store_i == STORE_I_OP(2)
p_store_i_drop == STORE_I_OP(3)
p_store_i_array == STORE_I_ARRAY_OP(2)
p_store_i_drop_array == STORE_I_ARRAY_OP(3)

ARRAY_INPLACE_OP(n) == Peek("target", n - 1) \o Check \o Use("target") \o Drop(n)
p_inc_store_i == ARRAY_INPLACE_OP(1)
p_add_store_i == ARRAY_INPLACE_OP(2)
==============================================================================
