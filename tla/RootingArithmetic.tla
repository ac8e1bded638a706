-------------------------- MODULE RootingArithmetic --------------------------
(***************************************************************************)
(* The arithmetic words of words.c and dimension.c over floats, matrices,  *)
(* exact and complex numbers and quantities, in the steps of RootSteps.    *)
(* Some work on operands that stay on the data stack, some take them off   *)
(* first; the helpers they share must be right for both.                   *)
(***************************************************************************)
EXTENDS RootingNumbers, RootingCollections

complex_from_parts(d) == Sub(Nothing(d) \o Check \o Alloc(d))
push_complex_result == Sub(complex_from_parts("z") \o ErrRet \o Push("z"))
complex_unary_word(v) == Use(v) \o Either(PushPlain, push_complex_result)
complex_math_word(v) == Use(v) \o push_complex_result
complex_binary_word(l, r) == Use(l) \o Use(r) \o Check \o complex_from_parts("z") \o ErrRet \o Leave(2, "z")

(* A quantity: its magnitude is rooted while the pair is allocated.        *)
quantity_of(m, d) ==
    Sub(Copy(d, m) \o Maybe(Ret) \o Root(m) \o Alloc("pair") \o Unroot \o ErrRet
        \o Store(m, "pair") \o Copy(d, "pair"))
push_quantity(m) == Sub(quantity_of(m, "quantity") \o ErrRet \o Push("quantity"))
unwrap_quantity(v, d) == Either(Copy(d, v), Part(d, v))

unary_op(v) ==
    Sub(Choice(<<PushPlain, Fail,
                 Root(v) \o Alloc("target") \o OnError(Unroot \o Ret) \o Use(v) \o Unroot \o Push("target")>>))
binary_matrix_op(l, r) == Either(Fail, Use(l) \o Use(r) \o New("target") \o Use(l) \o Use(r) \o Push("target"))
binary_op(l, r) ==
    Either(PushPlain, Root(l) \o Root(r) \o Sub(binary_matrix_op(l, r)) \o Unroot \o Unroot)

exact_unary_word(v) == Sub(Root(v) \o exact_unary(v, "result") \o Unroot \o ErrRet \o Push("result"))

(* Sums of quantities of one dimension; the right one is converted first.  *)
quantity_additive_op(l, r) ==
    Check \o Part("lm", l) \o Part("rm", r) \o Check \o Choice(<<
      Check \o complex_from_parts("combined") \o ErrRet \o Drop(2) \o push_quantity("combined"),
      Check \o Maybe(exact_scale_by_ratio("rm", "converted") \o ErrRet \o Copy("rm", "converted"))
        \o Root("rm") \o exact_binary("lm", "rm", "combined") \o Unroot \o ErrRet
        \o Drop(2) \o push_quantity("combined"),
      binary_op("lm", "rm") \o ErrRet \o Pop("combined") \o Drop(2) \o push_quantity("combined"),
      Check \o Nothing("factor") \o binary_op("rm", "factor") \o ErrRet \o Peek("rm", 0)
        \o binary_op("lm", "rm") \o ErrRet \o Pop("combined") \o Drop(3) \o push_quantity("combined")>>)

(* Products and quotients; the units may cancel to a plain number, which   *)
(* is then scaled.                                                         *)
quantity_multiplicative_op(l, r) ==
    unwrap_quantity(l, "lm") \o unwrap_quantity(r, "rm") \o Check \o Choice(<<
      Check \o Drop(2) \o Check \o complex_from_parts("combined") \o ErrRet \o push_quantity("combined"),
      exact_binary("lm", "rm", "combined") \o ErrRet \o Drop(2) \o Check
        \o Maybe(Root("combined") \o exact_scale_by_ratio("combined", "collapsed") \o Unroot \o ErrRet
                 \o Copy("combined", "collapsed"))
        \o push_quantity("combined"),
      Check \o binary_op("lm", "rm") \o ErrRet \o Pop("combined") \o Drop(2) \o Check
        \o Use("combined") \o push_quantity("combined")>>)

unary_quantity_op(q) ==
    Part("magnitude", q) \o Choice(<<
      PushPlain,
      Root(q) \o complex_from_parts("value") \o Unroot \o ErrRet \o push_quantity("value"),
      Root(q) \o exact_unary("magnitude", "value") \o Unroot \o ErrRet \o push_quantity("value"),
      Root(q) \o unary_op("magnitude") \o Unroot \o ErrRet \o Pop("value") \o push_quantity("value")>>)

Operands2 == Peek("left", 1) \o Peek("right", 0)
BROADCAST_SCALAR_OP_MATRIX == New("target") \o Use("right") \o Leave(2, "target")
BROADCAST_MATRIX_OP_SCALAR == New("target") \o Use("left") \o Leave(2, "target")
string_concat == Use("left") \o Use("right") \o New("text") \o Leave(2, "text")
OverMatrices == Check \o New("target") \o Use("left") \o Use("right") \o Leave(2, "target")
OverSets(combine) == Sub(combine) \o ErrRet \o Leave(2, "combined")

p_add ==
    Operands2 \o Choice(<<LeavePlain(2), string_concat, OverSets(set_union), OverMatrices,
        BROADCAST_SCALAR_OP_MATRIX, BROADCAST_MATRIX_OP_SCALAR, exact_binary_word("left", "right"),
        complex_binary_word("left", "right"), quantity_additive_op("left", "right"), Fail>>)
p_sub ==
    Operands2 \o Choice(<<LeavePlain(2), OverSets(set_difference), OverMatrices,
        BROADCAST_SCALAR_OP_MATRIX, BROADCAST_MATRIX_OP_SCALAR, exact_binary_word("left", "right"),
        complex_binary_word("left", "right"), quantity_additive_op("left", "right"), Fail>>)
p_mul ==
    Operands2 \o Choice(<<LeavePlain(2), OverSets(set_intersect), OverMatrices,
        BROADCAST_SCALAR_OP_MATRIX, BROADCAST_MATRIX_OP_SCALAR, exact_binary_word("left", "right"),
        complex_binary_word("left", "right"), quantity_multiplicative_op("left", "right"), Fail>>)
p_div ==
    Operands2 \o Check \o Choice(<<LeavePlain(2), OverMatrices,
        BROADCAST_SCALAR_OP_MATRIX, BROADCAST_MATRIX_OP_SCALAR, exact_binary_word("left", "right"),
        complex_binary_word("left", "right"), quantity_multiplicative_op("left", "right"), Fail>>)

(* +! and its kind write into the matrix of one operand, both off the      *)
(* stack by then.                                                          *)
inplace_quantity_op(l, r) ==
    unwrap_quantity(l, "lm") \o unwrap_quantity(r, "rm") \o Check \o Use("rm") \o Use("lm")
    \o Choice(<<Reject, push_quantity("lm"), Push("lm"), push_quantity("rm"), Push("rm")>>)
INPLACE_OP ==
    Pop("right") \o Pop("left")
    \o Choice(<<inplace_quantity_op("left", "right"),
                Use("left") \o Use("right") \o Check \o Push("left"),
                Use("right") \o Push("right"), Fail>>)

(* Words of one operand: 1 on the stack is replaced in place when it is a  *)
(* float, taken off and answered otherwise.                                *)
UNARY_QUANTITY_OP ==
    Peek("operand", 0) \o Either(LeavePlain(1),
      Drop(1) \o Choice(<<Check \o unary_quantity_op("operand"), exact_unary_word("operand"),
                          complex_unary_word("operand"), unary_op("operand")>>))
UNARY_MATH_OP_EXACT ==
    Peek("operand", 0) \o Either(LeavePlain(1),
      Drop(1) \o Choice(<<exact_unary_word("operand"), complex_unary_word("operand"), unary_op("operand")>>))
UNARY_MATH_OP_NAMED ==
    Peek("operand", 0) \o Either(LeavePlain(1),
      Drop(1) \o Either(complex_math_word("operand"), unary_op("operand")))

p_nan ==
    Peek("operand", 0) \o Choice(<<LeavePlain(1),
      New("mask") \o Use("operand") \o Leave(1, "mask"),
      Drop(1) \o unwrap_quantity("operand", "subject") \o unary_op("subject") \o ErrRet>>)

p_power ==
    Peek("right", 0) \o Peek("left", 1) \o Either(LeavePlain(2), Drop(2) \o Choice(<<
      Check \o Use("right") \o Root("left") \o exact_power("left", "result") \o Unroot \o ErrRet \o Push("result"),
      Use("left") \o Use("right") \o push_complex_result,
      Part("magnitude", "left") \o Use("right") \o Check \o Choice(<<
        Root("left") \o exact_power("magnitude", "raised") \o Unroot \o ErrRet \o push_quantity("raised"),
        Root("left") \o complex_from_parts("raised") \o Unroot \o ErrRet \o push_quantity("raised"),
        binary_op("magnitude", "right") \o ErrRet \o Pop("raised") \o push_quantity("raised")>>),
      binary_op("left", "right")>>))

push_ordered_choice(l, r) ==
    Sub(unwrap_quantity(l, "lm") \o unwrap_quantity(r, "rm") \o Check \o Choice(<<
      Compare(l, r) \o ErrRet \o Either(Push(l), Push(r)),
      Root(l) \o Root(r) \o binary_op("lm", "rm") \o Unroot \o Unroot \o ErrRet \o Pop("chosen")
        \o Either(push_quantity("chosen"), Push("chosen")),
      Root(l) \o Root(r) \o Nothing("factor") \o binary_op("rm", "factor") \o OnError(Unroot \o Unroot \o Ret)
        \o Peek("rm", 0) \o binary_op("lm", "rm") \o Unroot \o Unroot \o ErrRet \o Pop("chosen") \o Drop(1)
        \o push_quantity("chosen")>>))
p_min2 == Operands2 \o Either(LeavePlain(2), Drop(2) \o push_ordered_choice("left", "right"))
p_max2 == p_min2

divmod_matrix(l, r) ==
    Check \o New("remainder") \o Root("remainder") \o Alloc("quotient") \o Unroot \o ErrRet
    \o Use("remainder") \o Use("quotient") \o Use(l) \o Use(r) \o Drop(2) \o Push("remainder") \o Push("quotient")
p_divmod ==
    Operands2 \o Choice(<<Drop(2) \o PushPlain \o PushPlain,
      exact_mod_word("left", "right", Drop(2) \o Push("remainder") \o Push("quotient")),
      Check \o divmod_matrix("left", "right")>>)
p_mod ==
    Operands2 \o Choice(<<LeavePlain(2), exact_mod_word("left", "right", Leave(2, "remainder")),
      Check \o Drop(2) \o binary_op("left", "right")>>)
p_atan2 == Operands2 \o Either(LeavePlain(2), Drop(2) \o binary_op("left", "right"))

(* Comparisons leave a boolean or a mask.                                  *)
quantity_comparison_mask(l, r) ==
    unwrap_quantity(l, "lm") \o unwrap_quantity(r, "rm") \o Check \o Choice(<<
      binary_op("lm", "rm") \o ErrRet \o Pop("mask") \o Leave(2, "mask"),
      Nothing("factor") \o binary_op("rm", "factor") \o ErrRet \o Peek("rm", 0)
        \o binary_op("lm", "rm") \o ErrRet \o Pop("mask") \o Leave(3, "mask")>>)
ElementOrSelf(v, d) == Either(Copy(d, v), Part(d, v))
array_comparison_mask(l, r) ==
    Check \o New("mask")
    \o Loop(ElementOrSelf(l, "one") \o ElementOrSelf(r, "other") \o Compare("one", "other") \o ErrRet \o Use("mask"))
    \o Leave(2, "mask")
MATRIX_COMPARISON_OP ==
    Operands2 \o Choice(<<LeavePlain(2), quantity_comparison_mask("left", "right"),
      array_comparison_mask("left", "right"),
      Drop(2) \o Root("left") \o Root("right") \o Alloc("mask") \o Use("left") \o Use("right")
        \o Unroot \o Unroot \o ErrRet \o Push("mask"),
      Drop(2) \o Compare("left", "right") \o ErrRet \o PushPlain>>)
p_eq == Operands2 \o Either(LeavePlain(2), Drop(2) \o Compare("left", "right") \o ErrRet \o PushPlain)
p_eq_string == Operands2 \o Use("left") \o Use("right") \o LeavePlain(2)
COMPARISON_ZBRANCH == Operands2 \o Either(Drop(2), Drop(2) \o Check \o Compare("left", "right") \o ErrRet)

(* dimension.c.                                                            *)
p_base == Check \o Nothing("one") \o push_quantity("one")
p_magnitude == Peek("value", 0) \o unwrap_quantity("value", "magnitude") \o Leave(1, "magnitude")
p_unit_of == Peek("value", 0) \o Use("value") \o Nothing("one") \o quantity_of("one", "unit") \o ErrRet \o Leave(1, "unit")
apply_unit == Pop("magnitude") \o Check \o push_quantity("magnitude")
p_unit == Check \o PeekTyped("quantity", 0) \o Part("magnitude", "quantity") \o Check \o Use("magnitude") \o Drop(1)
==============================================================================
