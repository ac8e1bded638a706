-------------------------- MODULE RootingMatrices --------------------------
(***************************************************************************)
(* The words of matrix.c, statistics.c and fourier.c, in the steps of      *)
(* RootSteps.  A matrix holds no values, so a new one is never unwritten;  *)
(* what can be lost is the source, whose elements are copied after the     *)
(* allocation of the result.  A matrix with a unit is a quantity object    *)
(* that holds the matrix: quantity_unwrap is the Part of it.               *)
(***************************************************************************)
EXTENDS RootSteps, RootingArithmetic

quantity_unwrap(m) == Maybe(Part(m, m))
PeekMatrix(r, d) == Peek(r, d) \o quantity_unwrap(r) \o Check

(* A result of a source that carried a unit is given it after the operands *)
(* were dropped.                                                           *)
Result(n, r) == Either(Drop(n) \o push_quantity(r) \o ErrRet, Leave(n, r))
ResultNumber(n) == Either(Drop(n) \o Nothing("number") \o push_quantity("number") \o ErrRet, LeavePlain(n))
ResultFrom(n, source) == New("result") \o Use(source) \o Result(n, "result")

(* Elements.                                                               *)
p_at_j == PeekMatrix("source", 1) \o Check \o ResultFrom(2, "source")
p_at_ij == PeekMatrix("source", 2) \o Check \o Use("source") \o ResultNumber(3)
p_at_e == PeekMatrix("source", 1) \o Check \o Use("source") \o ResultNumber(2)
matrix_element_read(source, n) ==
    quantity_unwrap(source) \o Check \o Use(source) \o ResultNumber(n)
p_at_e_lit == Peek("source", 0) \o matrix_element_read("source", 1)
p_at_e_local0 == Peek("source", 0) \o matrix_element_read("source", 1)
p_at_e_ll0 == Peek("source", 0) \o matrix_element_read("source", 0)
p_at_e_lit_local0 == Peek("source", 0) \o matrix_element_read("source", 0)
p_at_e_swap_local0 == Check \o Peek("source", 1) \o matrix_element_read("source", 1)
p_at_e_depth_top == Check \o Peek("source", 1) \o matrix_element_read("source", 1)
p_at_e_depth == Check \o Peek("source", 1) \o matrix_element_read("source", 0)
p_gather_e_local0 ==
    Peek("indices", 0) \o Peek("source", 1) \o Check \o Use("indices") \o matrix_element_read("source", 2)

element_store_conversion == Check
matrix_element_write(target, element) ==
    quantity_unwrap(target) \o quantity_unwrap(element) \o Check \o element_store_conversion
    \o Use(element) \o Use(target)
STORE_E_OP(n) == Peek("element", 1) \o Peek("target", 2) \o matrix_element_write("target", "element") \o Drop(n)
p_store_e == STORE_E_OP(2)
p_store_e_drop == STORE_E_OP(3)
p_store_e_lll0 == Peek("element", 1) \o Peek("target", 0) \o matrix_element_write("target", "element")
STORE_IJ_OP(n) ==
    Peek("element", 2) \o quantity_unwrap("element") \o Check \o PeekMatrix("target", 3)
    \o element_store_conversion \o Use("target") \o Drop(n)
p_store_ij == STORE_IJ_OP(3)
p_store_ij_drop == STORE_IJ_OP(4)

(* Whole matrices.                                                         *)
p_matmul == PeekTyped("right", 0) \o PeekTyped("left", 1) \o Check \o New("product") \o Use("left") \o Use("right")
            \o Leave(2, "product")
matrix_nonzero_indices(mask, d) == Alloc(d) \o ErrRet \o Use(mask)
p_where == PeekMatrix("mask", 0) \o matrix_nonzero_indices("mask", "indices") \o Leave(1, "indices")
segment_crossings(segments, d) == Use(segments) \o New(d) \o Use(segments)
p_segment_crossings ==
    PeekTyped("segments", 4) \o Check \o segment_crossings("segments", "distances") \o Leave(5, "distances")

create_matrix(d) == Drop(2) \o Check \o New(d)
p_0_matrix == create_matrix("matrix") \o Push("matrix")
p_diagonal_matrix == PushPlain \o create_matrix("matrix") \o Pop("fill") \o Check \o Push("matrix")
p_diagonal == PeekMatrix("source", 0) \o ResultFrom(1, "source")
p_reshape == Check \o PeekMatrix("source", 2) \o Check \o ResultFrom(3, "source")

(* The array goes back on the stack while the matrix is made; with one     *)
(* dimension it was second, with two it was third.                         *)
p_matrix ==
    Check \o Peek("elements", 1) \o Check \o Drop(2) \o Push("elements") \o PushPlain \o PushPlain
    \o create_matrix("matrix") \o Pop("elements") \o Use("elements") \o Check \o Push("matrix")
p_matrix_2 ==
    Check \o Peek("elements", 2) \o Check \o Drop(3) \o Push("elements") \o PushPlain \o PushPlain
    \o create_matrix("matrix") \o Pop("elements") \o Use("elements") \o Check \o Push("matrix")

p_matrix_to_array ==
    PeekMatrix("source", 0) \o NewVector("elements") \o Use("source")
    \o Either(Written("elements") \o Root("elements")
                \o Loop(Maybe(Nothing("number") \o Sub(quantity_of("number", "quantity")) \o OnError(Unroot \o Ret)
                                \o Store("quantity", "elements")))
                \o Unroot,
              Written("elements"))
    \o Leave(1, "elements")
p_dim == PeekMatrix("source", 0) \o Use("source") \o LeavePlain(1) \o PushPlain

TransposeRows ==
    Loop(Part("row", "source") \o Use("row") \o Check)
    \o NewVector("transposed") \o Written("transposed") \o Root("transposed")
    \o Loop(AllocVector("column") \o OnError(Unroot \o Ret)
              \o Part("row", "source") \o Part("item", "row") \o Store("item", "column") \o Written("column")
              \o Store("column", "transposed"))
    \o Unroot \o Leave(1, "transposed")
p_transpose ==
    Peek("source", 0) \o quantity_unwrap("source") \o Either(TransposeRows, Check \o ResultFrom(1, "source"))

p_mesh ==
    PeekTyped("mask", 1) \o Peek("subject", 2) \o Peek("replacement", 0) \o Check
    \o Either(NewVector("picked") \o Use("mask") \o Part("item", "subject") \o Store("item", "picked")
                \o Either(Store("replacement", "picked"), Part("item", "replacement") \o Store("item", "picked"))
                \o Written("picked") \o Leave(3, "picked"),
              quantity_unwrap("subject") \o quantity_unwrap("replacement") \o Check
                \o New("result") \o Use("subject") \o Use("mask") \o Use("replacement") \o Result(3, "result"))
p_submatrix == Check \o PeekMatrix("source", 4) \o Check \o ResultFrom(5, "source")

(* Reductions.  One number: the source is read before anything is made.    *)
(* One number per row or column: the source is off the stack when the      *)
(* result is made, and is read afterwards.                                 *)
POP_MATRIX_OR_QUANTITY(r) == Pop(r) \o quantity_unwrap(r) \o Check
MATRIX_REDUCE_OP(source, target) == New(target) \o Use(source)
REDUCE_OVERALL_HANDLER ==
    POP_MATRIX_OR_QUANTITY("source") \o Use("source") \o Check \o Nothing("number") \o push_quantity("number")
REDUCE_AXIS_HANDLER ==
    POP_MATRIX_OR_QUANTITY("source") \o Sub(MATRIX_REDUCE_OP("source", "target")) \o ErrRet \o push_quantity("target")
p_variance == PeekMatrix("source", 0) \o Use("source") \o Check \o ResultNumber(1)
p_quantile == Check \o PeekMatrix("source", 1) \o Use("source") \o Check \o ResultNumber(2)
p_cumulative_sum == PeekMatrix("source", 0) \o ResultFrom(1, "source")
p_matrix_range == Check \o New("matrix") \o Leave(3, "matrix")

p_select_rows ==
    Peek("indices", 0) \o Peek("source", 1) \o quantity_unwrap("source") \o Check \o Use("indices") \o Check
    \o Either(NewVector("gathered") \o Use("indices") \o CopyParts("source", "gathered") \o Leave(2, "gathered"),
              New("result") \o Use("indices") \o Use("source") \o Result(2, "result"))
stacking_conversion == Check
p_augment ==
    PeekMatrix("b", 0) \o PeekMatrix("a", 1) \o Check \o stacking_conversion
    \o New("result") \o Use("a") \o Use("b") \o Result(2, "result")
p_vstack == p_augment

(* statistics.c and fourier.c.                                             *)
p_ks_distance == PeekMatrix("right", 0) \o PeekMatrix("left", 1) \o Use("left") \o Use("right") \o Check \o LeavePlain(2)
p_correlation_kendall == p_ks_distance
p_fft == PeekTyped("signal", 0) \o Check \o New("spectrum") \o Check \o Use("signal") \o Leave(1, "spectrum")
p_ifft == PeekTyped("spectrum", 1) \o Check \o New("signal") \o Use("spectrum") \o Check \o Leave(2, "signal")
complex_transform(source, d) == Check \o New(d) \o Use(source) \o Check
p_cfft == Peek("source", 0) \o complex_transform("source", "transformed") \o Leave(1, "transformed")
p_icfft == p_cfft
p_magnitudes == PeekTyped("spectrum", 0) \o Check \o New("moduli") \o Use("spectrum") \o Leave(1, "moduli")
p_hann == Check \o New("window") \o Leave(1, "window")
=============================================================================
