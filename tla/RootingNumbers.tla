--------------------------- MODULE RootingNumbers ---------------------------
(***************************************************************************)
(* Exact numbers, quantities, complex numbers and the arithmetic words     *)
(* over them (exact.c, dimension.c, words.c), in the steps of RootSteps.   *)
(* A quantity is an object that holds its magnitude.  A helper is given    *)
(* the registers of its arguments and the register of its result.          *)
(***************************************************************************)
EXTENDS RootSteps

(* exact.c.  The limbs of the operands are read into scratch memory before *)
(* the result is allocated; only a result that reuses the operand's own    *)
(* limbs reads them afterwards (object_new_exact copies from them).        *)
exact_normalized(d) == Alloc(d)
exact_from_double(d) == Sub(Nothing(d) \o Check \o exact_normalized(d))
exact_from_int64(d) == exact_normalized(d)
exact_from_signed_cross(d) == exact_normalized(d)
exact_reciprocal(v, d) == Use(v) \o exact_normalized(d)
exact_integer_result(d) == exact_normalized(d)
exact_round_family(v, d) == Use(v) \o exact_integer_result(d)
exact_truncated_quotient(l, r, d) == Use(l) \o Use(r) \o exact_integer_result(d)

exact_binary(l, r, d) ==
    Use(l) \o Use(r)
    \o Sub(Either(Maybe(Nothing(d) \o Reject) \o exact_normalized(d), exact_from_signed_cross(d)))

ReuseLimbs(v, d) == New(d) \o Use(v)

exact_unary(v, d) ==
    Use(v) \o Sub(Either(ReuseLimbs(v, d),
                         Either(exact_from_signed_cross(d), exact_round_family(v, d))))
exact_power(v, d) == Sub(Maybe(Reject) \o Use(v) \o Check \o exact_normalized(d))

exact_scale_by_ratio(v, d) ==
    Sub(Copy(d, v) \o Maybe(Ret)
        \o Root(v) \o exact_from_int64("ratio") \o OnError(Unroot \o Ret)
        \o exact_binary(v, "ratio", "scaled") \o Unroot \o ErrRet \o Copy(d, "scaled") \o Maybe(Ret)
        \o Root("scaled") \o exact_from_int64("ratio") \o OnError(Unroot \o Ret)
        \o exact_binary("scaled", "ratio", d) \o Unroot)

(* Continued fractions.  On an error the roots that are on are counted and *)
(* taken off by hand (rationalize_cleanup).  A round that does not end the *)
(* search parks the floor of lo on the data stack for the way back.        *)
rationalize_cleanup(n) ==
    OnError((IF n = 0 THEN <<>> ELSE IF n = 1 THEN Unroot ELSE IF n = 2 THEN Unroot \o Unroot
             ELSE IF n = 3 THEN Unroot \o Unroot \o Unroot
             ELSE Unroot \o Unroot \o Unroot \o Unroot) \o Ret)

IntervalEnds ==
    exact_from_double("center") \o ErrRet \o Root("center")
    \o exact_from_double("below") \o rationalize_cleanup(1) \o Root("below")
    \o exact_binary("center", "below", "sum") \o rationalize_cleanup(2)
    \o exact_scale_by_ratio("sum", "lo") \o rationalize_cleanup(2) \o Root("lo")
    \o exact_from_double("above") \o rationalize_cleanup(3)
    \o exact_binary("center", "above", "sum") \o rationalize_cleanup(3)
    \o exact_scale_by_ratio("sum", "hi") \o rationalize_cleanup(3)
    \o Unroot \o Unroot \o Unroot \o Root("lo") \o Root("hi")

Candidate ==
    exact_unary("lo", "lo_floor") \o rationalize_cleanup(2)
    \o Root("lo_floor") \o exact_unary("lo_floor", "candidate") \o Unroot \o rationalize_cleanup(2)
    \o Use("hi")
Converged == Unroot \o Unroot \o Copy("result", "candidate")
NextInterval ==
    Push("lo_floor")
    \o exact_binary("hi", "lo_floor", "hi_minus") \o rationalize_cleanup(2) \o Root("hi_minus")
    \o exact_binary("lo", "lo_floor", "lo_minus") \o Unroot \o rationalize_cleanup(2) \o Root("lo_minus")
    \o exact_reciprocal("hi_minus", "new_lo") \o rationalize_cleanup(3) \o Root("new_lo")
    \o exact_reciprocal("lo_minus", "new_hi") \o rationalize_cleanup(4)
    \o Unroot \o Unroot \o Unroot \o Unroot
    \o Copy("lo", "new_lo") \o Copy("hi", "new_hi") \o Root("lo") \o Root("hi")
WayBack ==
    Peek("coefficient", 0) \o exact_reciprocal("result", "inverse") \o ErrRet
    \o exact_binary("coefficient", "inverse", "result") \o ErrRet \o Drop(1)
Round(deeper) ==
    Candidate \o Either(Converged, Maybe(Fail \o rationalize_cleanup(2)) \o NextInterval \o deeper \o WayBack)

exact_rationalize ==
    Either(Maybe(Reject) \o exact_from_int64("result"),
           IntervalEnds \o Round(Candidate \o Either(Converged, Fail \o rationalize_cleanup(2)))
           \o Maybe(exact_unary("result", "negated") \o ErrRet \o Copy("result", "negated")))

p_rationalize ==
    Peek("value", 0) \o Maybe(Ret) \o Check \o Sub(exact_rationalize) \o ErrRet \o Leave(1, "result")
p_float_to_exact == Peek("value", 0) \o Maybe(Ret) \o Check \o exact_from_double("result") \o ErrRet \o Leave(1, "result")
p_exact_to_float == Peek("value", 0) \o Maybe(Ret) \o Check \o Use("value") \o LeavePlain(1)
p_numerator == PeekTyped("value", 0) \o ReuseLimbs("value", "part") \o Leave(1, "part")
p_denominator == p_numerator

(* The operands of these stay on the stack until the result is written     *)
(* over them.                                                              *)
exact_binary_word(l, r) == Check \o exact_binary(l, r, "result") \o ErrRet \o Leave(2, "result")
exact_mod_word(l, r, finish) ==
    Check \o exact_truncated_quotient(l, r, "quotient") \o ErrRet \o Root("quotient")
    \o exact_binary("quotient", r, "product") \o OnError(Unroot \o Ret) \o Root("product")
    \o exact_binary(l, "product", "remainder") \o Unroot \o Unroot \o ErrRet \o finish
==============================================================================
