---------------------------- MODULE RootingHost ----------------------------
(***************************************************************************)
(* Words of the interpreter itself and of its hosts that hold values:      *)
(* literals, copies, gauges, loading, continuations (core.c, compiler.c,   *)
(* words.c), processes (platform_posix.c), the screen and the synthesizer  *)
(* (graphics.c, synth.c), foreign calls (foreign.c), in the steps of       *)
(* RootSteps.                                                              *)
(***************************************************************************)
EXTENDS RootSteps

(* The bindings of a curried token go on the stack and its target's code,  *)
(* which is in the dictionary, runs: the token is not needed any more.     *)
push_curried_bindings(xt) == Part("binding", xt) \o Push("binding")
execute_xt(taken, left) == Nothing("code") \o Call("code", taken, left)

(* Literals read by the outer interpreter.                                 *)
PredicateOf(unroot) ==
    Maybe(Fail \o unroot \o Ret) \o AllocVector("predicate") \o OnError(unroot \o Ret) \o Written("predicate")
parse_path_predicate ==
    Check \o Either(New("subpath") \o Root("subpath") \o PredicateOf(Unroot) \o Store("subpath", "predicate") \o Unroot,
                    PredicateOf(<<>>))
path_literal ==
    New("path") \o Root("path")
    \o Loop(Maybe(Fail \o Unroot \o Ret)
              \o Sub(parse_path_predicate) \o OnError(Unroot \o Ret) \o Store("predicate", "path"))
    \o Unroot \o Check \o Push("path")
(* name@key fetches; a trailing !key stores and drops what ! leaves.       *)
try_frame_key_token ==
    Either(PushPlain \o Drop(1) \o Pop("frame") \o Check \o Part("value", "frame") \o Push("value"),
           Pop("target") \o Pop("stored") \o Push("target") \o Push("stored") \o PushPlain
             \o Check \o Store("stored", "target") \o Drop(2) \o Drop(1))

p_load == PopTyped("filename") \o Root("filename") \o Use("filename") \o execute_xt(0, 0) \o Use("filename") \o Unroot

(* copy and reify: the copy is written into the slot of a root while the   *)
(* collector is off; one collection may come before.                       *)
copy_value_inner(source, place) ==
    Choice(<<Copy(place, source),
             AllocQuiet(place) \o ErrRet \o Use(source),
             Part("magnitude", source) \o AllocQuiet("head") \o ErrRet \o AllocQuiet(place) \o ErrRet \o Store("head", place)>>)
CopyContainer ==
    AllocQuiet("copy") \o ErrRet \o SetRoot("copy")
    \o Loop(Part("item", "source") \o Sub(copy_value_inner("item", "copied")) \o ErrBreak \o Store("copied", "copy"))
copy_or_reify ==
    Maybe(AllocUnchecked("collected")) \o Sub(Either(copy_value_inner("source", "copy") \o SetRoot("copy"), CopyContainer))
do_copy_reify ==
    Peek("source", 0) \o Root("source") \o copy_or_reify \o TopRoot("copy") \o Unroot \o ErrRet \o Leave(1, "copy")
p_copy == do_copy_reify
p_reify == do_copy_reify

(* Introspection.                                                          *)
capture_render(target) == Use(target) \o Check \o New("text")
SEE_WORD_PAIR(print) ==
    PopTyped("target") \o (IF print THEN Use("target") ELSE capture_render("target") \o Push("text"))
gauge_put_pair == Sub(AllocVector("pair") \o ErrRet \o Written("pair") \o Store("pair", "group"))
gauge_group == Alloc("group") \o ErrRet \o Store("group", "top")
p_gauges == New("top") \o Root("top") \o Loop(Sub(gauge_group \o Loop(gauge_put_pair))) \o Unroot \o ErrRet \o Push("top")
p_callers ==
    PopTyped("target") \o Check \o NewVector("callers") \o Written("callers") \o Root("callers")
    \o Loop(Alloc("name") \o OnError(Unroot \o Ret) \o Store("name", "callers")) \o Unroot \o Push("callers")
p_trace ==
    PopTyped("patterns") \o PopTyped("xt") \o Loop(Part("pattern", "patterns") \o Use("pattern") \o Check)
    \o push_curried_bindings("xt") \o Check \o Root("patterns") \o execute_xt(1, 1) \o Unroot

p_embodies == Check \o PopTyped("target") \o Maybe(Use("target") \o Check) \o Check
p_embodies_final == p_embodies

(* Continuations.  The slice of the return stack goes into an object.      *)
capture_continuation == Check \o New("continuation")
p_shift == Sub(capture_continuation) \o ErrRet \o Push("continuation")
p_shift_with ==
    PopTyped("handler") \o Sub(capture_continuation) \o ErrRet \o Push("continuation")
    \o push_curried_bindings("handler") \o Check \o execute_xt(2, 1) \o ErrRet
catch_interpreter_error ==
    Maybe(Ret) \o AllocUnchecked("message") \o Root("message") \o AllocUnchecked("trace") \o Root("trace")
    \o Alloc("error") \o OnError(Unroot \o Unroot \o Ret) \o Root("error")
    \o Store("message", "error") \o Store("trace", "error") \o Unroot \o Unroot \o Unroot \o Push("error") \o PushPlain

(* Processes.                                                              *)
p_start_process == PeekTyped("argv", 0) \o Check \o Loop(Part("arg", "argv") \o Use("arg") \o Check) \o Check
                   \o New("process") \o Leave(1, "process")
p_stdout_to_string ==
    PopTyped("xt") \o Check \o push_curried_bindings("xt") \o execute_xt(1, 0) \o ErrRet \o Check \o New("text") \o Push("text")

(* Screen and sound.                                                       *)
p_screen_frame == PopTyped("body") \o push_curried_bindings("body") \o Check \o execute_xt(1, 0) \o Check
p_capture_bitmap == Check \o New("bitmap") \o Check \o Leave(4, "bitmap")
p_rotate_bitmap_angle == Check \o PeekTyped("source", 1) \o New("rotated") \o Use("source") \o Leave(2, "rotated")
p_typed_text == New("text") \o Push("text")
p_render_audio == Check \o New("samples") \o Leave(1, "samples")
p_recent_audio == p_render_audio

(* Foreign calls.  A pointer to the elements of a matrix or a segment is   *)
(* marked as its owner is.  A text a C function returns may lie inside an  *)
(* argument: it is copied after the arguments were dropped.                *)
ffi_pointer_intern_owned(owner, d) == Copy(d, owner)
ffi_type_of == Check
make_ffi_binding == Check \o Loop(ffi_type_of) \o Check
p_ffi_open == PeekTyped("path", 0) \o Use("path") \o Check \o LeavePlain(1)
p_ffi_function == PeekTyped("types", 1) \o PeekTyped("name", 2) \o Use("types") \o Use("name") \o make_ffi_binding \o Drop(4)
p_ffi_variadic ==
    Check \o PeekTyped("types", 2) \o PeekTyped("name", 3) \o Use("types") \o Use("name") \o make_ffi_binding \o Drop(5)
p_ffi_call ==
    Check \o Peek("arg", 1) \o Check \o Use("arg")
    \o Choice(<<Drop(2), LeavePlain(2), Drop(2) \o Maybe(New("text") \o Use("arg") \o Push("text"))>>)
p_ffi_free == PeekTyped("pointer", 0) \o Drop(1)
p_matrix_to_pointer ==
    PeekTyped("matrix", 0) \o Maybe(Part("matrix", "matrix"))
    \o ffi_pointer_intern_owned("matrix", "pointer") \o Leave(1, "pointer")
p_segment_to_pointer == PeekTyped("segment", 0) \o ffi_pointer_intern_owned("segment", "pointer") \o Leave(1, "pointer")
p_pointer_cell == Check \o PushPlain
p_pointer_deref == PeekTyped("cell", 0) \o Check \o Use("cell") \o LeavePlain(1)
p_pointer_to_address == p_pointer_deref
p_pointer_long == p_pointer_deref
p_floats_to_matrix == PeekTyped("pointer", 1) \o Check \o New("matrix") \o Use("pointer") \o Leave(2, "matrix")
p_pointer_string_at == PeekTyped("pointer", 1) \o Check \o Use("pointer") \o New("text") \o Leave(2, "text")
=============================================================================
