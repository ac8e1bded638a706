--------------------------- MODULE RootingStrings ---------------------------
(***************************************************************************)
(* The text words of strings.c, in the steps of RootSteps.  They leave     *)
(* their operands on the stack until the result is made: the bytes a new   *)
(* string is copied from are read after the allocation that may collect.   *)
(***************************************************************************)
EXTENDS RootSteps

(* object_new_string(interp, source->bytes + start, length).               *)
TextFrom(source) == Alloc("text") \o ErrRet \o Use(source)
TextUnchecked(source) == AllocUnchecked("text") \o Use(source)

PEEK_STRING_AT(r, d) == PeekTyped(r, d)
COMPILE_PATTERN == Use("pattern") \o Check

(* A match: an array of the captured texts; a group that did not take part *)
(* leaves a number in its slot.                                            *)
capture_array ==
    AllocVector("match") \o ErrRet \o Written("match") \o Root("match")
    \o Loop(Maybe(TextUnchecked("subject") \o Store("text", "match"))) \o Unroot

p_match_all ==
    PEEK_STRING_AT("pattern", 0) \o PEEK_STRING_AT("subject", 1) \o COMPILE_PATTERN
    \o Loop(Use("subject") \o Check)
    \o Maybe(LeavePlain(2) \o Ret)
    \o NewVector("result") \o Written("result") \o Root("result")
    \o Loop(Sub(capture_array) \o OnError(Unroot \o Ret) \o Store("match", "result"))
    \o Unroot \o Leave(2, "result")

p_match ==
    PEEK_STRING_AT("pattern", 0) \o PEEK_STRING_AT("subject", 1) \o COMPILE_PATTERN \o Check
    \o Use("subject") \o Maybe(LeavePlain(2) \o Ret)
    \o Sub(capture_array) \o ErrRet \o Leave(2, "match")

p_split ==
    PEEK_STRING_AT("pattern", 0) \o PEEK_STRING_AT("subject", 1) \o COMPILE_PATTERN \o Check
    \o Loop(Use("subject"))
    \o NewVector("result") \o Written("result") \o Root("result")
    \o Loop(TextUnchecked("subject") \o Store("text", "result"))
    \o TextUnchecked("subject") \o Store("text", "result")
    \o Unroot \o ErrRet \o Leave(2, "result")

p_replace ==
    PEEK_STRING_AT("replacement", 0) \o PEEK_STRING_AT("pattern", 1) \o PEEK_STRING_AT("subject", 2)
    \o COMPILE_PATTERN \o Check
    \o Loop(Use("subject") \o Use("replacement") \o Check) \o Use("subject") \o Check
    \o New("text") \o Leave(3, "text")

p_substring ==
    PeekTyped("end", 0) \o PeekTyped("start", 1) \o PeekTyped("source", 2) \o Check
    \o TextUnchecked("source") \o Leave(3, "text")
p_byte_substring == p_substring

(* char-at makes a string, codepoint-at a number.                          *)
produce_char_string == TextUnchecked("source")
produce_codepoint == Use("source") \o Nothing("text")
CHAR_INDEX_OP ==
    PeekTyped("index", 0) \o PeekTyped("source", 1) \o Check
    \o Either(produce_char_string, produce_codepoint) \o ErrRet \o Leave(2, "text")

exploded_array ==
    AllocVector("chars") \o ErrRet \o Written("chars") \o Root("chars")
    \o Loop(TextUnchecked("source") \o Store("text", "chars") \o OnError(Unroot \o Ret)) \o Unroot
STRING_EXPLODE_OP == PeekTyped("source", 0) \o Sub(exploded_array) \o ErrRet \o Leave(1, "chars")

p_string_to_codepoints ==
    PeekTyped("source", 0) \o Use("source") \o Check \o AllocVector("codes") \o ErrRet \o Written("codes")
    \o Leave(1, "codes")
p_codepoint_to_char == PeekTyped("code", 0) \o Check \o AllocUnchecked("text") \o Leave(1, "text") \o ErrRet
p_codepoints_to_string ==
    PeekTyped("codes", 0) \o Check \o Loop(Part("item", "codes") \o Check) \o New("text") \o Leave(1, "text")

p_string_to_byte_vector == PeekTyped("source", 0) \o TextFrom("source") \o Leave(1, "text")
p_byte_vector_to_string == PeekTyped("source", 0) \o Check \o TextFrom("source") \o Loop(Check) \o Leave(1, "text")

p_trim == PEEK_STRING_AT("source", 0) \o TextFrom("source") \o Leave(1, "text")
STRING_CASE_OP == p_trim
p_string_to_number == PeekTyped("source", 0) \o Use("source") \o LeavePlain(1)

(* The pieces are read again after the joined string is made.              *)
p_join ==
    PEEK_STRING_AT("separator", 0) \o PeekTyped("array", 1) \o Loop(Part("piece", "array") \o Use("piece") \o Check)
    \o Check \o New("joined") \o Use("separator") \o Loop(Part("piece", "array") \o Use("piece"))
    \o Leave(2, "joined")

string_edit_distance == Use("first") \o Use("second") \o Check
p_edit_distance ==
    PeekTyped("second", 0) \o PeekTyped("first", 1) \o string_edit_distance \o LeavePlain(2)
==============================================================================
