--------------------------- MODULE RootingSystem ---------------------------
(***************************************************************************)
(* The words of io.c, time.c and database.c, in the steps of RootSteps.    *)
(* What is read from outside is gathered outside the heap; a compound      *)
(* result is cleared and rooted before its parts are made.                 *)
(***************************************************************************)
EXTENDS RootSteps

(* A text of outside bytes in place of the operand; an array of them.      *)
TextForTop == New("text") \o Leave(1, "text")
ArrayOfTexts(array) ==
    AllocVector(array) \o ErrRet \o Written(array) \o Root(array)
    \o Loop(Alloc("text") \o OnError(Unroot \o Ret) \o Store("text", array)) \o Unroot
NewText == New("text") \o Push("text")
OneString == PeekTyped("path", 0) \o Use("path") \o Check
TwoStrings == PeekTyped("first", 0) \o PeekTyped("second", 1) \o Use("first") \o Use("second") \o Check

p_args == ArrayOfTexts("array") \o ErrRet \o Push("array")
p_env == OneString \o Maybe(LeavePlain(1) \o Ret) \o TextForTop
p_env_set == TwoStrings \o Drop(2)
p_cd == OneString \o Drop(1)
p_cwd == Check \o NewText
p_binary_dir == Check \o NewText
p_file_exists == OneString \o LeavePlain(1)
p_read_file == OneString \o TextForTop
write_file == Use("first") \o Use("second") \o Check
WRITE_FILE_OP == TwoStrings \o Sub(write_file) \o ErrRet \o Drop(2)
p_list_directory == OneString \o ArrayOfTexts("array") \o ErrRet \o Leave(1, "array")
p_file_info == OneString \o Maybe(LeavePlain(1) \o Ret) \o New("info") \o Leave(1, "info")
p_make_directory == OneString \o Drop(1)
PATH_ACTION_OP == OneString \o Drop(1)
p_rename_file == TwoStrings \o Drop(2)
p_touch_file == OneString \o Drop(1)

(* A row of a table: texts, numbers and empty cells; a table: rows.        *)
tsv_row_to_array ==
    AllocVector("row") \o ErrRet \o Written("row") \o Root("row")
    \o Loop(Maybe(AllocUnchecked("text") \o Store("text", "row") \o OnError(Unroot \o Ret))) \o Unroot
p_load_tsv ==
    OneString \o AllocVector("outer") \o ErrRet \o Written("outer") \o Root("outer")
    \o Loop(Sub(tsv_row_to_array) \o OnError(Unroot \o Ret) \o Store("row", "outer")) \o Unroot \o Leave(1, "outer")
p_save_tsv ==
    TwoStrings \o Loop(Part("row", "second") \o Check \o Loop(Part("item", "row") \o Use("item") \o Check)) \o Drop(2)

(* Streams are no objects.                                                 *)
p_write == Check \o PeekTyped("string", 1) \o Check \o Loop(Use("string") \o Check) \o Drop(2)
p_read == Check \o Loop(Check) \o TextForTop
p_read_line == Check \o Loop(Check) \o Maybe(LeavePlain(1) \o Ret) \o TextForTop
p_read_available == Check \o Choice(<<TextForTop, Check \o LeavePlain(1), Check \o TextForTop>>)
p_wait_readable ==
    Check \o PeekTyped("streams", 1) \o Loop(Use("streams") \o Check) \o Check
    \o NewVector("readable") \o CopyParts("streams", "readable") \o Leave(2, "readable")
p_close == Check \o Drop(1)
p_open_file == OneString \o LeavePlain(1)
p_stdin == PushPlain

(* time.c                                                                  *)
p_now == PushPlain
p_wall_now == PushPlain
date_frame_from_calendar == Alloc("date") \o ErrRet \o Use("date")
epoch_to_date_frame == Check \o Sub(date_frame_from_calendar) \o ErrRet \o Leave(1, "date")
p_epoch_to_date == Sub(epoch_to_date_frame) \o ErrRet
read_date_frame == PeekTyped("date", 0) \o Loop(Use("date") \o Check) \o Check
p_date_to_epoch == read_date_frame \o LeavePlain(1)
p_date_to_epoch_local == p_date_to_epoch
format_time_at == PeekTyped("format", 0) \o Check \o Use("format") \o Check \o New("text") \o Leave(2, "text")
p_format_time == format_time_at
p_parse_time == TwoStrings \o LeavePlain(2)

(* database.c: a query builds its columns and their declared types in two  *)
(* rooted frames; a column is reached from the first of them as it grows.  *)
p_db_open == OneString \o Check \o LeavePlain(1)
p_db_close == Check \o Drop(1)
db_bind == Check \o Loop(Part("item", "params") \o Use("item") \o Check)
db_prepare_bound == Check \o Use("sql") \o Check \o db_bind
DB_QUERY_OPERANDS == PeekTyped("params", 0) \o PeekTyped("sql", 1) \o Check \o db_prepare_bound
p_db_exec == DB_QUERY_OPERANDS \o Check \o LeavePlain(3)
db_column_value == Either(AllocUnchecked("value"), Nothing("value"))
dataset_consume_row == Maybe(db_column_value \o ErrBreak \o Store("value", "column"))
db_query_dataset_build ==
    Alloc("dataset") \o ErrRet \o Root("dataset") \o Alloc("types") \o OnError(Unroot \o Ret) \o Root("types")
    \o Maybe(AllocUnchecked("declaration") \o Store("declaration", "types"))
    \o Maybe(Alloc("column") \o OnError(Unroot \o Unroot \o Ret) \o Store("column", "dataset")
             \o Loop(dataset_consume_row) \o Maybe(Fail) \o OnError(Unroot \o Unroot \o Ret)
             \o Maybe(Alloc("vector") \o OnError(Unroot \o Unroot \o Ret) \o Use("column") \o Store("vector", "dataset")))
    \o Unroot \o Unroot
p_db_query ==
    DB_QUERY_OPERANDS \o Sub(db_query_dataset_build) \o ErrRet \o Drop(3) \o Push("dataset") \o Push("types")
==============================================================================
