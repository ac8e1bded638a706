------------------------------ MODULE MCRooting ------------------------------
(* The primitives whose handlers are in the modules below, in two tables:  *)
(* Sound, and Leaky, whose handlers use a value after its object may have  *)
(* been collected, open one there was no room for, or leave a root behind. *)
EXTENDS Rooting, TLC, RootingFunctional, RootingCollections, RootingFrames,
        RootingArithmetic, RootingWords, RootingStrings,
        RootingIndexing, RootingLogic, RootingSystem,
        RootingFormats, RootingMatrices, RootingHost

FunctionalWords ==
    [p_each |-> Prim(2, {0}, p_each), p_filter |-> Prim(2, {1}, p_filter),
     p_find_first |-> Prim(2, {1}, p_find_first), p_reduce |-> Prim(3, {1}, p_reduce)]

CollectionsWords ==
    [p_frame_key_set |-> Prim(1, {1}, p_frame_key_set),
     p_set_add |-> Prim(2, {1}, p_set_add), p_set_remove |-> Prim(2, {1}, p_set_remove),
     p_position_of |-> Prim(2, {1}, p_position_of),
     p_array_close |-> Prim(3, {1}, p_array_close), p_array |-> Prim(3, {1}, p_array),
     p_array_lit |-> Prim(3, {1}, p_array_lit), p_array_of |-> Prim(2, {1}, p_array_of),
     p_take |-> Prim(2, {1}, p_take), p_reverse |-> Prim(1, {1}, p_reverse),
     p_concat |-> Prim(2, {1}, p_concat), p_flatten_array |-> Prim(1, {1}, p_flatten_array),
     p_sample |-> Prim(3, {1}, p_sample), p_range |-> Prim(2, {1}, p_range),
     p_int_segment |-> Prim(1, {1}, p_int_segment), p_add_last |-> Prim(2, {1}, p_add_last),
     p_remove_last |-> Prim(1, {1}, p_remove_last),
     p_spread |-> Prim(1, {0, 1, 2}, p_spread),
     p_slice_store |-> Prim(6, {1}, p_slice_store), p_to_slice |-> Prim(4, {1}, p_to_slice)]

FramesWords ==
    [p_frame_get_symbol |-> Prim(2, {1}, p_frame_get_symbol),
     p_frame_get_inline_key |-> Prim(1, {1}, p_frame_get_inline_key),
     p_frame_get |-> Prim(2, {1}, p_frame_get),
     p_frame_get_or |-> Prim(3, {1}, p_frame_get_or),
     p_frame_set_symbol |-> Prim(3, {0}, p_frame_set_symbol),
     p_frame_set_inline_key |-> Prim(2, {0}, p_frame_set_inline_key),
     p_frame_delete_at |-> Prim(2, {0}, p_frame_delete_at),
     p_frame_keys |-> Prim(1, {1}, p_frame_keys),
     p_frame_values |-> Prim(1, {1}, p_frame_values),
     p_frame_to_array |-> Prim(1, {1}, p_frame_to_array), p_merge |-> Prim(2, {1}, p_merge),
     p_frame |-> Prim(2, {1}, p_frame), p_has |-> Prim(2, {1}, p_has),
     p_update_at |-> Prim(3, {1}, p_update_at), p_group_by |-> Prim(2, {1}, p_group_by),
     p_select_values |-> Prim(2, {1}, p_select_values),
     p_select_keys |-> Prim(2, {1}, p_select_keys),
     p_json_to_frame |-> Prim(1, {1}, p_json_to_frame),
     p_frame_to_json |-> Prim(1, {1}, p_frame_to_json)]

ArithmeticWords ==
    [p_float_to_exact |-> Prim(1, {1}, p_float_to_exact),
     p_exact_to_float |-> Prim(1, {1}, p_exact_to_float),
     p_numerator |-> Prim(1, {1}, p_numerator),
     p_denominator |-> Prim(1, {1}, p_denominator), p_div |-> Prim(2, {1}, p_div),
     INPLACE_OP |-> Prim(2, {1}, INPLACE_OP),
     UNARY_QUANTITY_OP |-> Prim(1, {1}, UNARY_QUANTITY_OP),
     UNARY_MATH_OP_EXACT |-> Prim(1, {1}, UNARY_MATH_OP_EXACT),
     UNARY_MATH_OP_NAMED |-> Prim(1, {1}, UNARY_MATH_OP_NAMED),
     p_nan |-> Prim(1, {1}, p_nan), p_power |-> Prim(2, {1}, p_power),
     p_divmod |-> Prim(2, {2}, p_divmod), p_mod |-> Prim(2, {1}, p_mod),
     p_atan2 |-> Prim(2, {1}, p_atan2), p_eq_string |-> Prim(2, {1}, p_eq_string),
     p_base |-> Prim(0, {1}, p_base), p_magnitude |-> Prim(1, {1}, p_magnitude),
     p_unit_of |-> Prim(1, {1}, p_unit_of), apply_unit |-> Prim(1, {1}, apply_unit),
     p_unit |-> Prim(1, {0}, p_unit)]

WordsWords ==
    [p_dup |-> Prim(1, {2}, p_dup), p_drop |-> Prim(1, {0}, p_drop),
     p_swap |-> Prim(2, {2}, p_swap), p_over |-> Prim(2, {3}, p_over),
     p_nip |-> Prim(2, {1}, p_nip), p_rot |-> Prim(3, {3}, p_rot),
     p_depth |-> Prim(0, {1}, p_depth), p_pick |-> Prim(3, {3}, p_pick),
     p_pick_n |-> Prim(2, {3}, p_pick_n), p_roll |-> Prim(3, {2}, p_roll),
     p_dot |-> Prim(1, {0}, p_dot), p_dot_all |-> Prim(1, {0}, p_dot_all),
     p_see |-> Prim(1, {0}, p_see), p_apropos |-> Prim(1, {0}, p_apropos),
     p_emit_ |-> Prim(1, {0}, p_emit_), p_dots |-> Prim(1, {1}, p_dots),
     p_render |-> Prim(1, {1}, p_render), p_see_to_string |-> Prim(1, {1}, p_see_to_string),
     p_telic_version |-> Prim(0, {1}, p_telic_version), p_zeq |-> Prim(1, {1}, p_zeq),
     p_not |-> Prim(1, {1}, p_not), p_and |-> Prim(2, {1}, p_and),
     p_or |-> Prim(2, {1}, p_or), p_zeq_zbranch |-> Prim(1, {0}, p_zeq_zbranch),
     p_null |-> Prim(0, {1}, p_null), p_type_of |-> Prim(1, {1}, p_type_of),
     p_null_ |-> Prim(1, {1}, p_null_), p_size |-> Prim(1, {1}, p_size),
     p_size_len |-> Prim(1, {1}, p_size_len), p_curry |-> Prim(2, {1}, p_curry),
     p_2curry |-> Prim(3, {1}, p_2curry), p_ncurry |-> Prim(4, {1}, p_ncurry),
     p_execute |-> Prim(1, {0, 1}, p_execute), p_globals |-> Prim(0, {1}, p_globals),
     p_edit |-> Prim(0, {0}, p_edit), p_colors |-> Prim(0, {1}, p_colors),
     p_format |-> Prim(2, {1}, p_format), p_seed |-> Prim(1, {0}, p_seed),
     p_random |-> Prim(0, {1}, p_random), p_random_int |-> Prim(1, {1}, p_random_int),
     p_resample_indices_ext |-> Prim(2, {1}, p_resample_indices_ext),
     p_tick_every |-> Prim(1, {0}, p_tick_every)]

StringsWords ==
    [p_match_all |-> Prim(2, {1}, p_match_all), p_match |-> Prim(2, {1}, p_match),
     p_split |-> Prim(2, {1}, p_split), p_replace |-> Prim(3, {1}, p_replace),
     p_substring |-> Prim(3, {1}, p_substring),
     p_byte_substring |-> Prim(3, {1}, p_byte_substring),
     CHAR_INDEX_OP |-> Prim(2, {1}, CHAR_INDEX_OP),
     STRING_EXPLODE_OP |-> Prim(1, {1}, STRING_EXPLODE_OP),
     p_string_to_codepoints |-> Prim(1, {1}, p_string_to_codepoints),
     p_codepoint_to_char |-> Prim(1, {1}, p_codepoint_to_char),
     p_codepoints_to_string |-> Prim(1, {1}, p_codepoints_to_string),
     p_string_to_byte_vector |-> Prim(1, {1}, p_string_to_byte_vector),
     p_byte_vector_to_string |-> Prim(1, {1}, p_byte_vector_to_string),
     p_trim |-> Prim(1, {1}, p_trim), STRING_CASE_OP |-> Prim(1, {1}, STRING_CASE_OP),
     p_string_to_number |-> Prim(1, {1}, p_string_to_number), p_join |-> Prim(2, {1}, p_join),
     p_edit_distance |-> Prim(2, {1}, p_edit_distance)]

IndexingWords ==
    [p_at_i_array |-> Prim(2, {1}, p_at_i_array), p_at_i_segment |-> Prim(2, {1}, p_at_i_segment),
     p_at_i |-> Prim(2, {1}, p_at_i), p_at_i_local0 |-> Prim(1, {1}, p_at_i_local0),
     p_at_i_swap_local0 |-> Prim(2, {2}, p_at_i_swap_local0),
     p_at_i_depth_top |-> Prim(2, {2}, p_at_i_depth_top),
     p_at_i_depth |-> Prim(2, {3}, p_at_i_depth), p_at_i_lit |-> Prim(1, {1}, p_at_i_lit),
     p_at_i_lit_local0 |-> Prim(1, {2}, p_at_i_lit_local0),
     p_at_i_ll0 |-> Prim(1, {2}, p_at_i_ll0), p_gather_local0 |-> Prim(2, {1}, p_gather_local0),
     p_store_i |-> Prim(3, {1}, p_store_i), p_store_i_drop |-> Prim(3, {0}, p_store_i_drop),
     p_store_i_array |-> Prim(3, {1}, p_store_i_array),
     p_store_i_drop_array |-> Prim(3, {0}, p_store_i_drop_array),
     p_inc_store_i |-> Prim(1, {0}, p_inc_store_i), p_add_store_i |-> Prim(2, {0}, p_add_store_i)]

LogicWords ==
    [p_lvar |-> Prim(0, {1}, p_lvar), p_matches |-> Prim(2, {1}, p_matches),
     p_unify_keep |-> Prim(2, {1}, p_unify_keep), p_deref |-> Prim(1, {1}, p_deref),
     p_amb |-> Prim(2, {1}, p_amb), p_rest |-> Prim(1, {1}, p_rest),
     p_wildcard |-> Prim(0, {1}, p_wildcard)]

SystemWords ==
    [p_args |-> Prim(0, {1}, p_args), p_env |-> Prim(1, {1}, p_env),
     p_env_set |-> Prim(2, {0}, p_env_set), p_cd |-> Prim(1, {0}, p_cd),
     p_cwd |-> Prim(0, {1}, p_cwd), p_binary_dir |-> Prim(0, {1}, p_binary_dir),
     p_file_exists |-> Prim(1, {1}, p_file_exists), p_read_file |-> Prim(1, {1}, p_read_file),
     WRITE_FILE_OP |-> Prim(2, {0}, WRITE_FILE_OP),
     p_list_directory |-> Prim(1, {1}, p_list_directory),
     p_file_info |-> Prim(1, {1}, p_file_info),
     p_make_directory |-> Prim(1, {0}, p_make_directory),
     PATH_ACTION_OP |-> Prim(1, {0}, PATH_ACTION_OP),
     p_rename_file |-> Prim(2, {0}, p_rename_file), p_touch_file |-> Prim(1, {0}, p_touch_file),
     p_load_tsv |-> Prim(1, {1}, p_load_tsv), p_save_tsv |-> Prim(2, {0}, p_save_tsv),
     p_write |-> Prim(2, {0}, p_write), p_read |-> Prim(1, {1}, p_read),
     p_read_line |-> Prim(1, {1}, p_read_line),
     p_read_available |-> Prim(1, {1}, p_read_available),
     p_wait_readable |-> Prim(2, {1}, p_wait_readable), p_close |-> Prim(1, {0}, p_close),
     p_open_file |-> Prim(1, {1}, p_open_file), p_stdin |-> Prim(0, {1}, p_stdin),
     p_now |-> Prim(0, {1}, p_now), p_wall_now |-> Prim(0, {1}, p_wall_now),
     p_epoch_to_date |-> Prim(1, {1}, p_epoch_to_date),
     p_date_to_epoch |-> Prim(1, {1}, p_date_to_epoch),
     p_date_to_epoch_local |-> Prim(1, {1}, p_date_to_epoch_local),
     p_format_time |-> Prim(2, {1}, p_format_time), p_parse_time |-> Prim(2, {1}, p_parse_time),
     p_db_open |-> Prim(1, {1}, p_db_open), p_db_close |-> Prim(1, {0}, p_db_close),
     p_db_exec |-> Prim(3, {1}, p_db_exec), p_db_query |-> Prim(3, {2}, p_db_query)]

FormatsWords ==
    [p_yaml_to_frame |-> Prim(1, {1}, p_yaml_to_frame),
     p_yaml_documents |-> Prim(1, {1}, p_yaml_documents),
     p_frame_to_yaml |-> Prim(1, {1}, p_frame_to_yaml),
     p_write_arrow |-> Prim(2, {0}, p_write_arrow),
     p_value_to_bytes |-> Prim(1, {1}, p_value_to_bytes)]

MatricesWords ==
    [p_at_j |-> Prim(2, {1}, p_at_j), p_at_ij |-> Prim(3, {1}, p_at_ij),
     p_at_e |-> Prim(2, {1}, p_at_e), p_at_e_lit |-> Prim(1, {1}, p_at_e_lit),
     p_at_e_local0 |-> Prim(1, {1}, p_at_e_local0), p_at_e_ll0 |-> Prim(1, {2}, p_at_e_ll0),
     p_at_e_lit_local0 |-> Prim(1, {2}, p_at_e_lit_local0),
     p_at_e_swap_local0 |-> Prim(2, {2}, p_at_e_swap_local0),
     p_at_e_depth_top |-> Prim(2, {2}, p_at_e_depth_top),
     p_at_e_depth |-> Prim(2, {3}, p_at_e_depth),
     p_gather_e_local0 |-> Prim(2, {1}, p_gather_e_local0), p_store_e |-> Prim(3, {1}, p_store_e),
     p_store_e_drop |-> Prim(3, {0}, p_store_e_drop),
     p_store_e_lll0 |-> Prim(2, {2}, p_store_e_lll0), p_store_ij |-> Prim(4, {1}, p_store_ij),
     p_store_ij_drop |-> Prim(4, {0}, p_store_ij_drop), p_matmul |-> Prim(2, {1}, p_matmul),
     p_where |-> Prim(1, {1}, p_where), p_segment_crossings |-> Prim(5, {1}, p_segment_crossings),
     p_0_matrix |-> Prim(2, {1}, p_0_matrix),
     p_diagonal_matrix |-> Prim(2, {1}, p_diagonal_matrix),
     p_diagonal |-> Prim(1, {1}, p_diagonal), p_reshape |-> Prim(3, {1}, p_reshape),
     p_matrix |-> Prim(2, {1}, p_matrix), p_matrix_2 |-> Prim(3, {1}, p_matrix_2),
     p_matrix_to_array |-> Prim(1, {1}, p_matrix_to_array), p_dim |-> Prim(1, {2}, p_dim),
     p_transpose |-> Prim(1, {1}, p_transpose), p_mesh |-> Prim(3, {1}, p_mesh),
     p_submatrix |-> Prim(5, {1}, p_submatrix),
     REDUCE_OVERALL_HANDLER |-> Prim(1, {1}, REDUCE_OVERALL_HANDLER),
     p_variance |-> Prim(1, {1}, p_variance), p_quantile |-> Prim(2, {1}, p_quantile),
     p_cumulative_sum |-> Prim(1, {1}, p_cumulative_sum),
     p_matrix_range |-> Prim(3, {1}, p_matrix_range),
     p_select_rows |-> Prim(2, {1}, p_select_rows), p_augment |-> Prim(2, {1}, p_augment),
     p_vstack |-> Prim(2, {1}, p_vstack), p_ks_distance |-> Prim(2, {1}, p_ks_distance),
     p_correlation_kendall |-> Prim(2, {1}, p_correlation_kendall), p_fft |-> Prim(1, {1}, p_fft),
     p_ifft |-> Prim(2, {1}, p_ifft), p_cfft |-> Prim(1, {1}, p_cfft),
     p_icfft |-> Prim(1, {1}, p_icfft), p_magnitudes |-> Prim(1, {1}, p_magnitudes),
     p_hann |-> Prim(1, {1}, p_hann)]

HostWords ==
    [path_literal |-> Prim(0, {1}, path_literal),
     try_frame_key_token |-> Prim(2, {0, 2}, try_frame_key_token),
     p_load |-> Prim(1, {0}, p_load), p_copy |-> Prim(1, {1}, p_copy),
     p_reify |-> Prim(1, {1}, p_reify), p_gauges |-> Prim(0, {1}, p_gauges),
     p_callers |-> Prim(1, {1}, p_callers), p_trace |-> Prim(2, {1}, p_trace),
     p_embodies |-> Prim(1, {0}, p_embodies), p_embodies_final |-> Prim(1, {0}, p_embodies_final),
     p_shift |-> Prim(0, {1}, p_shift),
     catch_interpreter_error |-> Prim(0, {0, 2}, catch_interpreter_error),
     p_start_process |-> Prim(1, {1}, p_start_process),
     p_stdout_to_string |-> Prim(1, {1}, p_stdout_to_string),
     p_screen_frame |-> Prim(1, {0}, p_screen_frame),
     p_capture_bitmap |-> Prim(4, {1}, p_capture_bitmap),
     p_rotate_bitmap_angle |-> Prim(2, {1}, p_rotate_bitmap_angle),
     p_typed_text |-> Prim(0, {1}, p_typed_text), p_render_audio |-> Prim(1, {1}, p_render_audio),
     p_recent_audio |-> Prim(1, {1}, p_recent_audio), p_ffi_open |-> Prim(1, {1}, p_ffi_open),
     p_ffi_function |-> Prim(4, {0}, p_ffi_function),
     p_ffi_variadic |-> Prim(5, {0}, p_ffi_variadic), p_ffi_free |-> Prim(1, {0}, p_ffi_free),
     p_matrix_to_pointer |-> Prim(1, {1}, p_matrix_to_pointer),
     p_segment_to_pointer |-> Prim(1, {1}, p_segment_to_pointer),
     p_pointer_cell |-> Prim(0, {1}, p_pointer_cell),
     p_pointer_deref |-> Prim(1, {1}, p_pointer_deref),
     p_pointer_to_address |-> Prim(1, {1}, p_pointer_to_address),
     p_pointer_long |-> Prim(1, {1}, p_pointer_long),
     p_floats_to_matrix |-> Prim(2, {1}, p_floats_to_matrix),
     p_pointer_string_at |-> Prim(2, {1}, p_pointer_string_at)]

Sound ==
    FunctionalWords @@ CollectionsWords @@ FramesWords @@ ArithmeticWords @@ WordsWords
    @@ StringsWords @@ IndexingWords @@ LogicWords @@ SystemWords
    @@ FormatsWords @@ MatricesWords @@ HostWords

Leaky ==
    [p_map |-> Prim(2, {1}, p_map), p_nmap |-> Prim(4, {1}, p_nmap),
     p_pmap |-> Prim(4, {1}, p_pmap), p_pmap_reduce |-> Prim(6, {1}, p_pmap_reduce),
     p_times |-> Prim(2, {0}, p_times), p_i_times |-> Prim(2, {0}, p_i_times),
     p_fold_times |-> Prim(4, {1}, p_fold_times),
     p_rationalize |-> Prim(1, {1}, p_rationalize), p_man |-> Prim(1, {1}, p_man),
     p_unify |-> Prim(2, {1}, p_unify), p_read_arrow |-> Prim(1, {1}, p_read_arrow),
     p_bytes_to_value |-> Prim(1, {1}, p_bytes_to_value),
     REDUCE_AXIS_HANDLER |-> Prim(1, {1}, REDUCE_AXIS_HANDLER),
     p_shift_with |-> Prim(1, {1}, p_shift_with),
     p_ffi_call |-> Prim(2, {0, 1}, p_ffi_call), p_union |-> Prim(2, {1}, p_union),
     p_intersect |-> Prim(2, {1}, p_intersect), p_difference |-> Prim(2, {1}, p_difference),
     p_array_to_set |-> Prim(1, {1}, p_array_to_set),
     p_setclose |-> Prim(3, {1}, p_setclose), p_set |-> Prim(3, {1}, p_set),
     p_member |-> Prim(2, {1}, p_member), p_frameclose |-> Prim(3, {1}, p_frameclose),
     p_array_to_frame |-> Prim(1, {1}, p_array_to_frame),
     p_frame_set |-> Prim(3, {0}, p_frame_set), p_add |-> Prim(2, {1}, p_add),
     p_sub |-> Prim(2, {1}, p_sub), p_mul |-> Prim(2, {1}, p_mul),
     p_min2 |-> Prim(2, {1}, p_min2), p_max2 |-> Prim(2, {1}, p_max2),
     MATRIX_COMPARISON_OP |-> Prim(2, {1}, MATRIX_COMPARISON_OP),
     p_eq |-> Prim(2, {1}, p_eq), COMPARISON_ZBRANCH |-> Prim(2, {0}, COMPARISON_ZBRANCH),
     p_sort |-> Prim(1, {1}, p_sort), p_argsort |-> Prim(1, {1}, p_argsort)]
==============================================================================
