--------------------------- MODULE RootingFormats ---------------------------
(***************************************************************************)
(* The readers and writers of yaml.c, in the steps of RootSteps.  A reader *)
(* writes each value straight into a place that is marked: the slot of the *)
(* root table it was given, or an element of a parent already in place.    *)
(***************************************************************************)
EXTENDS RootSteps, RootingNumbers, RootingArithmetic

(* YAML.  Anchored values are kept in a rooted array of their own.         *)
load_advance == Check
load_remember_anchor(value) == Maybe(Store(value, "anchors"))
load_find_anchor(place) == Check \o Part(place, "anchors")
scalar_value(place) == Either(Alloc(place) \o ErrRet, Nothing(place))
load_scalar(place) == scalar_value(place)
load_key == Maybe(New("key") \o Store("key", "anchors"))

(* An element is put in place as soon as it exists; its own elements are   *)
(* then read into it in the same way.                                      *)
load_element(parent) ==
    Either(Alloc("element") \o ErrRet, load_find_anchor("element")) \o Store("element", parent)
load_sequence(keep) ==
    Check \o Alloc("node") \o ErrRet \o keep \o load_remember_anchor("node") \o ErrRet
    \o Loop(load_advance \o load_element("node"))
load_mapping(keep) ==
    Check \o Alloc("node") \o ErrRet \o keep \o load_remember_anchor("node") \o ErrRet
    \o Loop(load_advance \o load_key \o load_element("node")) \o Use("node")
load_node(keep) ==
    Choice(<<load_scalar("node") \o keep \o load_remember_anchor("node"), load_find_anchor("node") \o keep,
             load_sequence(keep), load_mapping(keep), Reject>>)
load_document(keep) ==
    Use("anchors") \o load_advance \o Sub(load_node(keep)) \o ErrRet \o load_advance

load_open ==
    Alloc("anchors") \o ErrRet \o Root("anchors") \o Maybe(Unroot \o Reject)
    \o Maybe(Fail \o Unroot \o Ret)
load_close == Unroot
load_single_document ==
    load_advance \o Maybe(Ret) \o Sub(load_document(SetRoot("node"))) \o ErrRet \o load_advance \o Check
(* One document of any kind, and one more that is a scalar.                *)
load_every_document ==
    Maybe(load_advance \o Sub(load_document(Store("node", "documents"))) \o ErrRet)
    \o Maybe(Use("anchors") \o load_advance \o load_scalar("node") \o Store("node", "documents"))

p_yaml_to_frame ==
    PeekTyped("source", 0) \o Sub(load_open) \o ErrRet \o Nothing("slot") \o Root("slot")
    \o Sub(load_single_document) \o TopRoot("parsed") \o Unroot \o load_close \o ErrRet \o Leave(1, "parsed")
p_yaml_documents ==
    PeekTyped("source", 0) \o Alloc("documents") \o ErrRet \o Root("documents")
    \o Sub(load_open) \o OnError(Unroot \o Ret)
    \o Sub(load_every_document) \o load_close \o Unroot \o ErrRet \o Leave(1, "documents")

(* A writer reads the value and gathers the text outside the heap.         *)
emit_value(value) == Loop(Use(value) \o Part(value, value) \o Check)
p_frame_to_yaml == Peek("value", 0) \o Check \o emit_value("value") \o New("text") \o Leave(1, "text")

(* arrow.c: a dataset's columns are made while the dataset is rooted.      *)
plan_column(column) == Use(column) \o Check
build_schema(dataset) == Use(dataset) \o Check
append_cell(column) == Maybe(Part("cell", column) \o Use("cell")) \o Use(column) \o Check
write_dataset ==
    Use("dataset") \o Loop(Part("column", "dataset") \o plan_column("column"))
    \o build_schema("dataset") \o Loop(Part("column", "dataset") \o Loop(append_cell("column"))) \o Check
p_write_arrow == PeekTyped("path", 0) \o PeekTyped("dataset", 1) \o Check \o Sub(write_dataset) \o ErrRet \o Drop(2)
fill_text_column(column) == Loop(Maybe(New("text") \o Store("text", column)))
(* A column of text; or of numbers, dates or quantities.                   *)
read_kind == Maybe(Fail)
fill_numeric_column(column) == Use(column)
read_column ==
    read_kind \o ErrRet
    \o Either(Alloc("column") \o ErrRet \o Store("column", "dataset") \o Sub(fill_text_column("column")),
              Alloc("column") \o ErrRet \o fill_numeric_column("column")
                \o Maybe(Sub(quantity_of("column", "quantity")) \o ErrRet \o Copy("column", "quantity"))
                \o Store("column", "dataset"))
(* The root is taken off when a handle was returned, and -1 counts as one. *)
read_dataset ==
    Check \o Either(Alloc("dataset") \o OnError(Unroot \o Ret) \o Root("dataset") \o Loop(Sub(read_column) \o ErrBreak)
                     \o Unroot,
                   Fail)
p_read_arrow == PeekTyped("path", 0) \o Check \o Sub(read_dataset) \o ErrRet \o Leave(1, "dataset")

(* serialize.c: what is read goes into its container at once; a container  *)
(* that is still open is on the data stack.  seen stands for an entry of   *)
(* reader->values, which a back reference repeats; a member that a set     *)
(* holds already is not kept.                                              *)
write_unit == Maybe(Fail)
write_frame_push == Maybe(Fail)
write_shared_header(value) == Use(value)
write_node(value) ==
    Choice(<<Use(value), write_shared_header(value), write_shared_header(value) \o write_frame_push,
             write_shared_header(value) \o write_unit \o write_frame_push, Fail>>)
write_next_child(container, child) == Use(container) \o Part(child, container)
write_value(value) ==
    write_node(value) \o Copy("container", value)
    \o Loop(ErrBreak \o write_next_child("container", "child") \o write_node("child")
            \o Maybe(Copy("container", "child")))
p_value_to_bytes ==
    Peek("value", 0) \o Check \o write_value("value") \o Check \o ErrRet \o New("bytes") \o Leave(1, "bytes")

Abandon(open) == OnError(Drop(open) \o Ret)
read_open_collection(c, open) == Maybe(Fail) \o Abandon(open) \o Alloc(c) \o Abandon(open) \o Push(c) \o Copy("seen", c)
read_unit == Maybe(Fail)
read_open_quantity(open) == read_unit \o Abandon(open)
read_leaf(open) == Alloc("leaf") \o Abandon(open) \o Use("source") \o Maybe(Copy("seen", "leaf"))
read_close(open) == Root("leaf") \o Alloc("quantity") \o Unroot \o Abandon(open) \o Copy("seen", "quantity") \o Copy("leaf", "quantity")
read_deliver(value, c) == Store(value, c)
set_add_member(value, c) == Part("member", c) \o Compare("member", value) \o Maybe(Store(value, c))

read_nested ==
    read_open_collection("inner", 1)
    \o Loop(read_leaf(2) \o Either(read_deliver("leaf", "inner"), set_add_member("leaf", "inner")))
    \o Drop(1) \o read_deliver("inner", "outer")
read_value ==
    Either(Maybe(read_open_quantity(0)) \o read_leaf(0) \o Maybe(read_close(0)) \o Copy("restored", "leaf"),
           read_open_collection("outer", 0)
             \o Loop(Choice(<<Maybe(read_open_quantity(1)) \o read_leaf(1) \o Maybe(read_close(1)) \o read_deliver("leaf", "outer"), read_nested,
                               read_deliver("seen", "outer")>>))
             \o Drop(1) \o Copy("restored", "outer"))
p_bytes_to_value == PeekTyped("source", 0) \o Check \o Sub(read_value) \o ErrRet \o Leave(1, "restored")
==============================================================================
