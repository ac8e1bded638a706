---------------------------- MODULE RootingFrames ----------------------------
(***************************************************************************)
(* The primitives of collections.c that build, read, change and search     *)
(* frames, and the JSON reader, in the steps of RootSteps.  Keys are       *)
(* symbols and so no objects; a path is an array of symbols.               *)
(***************************************************************************)
EXTENDS RootSteps

(* frame_walk.  Reading it only descends; WALK_VIVIFY makes the frames     *)
(* that are missing, each stored in its parent as soon as it is made.      *)
Descend(frame) == Copy("node", frame) \o Loop(Part("node", "node"))
Vivify(frame) ==
    Copy("node", frame)
    \o Loop(Either(Check \o Part("node", "node"),
                   Check \o AllocUnchecked("child") \o Store("child", "node") \o Copy("node", "child")))

frame_sort_dedup(frame) == Use(frame) \o Check

frame_set_pair(frame, key, value) ==
    Sub(Either(Store(value, frame),
               Either(Reject, Use(key) \o Check \o Vivify(frame) \o ErrRet \o Use(key) \o Store(value, "node"))))

p_frameclose ==
    Check \o New("frame") \o Root("frame")
    \o Loop(Peek("key", 1) \o Peek("value", 0) \o frame_set_pair("frame", "key", "value")
            \o OnError(Unroot \o Ret))
    \o Unroot \o Leave(3, "frame")

p_array_to_frame ==
    PeekTyped("source", 0) \o Check \o New("frame") \o Root("frame")
    \o Loop(Part("key", "source") \o Part("value", "source")
            \o frame_set_pair("frame", "key", "value") \o OnError(Unroot \o Ret))
    \o Unroot \o Leave(1, "frame")

p_frame_get_symbol == Peek("frame", 1) \o Check \o Part("value", "frame") \o Leave(2, "value")
p_frame_get_inline_key == PeekTyped("frame", 0) \o Check \o Part("value", "frame") \o Leave(1, "value")
p_frame_get ==
    PeekTyped("frame", 1) \o Peek("path", 0)
    \o Either(p_frame_get_symbol,
              Use("path") \o Check \o Descend("frame") \o Check \o Leave(2, "node"))
p_frame_get_or_short ==
    PeekTyped("frame", 2) \o Peek("path", 1) \o Peek("fallback", 0)
    \o Either(Part("node", "frame"), Use("path") \o Check \o Descend("frame"))
    \o Either(Leave(3, "node"), Leave(2, "fallback"))
p_frame_get_or ==
    PeekTyped("frame", 2) \o Peek("path", 1) \o Peek("fallback", 0)
    \o Either(Part("node", "frame"), Use("path") \o Check \o Descend("frame"))
    \o Either(Leave(3, "node"), Leave(3, "fallback"))

p_frame_set_symbol == Peek("frame", 2) \o Check \o Peek("value", 1) \o Store("value", "frame") \o Drop(3)
p_frame_set_inline_key == PeekTyped("frame", 0) \o Peek("value", 1) \o Store("value", "frame") \o Drop(2)
p_frame_set ==
    PeekTyped("frame", 2) \o Peek("path", 0) \o Peek("value", 1)
    \o Either(Store("value", "frame"),
              Use("path") \o Check \o Vivify("frame") \o ErrRet \o Use("path") \o Store("value", "node"))
    \o Drop(3)
p_frame_delete_at ==
    PeekTyped("frame", 1) \o Peek("path", 0)
    \o Either(Use("frame"), Use("path") \o Check \o Descend("frame") \o Check \o Use("node"))
    \o Check \o Drop(2)

p_frame_keys == PeekTyped("frame", 0) \o NewVector("result") \o Written("result") \o Leave(1, "result")
p_frame_values == PeekTyped("frame", 0) \o NewVector("result") \o CopyParts("frame", "result") \o Leave(1, "result")
p_frame_to_array == p_frame_values

p_merge ==
    PeekTyped("right", 0) \o PeekTyped("left", 1) \o New("result")
    \o CopyParts("left", "result") \o CopyParts("right", "result") \o Leave(2, "result")
p_frame ==
    PeekTyped("values", 0) \o PeekTyped("keys", 1) \o Check \o New("frame")
    \o CopyParts("values", "frame") \o frame_sort_dedup("frame") \o Leave(2, "frame")

p_has ==
    Peek("frame", 1) \o Peek("key", 0) \o Check
    \o Either(Use("frame"),
              Either(Loop(Part("item", "frame") \o Compare("item", "key")) \o ErrRet,
                     Use("key") \o Check \o Descend("frame") \o Check))
    \o LeavePlain(2)

(* The parent frame of the value is rooted while the callable runs: the    *)
(* callable may take it out of the frame that is on the stack.             *)
p_update_at_leaking ==
    PeekTyped("frame", 2) \o Peek("path", 0) \o PeekTyped("xt", 1)
    \o Use("path") \o Check \o Descend("frame") \o Check \o Root("node")
    \o Part("value", "node") \o Push("value") \o Call("xt", 1, 1) \o ErrRet
    \o Pop("value") \o Store("value", "node") \o Unroot \o Drop(2)
p_update_at ==
    PeekTyped("frame", 2) \o Peek("path", 0) \o PeekTyped("xt", 1)
    \o Either(Check \o Part("value", "frame") \o Push("value") \o Call("xt", 1, 1) \o ErrRet
                \o Pop("value") \o Store("value", "frame"),
              Use("path") \o Check \o Descend("frame") \o Check \o Root("node")
                \o Part("value", "node") \o Push("value") \o Call("xt", 1, 1)
                \o OnError(Unroot \o Ret) \o Pop("value") \o Store("value", "node") \o Unroot)
    \o Drop(2)

p_group_by_unrooted ==
    Check \o PeekTyped("rows", 1) \o New("groups") \o Check
    \o Loop(Alloc("bag") \o ErrRet \o Store("bag", "groups")
            \o Loop(Part("row", "rows") \o Store("row", "bag")))
    \o Leave(2, "groups")
p_group_by ==
    Check \o PeekTyped("rows", 1) \o New("groups") \o Root("groups") \o Maybe(Unroot \o Reject)
    \o Loop(Alloc("bag") \o OnError(Unroot \o Ret) \o Store("bag", "groups")
            \o Loop(Part("row", "rows") \o Store("row", "bag")))
    \o Loop(Part("bag", "groups") \o Use("bag") \o Compare("bag", "bag") \o Use("bag"))
    \o TopRoot("groups") \o Unroot \o Leave(2, "groups")

(* select-keys and select-values collect their matches in a rooted array;  *)
(* a captured path is stored in it as soon as it is written.               *)
predicate_holds(node) ==
    Check \o Copy("subject", node) \o Maybe(Part("subject", node)) \o Maybe(Check \o Compare("subject", node))
select_descendants(node) == Loop(Check \o Part(node, node))
select_walk(captured) ==
    Loop(Use("path") \o Choice(<<predicate_holds("node"), Check \o Part("node", "node"), select_descendants("node")>>))
    \o captured \o Store("captured", "matches")
SelectOp(captured) ==
    PeekTyped("path", 0) \o PeekTyped("frame", 1) \o New("matches") \o Root("matches")
    \o Sub(Loop(Copy("node", "frame") \o select_walk(captured)))
    \o Unroot \o ErrRet \o Leave(2, "matches")
p_select_values == SelectOp(Copy("captured", "node"))
p_select_keys == SelectOp(NewVector("captured") \o Written("captured"))

------------------------------------------------------------------------------
(* JSON.  The value being read is kept in a root made for it; a nested     *)
(* value is written into a slot of its parent that was added before it.    *)
json_decode_string == Use("json") \o Check
json_deliver(r, place) == IF place = "root" THEN SetRoot(r) ELSE Store(r, place)
json_parse_string(place) == Check \o New("leaf") \o json_decode_string \o json_deliver("leaf", place)
JsonScalar(place) ==
    Choice(<<Nothing("leaf") \o json_deliver("leaf", place), New("leaf") \o json_deliver("leaf", place),
             json_parse_string(place), Reject>>)
json_parse_array(r, place, element) ==
    Check \o New(r) \o json_deliver(r, place) \o Loop(Sub(element) \o ErrRet \o Check)
json_parse_object(r, place, element) ==
    Check \o New(r) \o json_deliver(r, place)
    \o Loop(Check \o json_decode_string \o Check \o Sub(element) \o ErrRet \o Check) \o frame_sort_dedup(r)
JsonValue(r, place, element) ==
    Choice(<<JsonScalar(place), json_parse_array(r, place, element), json_parse_object(r, place, element)>>)
json_parse_value == JsonValue("outer", "root", JsonValue("inner", "outer", JsonScalar("inner")))

p_json_to_frame ==
    PeekTyped("json", 0) \o Nothing("slot") \o Root("slot") \o Sub(json_parse_value)
    \o TopRoot("parsed") \o Unroot \o ErrRet \o Check \o Leave(1, "parsed")
json_write_value(value) == Loop(Use(value) \o Check \o Part(value, value))
p_frame_to_json ==
    Peek("value", 0) \o Copy("node", "value") \o json_write_value("node") \o Check \o New("text") \o Leave(1, "text")
==============================================================================
