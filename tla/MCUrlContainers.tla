-------------------------- MODULE MCUrlContainers --------------------------
(***************************************************************************)
(* Arguments for the members of UrlContainers: segments that are empty,    *)
(* dots, or hold a colon; params with and without a value, with the        *)
(* delimiters of the query in them, and keys that differ by case.          *)
(***************************************************************************)
EXTENDS UrlContainers

To(name, args) == {<<name, s>> : s \in args}
Plain(names) == {<<n>> : n \in names}

EditCalls ==
    To("segments_insert", {<<>>, <<"a", ":">>}) \cup To("segments_insert_range", {<<<<>>, <<"/">>>>})
    \cup To("segments_replace_at", {<<".">>}) \cup To("segments_push_back", {<<".", ".">>})
    \cup To("segments_replace", {<<>>, <<<<>>>>, <<<<"a", ":">>>>, <<<<".">>, <<>>>>})
    \cup To("segments_assign", {<<<<"b">>>>})
    \cup To("encoded_segments_insert", {<<"%", "2", "f">>})
    \cup To("encoded_segments_replace_at", {<<"a", ":">>})
    \cup To("encoded_segments_replace", {<<<<"%", "2", "e">>>>})
    \cup To("encoded_segments_assign", {<<<<"a", ":">>>>})
    \cup To("params_insert", {<<<<<<"a">>>>, <<<<"b">>, <<>>>>>>})
    \cup To("params_replace", {<<>>, <<<<<<"A">>, <<"&">>>>>>})
    \cup To("params_replace_at", {<<<<"a">>, <<"b">>>>})
    \cup To("params_assign", {<<>>, <<<<<<"b">>>>>>})
    \cup To("params_append", {<<<<<<"a">>, <<>>>>>>})
    \cup To("params_set_at", {<<"=">>})
    \cup To("encoded_params_insert", {<<<<<<"A">>, <<"b">>>>>>})
    \cup To("encoded_params_replace", {<<<<<<"b">>>>>>})
    \cup To("encoded_params_assign", {<<<<<<"%", "6", "1">>>>>>})
    \cup To("encoded_params_set_at", {<<"%", "3", "d">>})
    \cup To("params_erase_key", {<<<<"a">>, FALSE>>, <<<<"A">>, TRUE>>})
    \cup To("encoded_params_erase_key", {<<<<"%", "6", "1">>, FALSE>>})
    \cup To("params_set_key", {<<<<"a">>, <<"c">>, TRUE>>, <<<<"b">>, <<>>, FALSE>>})
    \cup To("encoded_params_set_key", {<<<<"a">>, <<>>, FALSE>>})
    \cup To("resolve", {<<>>, <<".", ".">>, <<"b">>, <<"/", "b">>, <<"/", "/", "g">>, <<"b", ":">>,
                          <<"?">>, <<".", "/", "/", "b">>})
    \cup Plain({"segments_erase", "segments_pop_back", "segments_clear", "params_erase",
                "params_unset_at", "normalize_scheme", "normalize_authority", "normalize_path",
                "normalize_query", "normalize_fragment", "normalize", "clear"})

Edited == {<<"A", ":">>, <<"/", "/", "h">>, <<"A", ":", "/", "/", "%", "6", "1">>, <<"#", "%", "6", "1">>}
=============================================================================
