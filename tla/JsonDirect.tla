------------------------------ MODULE JsonDirect ------------------------------
(***************************************************************************)
(* How Python gets back a struct that stands alone: ThriftStruct.deserialize *)
(* does not go through JSONProtocolReader but walks the parsed text with the *)
(* schema in hand, down to Python values (deserialize_json_direct).  The     *)
(* walk is a function of the text; it is applied to each one the writer of   *)
(* JsonCodec makes.  Results are sets of <<path, scalar>>, as given and got. *)
(***************************************************************************)
EXTENDS JsonCodec

Raised == -2

\* What is left when a conversion raises: the `?'s hand it through to the caller.
Wrong == {<< << >>, Raised >>}


json_map_key_to_py(text, kind) ==
    ScalarOf(kind, IF kind = "num" THEN Num(text) ELSE Str(text))

(* json_value_to_py: the type of the schema says what is expected, a scalar   *)
(* of another kind gives 0, anything else raises.  The types and the sizes in *)
(* the text are not looked at, nor are the fields the schema does not have.   *)
(* (An array of the other kind of container is an error here; the code may    *)
(* also make something of it.)                                               *)
RECURSIVE json_value_to_py(_, _, _)
json_value_to_py(value, type, path) ==
    CASE type[1] \in Kinds -> {<<path, ScalarOf(type[1], value)>>}
      [] type[1] = "list" ->
           IF value.j # "list" THEN Wrong
           ELSE UNION {json_value_to_py(value.items[k], Tail(type), Append(path, k)) :
                         k \in DOMAIN value.items}
      [] type[1] = "map" ->
           IF value.j # "map" THEN Wrong
           ELSE UNION {json_value_to_py(value.pairs[text], ValueOf(type),
                                        Append(path, json_map_key_to_py(text, KeyOf(type)))) :
                         text \in DOMAIN value.pairs}
      [] type[1] = "struct" ->
           IF value.j # "obj" THEN Wrong
           ELSE UNION {json_value_to_py(value.fields[f.id].value, f.type, Append(path, f.id)) :
                         f \in {g \in Range(Structs[type[2]]) :
                                  g.known /\ g.id \in DOMAIN value.fields}}

(* The names of an object's members are ids, so none is "payload": the text   *)
(* is no envelope of thriftpy2, and the walk begins at its top.              *)
deserialize_json_direct(text, name) == json_value_to_py(text, <<"struct", name>>, << >>)

=============================================================================
