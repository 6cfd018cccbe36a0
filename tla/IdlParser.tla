------------------------------ MODULE IdlParser ------------------------------
(***************************************************************************)
(* The IDL parser of parser/mod.rs: a recursive descent over the tokens of a   *)
(* document, one declaration per action.  What it has read so far decides how  *)
(* it reads what follows: a typedef and an enum change what a type name means, *)
(* an enum makes a default readable, a struct or a service can be extended.   *)
(* A parse returns where it stopped even if it failed, for the parser goes on  *)
(* from there when a default value cannot be read.                           *)
(***************************************************************************)
EXTENDS IdlText

VARIABLES
    position,   \* the next token
    type_aliases, enum_values, parsed_structs, parsed_services,
    includes, namespaces

tables == <<type_aliases, enum_values, parsed_structs, parsed_services, includes, namespaces>>
parser == <<position, at, tables>>

-----------------------------------------------------------------------------
(* current_token: there is none behind the last one.                          *)
current_token(p) == IF p <= Len(text) THEN text[p] ELSE Eof
Is(p, kinds)  == current_token(p).t \in kinds
IsKeyword(p, words) == Is(p, {"keyword"}) /\ current_token(p).s \in words

Ok(p, v) == [ok |-> TRUE, pos |-> p, val |-> v]
Err(p)   == [ok |-> FALSE, pos |-> p, val |-> << >>]
Then(r, Rest(_)) == IF r.ok THEN Rest(r) ELSE r

(* A token is consumed even if it is not the one that is expected.            *)
expect_token(p, kinds) == IF Is(p, kinds) THEN Ok(p + 1, current_token(p).s) ELSE Err(p + 1)

(* A separator that may be there.                                            *)
\* Mutant of Skip: one must be there.
SkipAlways(p, kinds) == p + 1

Skip(p, kinds) == IF Is(p, kinds) THEN p + 1 ELSE p

Type(c, of, name) == [c |-> c, of |-> of, name |-> name]
Base(c) == Type(c, << >>, "")
BaseNames == {"bool", "byte", "i16", "i32", "i64", "double", "string", "binary"}

Put(f, k, v) == [x \in DOMAIN f \cup {k} |-> IF x = k THEN v ELSE f[x]]

(* `as i16', `as i8'.                                                        *)
Wrap(n, range) == ((n + range \div 2) % range) - (range \div 2)

-----------------------------------------------------------------------------
(* Identifiers and types.                                                    *)

RECURSIVE finish_identifier_path_parts(_, _)
finish_identifier_path_parts(p, parts) ==
    IF ~Is(p, {"."}) THEN Ok(p, parts)
    ELSE IF Is(p + 1, Words)
         THEN finish_identifier_path_parts(p + 2, Append(parts, current_token(p + 1).s))
         ELSE Err(p + 2)

Dotted(parts) == FoldLeft(LAMBDA a, b : a \o "." \o b, Head(parts), Tail(parts))

(* A name is an alias by itself or by its part behind the last dot, or else    *)
(* the name of a struct.                                                     *)
\* Mutant of Resolve: a name is looked up with its qualifier only.
ResolveWhole(parts) ==
    IF Dotted(parts) \in DOMAIN type_aliases THEN type_aliases[Dotted(parts)]
    ELSE Type("struct", << >>, Dotted(parts))

Resolve(parts) ==
    LET aliases == {Dotted(parts), Last(parts)} \cap DOMAIN type_aliases IN
    IF Dotted(parts) \in aliases THEN type_aliases[Dotted(parts)]
    ELSE IF Last(parts) \in aliases THEN type_aliases[Last(parts)]
    ELSE Type("struct", << >>, Dotted(parts))

RECURSIVE parse_type(_)
parse_type(p) ==
    IF ~Is(p, {"identifier"}) THEN Err(p + 1)
    ELSE LET name == current_token(p).s IN
         CASE name \in BaseNames -> Ok(p + 1, Base(name))
           [] name \in {"list", "set"} ->
                Then(expect_token(p + 1, {"<"}), LAMBDA a :
                Then(parse_type(a.pos), LAMBDA elem :
                Then(expect_token(elem.pos, {">"}), LAMBDA b :
                    Ok(b.pos, Type(name, <<elem.val>>, "")))))
           [] name = "map" ->
                Then(expect_token(p + 1, {"<"}), LAMBDA a :
                Then(parse_type(a.pos), LAMBDA key :
                Then(expect_token(key.pos, {","}), LAMBDA b :
                Then(parse_type(b.pos), LAMBDA val :
                Then(expect_token(val.pos, {">"}), LAMBDA c :
                    Ok(c.pos, Type("map", <<key.val, val.val>>, "")))))))
           [] OTHER ->
                Then(finish_identifier_path_parts(p + 1, <<name>>), LAMBDA path :
                    Ok(path.pos, Resolve(path.val)))

RECURSIVE skip_balanced_block(_, _)
skip_balanced_block(p, depth) ==
    IF depth = 0 THEN Ok(p, << >>)
    ELSE IF Is(p, {"eof"}) THEN Err(p)
    ELSE skip_balanced_block(p + 1, CASE Is(p, {"("}) -> depth + 1
                                      [] Is(p, {")"}) -> depth - 1
                                      [] OTHER -> depth)

RECURSIVE skip_annotations(_)
skip_annotations(p) ==
    IF ~Is(p, {"("}) THEN Ok(p, << >>)
    ELSE Then(skip_balanced_block(p + 1, 1), LAMBDA r : skip_annotations(r.pos))

-----------------------------------------------------------------------------
(* Default values.  What is read is the list of its scalars.                  *)

Open == {"(", "{", "["}
Close == [c \in Open |-> CASE c = "(" -> ")" [] c = "{" -> "}" [] c = "[" -> "]"]

(* It stops at the end of the field, or of what holds it, which it knows by a   *)
(* separator, a bracket that it has not opened, or, behind at least one token,  *)
(* a number or a keyword.                                                    *)
StopsAt(p, depth, any) ==
    /\ \A c \in Open : depth[c] = 0
    /\ \/ Is(p, {";", ",", ")", "}"})
       \/ any /\ Is(p, {"number", "keyword"})

RECURSIVE skip_default_value(_, _, _)
skip_default_value(p, depth, any) ==
    IF Is(p, {"eof"}) \/ StopsAt(p, depth, any) THEN p
    ELSE skip_default_value(p + 1,
             [c \in Open |-> CASE Is(p, {c}) -> depth[c] + 1
                               [] Is(p, {Close[c]}) /\ depth[c] > 0 -> depth[c] - 1
                               [] OTHER -> depth[c]],
             TRUE)

SkipValue(p) == skip_default_value(p, [c \in Open |-> 0], FALSE)

(* A number, or a variant of an enum that has been read.                      *)
parse_i64_default(p) ==
    CASE Is(p, {"number"}) -> Ok(p + 1, current_token(p).n)
      [] Is(p, Words) ->
           Then(finish_identifier_path_parts(p + 1, <<current_token(p).s>>), LAMBDA r :
               LET known == /\ Len(r.val) = 2
                            /\ r.val[1] \in DOMAIN enum_values
                            /\ r.val[2] \in DOMAIN enum_values[r.val[1]]
               IN IF known THEN Ok(r.pos, enum_values[r.val[1]][r.val[2]]) ELSE Err(r.pos))
      [] OTHER -> Err(p + 1)

Truncated(c, n) == CASE c = "byte" -> Wrap(n, 256) [] c = "i16" -> Wrap(n, 65536) [] OTHER -> n

parse_bool_default(p) ==
    CASE Is(p, Words) /\ current_token(p).s \in {"true", "false"} ->
           Ok(p + 1, <<Num(IF current_token(p).s = "true" THEN 1 ELSE 0)>>)
      [] Is(p, {"number"}) -> Ok(p + 1, <<Num(IF current_token(p).n # 0 THEN 1 ELSE 0)>>)
      [] OTHER -> Err(p + 1)

(* The default of a struct is skipped, and is an empty struct.                *)
RECURSIVE parse_default_value(_, _), parse_default_items(_, _, _, _)
parse_default_value(p, type) ==
    CASE type.c = "bool" -> parse_bool_default(p)
      [] type.c \in {"byte", "i16", "i32", "i64", "double"} ->
           Then(parse_i64_default(p), LAMBDA r : Ok(r.pos, <<Num(Truncated(type.c, r.val))>>))
      [] type.c = "string" ->
           IF Is(p, Words \cup {"string"}) THEN Ok(p + 1, <<Lit(current_token(p).s)>>) ELSE Err(p + 1)
      [] type.c = "binary" ->
           IF Is(p, {"string"}) THEN Ok(p + 1, <<Lit(current_token(p).s)>>) ELSE Err(p + 1)
      [] type.c \in {"list", "set"} ->
           Then(expect_token(p, {"["}), LAMBDA a : parse_default_items(a.pos, type, "]", << >>))
      [] type.c = "map" ->
           Then(expect_token(p, {"{"}), LAMBDA a : parse_default_items(a.pos, type, "}", << >>))
      [] type.c = "struct" -> Ok(SkipValue(p), << >>)

(* Items up to the closing bracket: values, or a key, a colon and a value.     *)
parse_default_items(p, type, close, vals) ==
    IF Is(p, {close, "eof"}) THEN Then(expect_token(p, {close}), LAMBDA r : Ok(r.pos, vals))
    ELSE LET item == IF type.c # "map" THEN parse_default_value(p, type.of[1])
                     ELSE Then(parse_default_value(p, type.of[1]), LAMBDA k :
                          Then(expect_token(k.pos, {":"}), LAMBDA c :
                          Then(parse_default_value(c.pos, type.of[2]), LAMBDA v :
                              Ok(v.pos, k.val \o v.val))))
         IN Then(item, LAMBDA r :
                parse_default_items(Skip(r.pos, {",", ";"}), type, close, vals \o r.val))

-----------------------------------------------------------------------------
(* Fields.                                                                   *)

Field(id, req, type, name, default) ==
    [id |-> id, required |-> req, type |-> type, name |-> name, default |-> default]

(* A default that cannot be read is none; what is left of it is skipped from    *)
(* where the reading stopped.                                                *)
DefaultOf(p, type) ==
    LET r == parse_default_value(p, type) IN
    IF r.ok THEN Ok(r.pos, <<r.val>>) ELSE Ok(SkipValue(r.pos), << >>)

parse_field(p) ==
    IF ~Is(p, {"number"}) THEN Err(p + 1)
    ELSE
    Then(expect_token(p + 1, {":"}), LAMBDA colon :
    LET qualified == IsKeyword(colon.pos, {"required", "optional"})
        required  == IsKeyword(colon.pos, {"required"})
    IN
    Then(parse_type(IF qualified THEN colon.pos + 1 ELSE colon.pos), LAMBDA type :
    Then(skip_annotations(type.pos), LAMBDA a :
    Then(expect_token(a.pos, {"identifier"}), LAMBDA name :
    Then(IF Is(name.pos, {"="}) THEN DefaultOf(name.pos + 1, type.val)
                                ELSE Ok(name.pos, << >>), LAMBDA default :
    Then(skip_annotations(default.pos), LAMBDA b :
        Ok(Skip(b.pos, {";", ","}),
           Field(Wrap(current_token(p).n, 65536), required, type.val, name.val, default.val))))))))

(* `while let Ok(token)': the fields up to the closing bracket.               *)
RECURSIVE parse_fields(_, _, _)
parse_fields(p, close, fields) ==
    IF Is(p, {close, "eof"}) THEN Then(expect_token(p, {close}), LAMBDA r : Ok(r.pos, fields))
    ELSE Then(parse_field(p), LAMBDA f :
            parse_fields(IF close = ")" THEN Skip(f.pos, {","}) ELSE f.pos,
                         close, Append(fields, f.val)))

consume_optional_extends(p) ==
    IF ~IsKeyword(p, {"extends"}) THEN Ok(p, << >>)
    ELSE Then(expect_token(p + 1, Words), LAMBDA first :
         Then(finish_identifier_path_parts(first.pos, <<first.val>>), LAMBDA r :
             Ok(r.pos, <<Last(r.val)>>)))

(* The parent's fields come first; an id or a name that it has already is an    *)
(* error, and so is a parent that has not been read.                          *)
\* Mutant of merge_parent_fields: only the names are compared.
merge_fields_by_name(p, parent, fields) ==
    IF parent = << >> THEN Ok(p, fields)
    ELSE IF parent[1] \notin DOMAIN parsed_structs THEN Err(p)
    ELSE LET merged == parsed_structs[parent[1]] \o fields IN
         IF \E j \in DOMAIN merged : \E i \in 1 .. j - 1 :
               j > Len(merged) - Len(fields) /\ merged[i].name = merged[j].name
         THEN Err(p) ELSE Ok(p, merged)

merge_parent_fields(p, parent, fields) ==
    IF parent = << >> THEN Ok(p, fields)
    ELSE IF parent[1] \notin DOMAIN parsed_structs THEN Err(p)
    ELSE LET merged == parsed_structs[parent[1]] \o fields IN
         IF \E j \in DOMAIN merged : \E i \in 1 .. j - 1 :
               /\ j > Len(merged) - Len(fields)
               /\ merged[i].id = merged[j].id \/ merged[i].name = merged[j].name
         THEN Err(p) ELSE Ok(p, merged)

(* struct, exception and union.                                              *)
parse_struct(p) ==
    Then(expect_token(p + 1, {"identifier"}), LAMBDA name :
    Then(consume_optional_extends(name.pos), LAMBDA parent :
    Then(skip_annotations(parent.pos), LAMBDA a :
    Then(expect_token(a.pos, {"{"}), LAMBDA brace :
    Then(parse_fields(brace.pos, "}", << >>), LAMBDA fields :
    Then(skip_annotations(fields.pos), LAMBDA b :
    Then(merge_parent_fields(b.pos, parent.val, fields.val), LAMBDA merged :
        Ok(merged.pos, [name |-> name.val, fields |-> merged.val]))))))))

-----------------------------------------------------------------------------
(* Services.                                                                 *)

parse_method(p) ==
    LET oneway == IsKeyword(p, {"oneway"}) IN
    Then(parse_type(IF oneway THEN p + 1 ELSE p), LAMBDA type :
    Then(expect_token(type.pos, {"identifier"}), LAMBDA name :
    Then(expect_token(name.pos, {"("}), LAMBDA a :
    Then(parse_fields(a.pos, ")", << >>), LAMBDA args :
    Then(IF IsKeyword(args.pos, {"throws"})
         THEN Then(expect_token(args.pos + 1, {"("}), LAMBDA b : parse_fields(b.pos, ")", << >>))
         ELSE Ok(args.pos, << >>), LAMBDA throws :
    Then(skip_annotations(throws.pos), LAMBDA c :
        Ok(Skip(c.pos, {";", ","}),
           [name |-> name.val, type |-> type.val, arguments |-> args.val,
            exceptions |-> throws.val, oneway |-> oneway])))))))

RECURSIVE parse_methods(_, _)
parse_methods(p, methods) ==
    IF Is(p, {"}", "eof"}) THEN Then(expect_token(p, {"}"}), LAMBDA r : Ok(r.pos, methods))
    ELSE Then(parse_method(p), LAMBDA m : parse_methods(m.pos, Append(methods, m.val)))

merge_parent_methods(p, parent, methods) ==
    IF parent = << >> THEN Ok(p, methods)
    ELSE IF parent[1] \notin DOMAIN parsed_services THEN Err(p)
    ELSE LET merged == parsed_services[parent[1]] \o methods IN
         IF \E j \in DOMAIN merged : \E i \in 1 .. j - 1 :
               j > Len(merged) - Len(methods) /\ merged[i].name = merged[j].name
         THEN Err(p) ELSE Ok(p, merged)

parse_service(p) ==
    Then(expect_token(p + 1, {"identifier"}), LAMBDA name :
    Then(consume_optional_extends(name.pos), LAMBDA parent :
    Then(skip_annotations(parent.pos), LAMBDA a :
    Then(expect_token(a.pos, {"{"}), LAMBDA brace :
    Then(parse_methods(brace.pos, << >>), LAMBDA methods :
    Then(skip_annotations(methods.pos), LAMBDA b :
    Then(merge_parent_methods(b.pos, parent.val, methods.val), LAMBDA merged :
        Ok(merged.pos, [name |-> name.val, methods |-> merged.val]))))))))

-----------------------------------------------------------------------------
(* The other declarations.                                                   *)

parse_include(p) ==
    Then(expect_token(p + 1, {"string"}), LAMBDA r : Ok(Skip(r.pos, {";"}), r.val))

parse_namespace(p) ==
    Then(expect_token(p + 1, Words \cup {"*"}), LAMBDA scope :
    Then(expect_token(scope.pos, Words \cup {"string"}), LAMBDA first :
    Then(finish_identifier_path_parts(first.pos, <<first.val>>), LAMBDA r :
        Ok(Skip(r.pos, {";"}),
           [scope |-> IF Is(p + 1, {"*"}) THEN "*" ELSE scope.val, name |-> Dotted(r.val)]))))

parse_typedef(p) ==
    Then(parse_type(p + 1), LAMBDA type :
    Then(expect_token(type.pos, {"identifier"}), LAMBDA alias :
        Ok(Skip(alias.pos, {";"}), [alias |-> alias.val, type |-> type.val])))

(* A variant without a number is one above the variant before it.             *)
RECURSIVE parse_variants(_, _, _)
parse_variants(p, variants, next_value) ==
    IF Is(p, {"}", "eof"}) THEN Then(expect_token(p, {"}"}), LAMBDA r : Ok(r.pos, variants))
    ELSE IF Is(p, {",", ";"}) THEN parse_variants(p + 1, variants, next_value)
    ELSE Then(expect_token(p, {"identifier"}), LAMBDA name :
         Then(IF Is(name.pos, {"="})
              THEN Then(expect_token(name.pos + 1, {"number"}), LAMBDA r :
                       Ok(r.pos, current_token(name.pos + 1).n))
              ELSE Ok(name.pos, next_value), LAMBDA value :
             parse_variants(Skip(value.pos, {",", ";"}),
                            Put(variants, name.val, value.val), value.val + 1)))

parse_enum(p) ==
    Then(expect_token(p + 1, {"identifier"}), LAMBDA name :
    Then(expect_token(name.pos, {"{"}), LAMBDA brace :
    Then(parse_variants(brace.pos, << >>, 0), LAMBDA variants :
    Then(skip_annotations(variants.pos), LAMBDA a :
        Ok(Skip(a.pos, {";"}), [name |-> name.val, variants |-> variants.val])))))

(* The value of a constant is read and forgotten.                             *)
parse_const(p) ==
    Then(parse_type(p + 1), LAMBDA type :
    Then(expect_token(type.pos, {"identifier"}), LAMBDA name :
    Then(IF Is(name.pos, {"="}) THEN DefaultOf(name.pos + 1, type.val)
                                ELSE Ok(name.pos, << >>), LAMBDA r :
        Ok(Skip(r.pos, {";"}), << >>))))

-----------------------------------------------------------------------------
(* parse_document: one declaration at a time, told by its keyword.             *)

Begins(words) == at = "parsing" /\ IsKeyword(position, words)

DeclareStruct ==
    /\ Begins({"struct", "exception", "union"})
    /\ LET r == parse_struct(position) IN
       /\ r.ok
       /\ position' = r.pos
       /\ parsed_structs' = Put(parsed_structs, r.val.name, r.val.fields)
    /\ UNCHANGED <<text, at, type_aliases, enum_values, parsed_services, includes, namespaces>>

DeclareService ==
    /\ Begins({"service"})
    /\ LET r == parse_service(position) IN
       /\ r.ok
       /\ position' = r.pos
       /\ parsed_services' = Put(parsed_services, r.val.name, r.val.methods)
    /\ UNCHANGED <<text, at, type_aliases, enum_values, parsed_structs, includes, namespaces>>

DeclareInclude ==
    /\ Begins({"include"})
    /\ LET r == parse_include(position) IN
       /\ r.ok
       /\ position' = r.pos
       /\ includes' = Append(includes, r.val)
    /\ UNCHANGED <<text, at, type_aliases, enum_values, parsed_structs, parsed_services, namespaces>>

DeclareNamespace ==
    /\ Begins({"namespace"})
    /\ LET r == parse_namespace(position) IN
       /\ r.ok
       /\ position' = r.pos
       /\ namespaces' = Put(namespaces, r.val.scope, r.val.name)
    /\ UNCHANGED <<text, at, type_aliases, enum_values, parsed_structs, parsed_services, includes>>

DeclareTypedef ==
    /\ Begins({"typedef"})
    /\ LET r == parse_typedef(position) IN
       /\ r.ok
       /\ position' = r.pos
       /\ type_aliases' = Put(type_aliases, r.val.alias, r.val.type)
    /\ UNCHANGED <<text, at, enum_values, parsed_structs, parsed_services, includes, namespaces>>

(* From here on the name of the enum is an i32.                               *)
DeclareEnum ==
    /\ Begins({"enum"})
    /\ LET r == parse_enum(position) IN
       /\ r.ok
       /\ position' = r.pos
       /\ type_aliases' = Put(type_aliases, r.val.name, Base("i32"))
       /\ enum_values' = Put(enum_values, r.val.name, r.val.variants)
    /\ UNCHANGED <<text, at, parsed_structs, parsed_services, includes, namespaces>>

DeclareConst ==
    /\ Begins({"const"})
    /\ LET r == parse_const(position) IN r.ok /\ position' = r.pos
    /\ UNCHANGED <<text, at, tables>>

Keywords == {"struct", "exception", "union", "service", "include", "namespace", "typedef",
             "enum", "const"}

(* Any other token is skipped.                                               *)
SkipToken ==
    /\ at = "parsing" /\ position <= Len(text) /\ ~IsKeyword(position, Keywords)
    /\ position' = position + 1
    /\ UNCHANGED <<text, at, tables>>

Declared(keyword) ==
    CASE keyword \in {"struct", "exception", "union"} -> parse_struct(position).ok
      [] keyword = "service"   -> parse_service(position).ok
      [] keyword = "include"   -> parse_include(position).ok
      [] keyword = "namespace" -> parse_namespace(position).ok
      [] keyword = "typedef"   -> parse_typedef(position).ok
      [] keyword = "enum"      -> parse_enum(position).ok
      [] keyword = "const"     -> parse_const(position).ok

(* An error of one declaration is an error of the document.                   *)
ParseFails ==
    /\ Begins(Keywords) /\ ~Declared(current_token(position).s)
    /\ at' = "failed"
    /\ UNCHANGED <<text, position, tables>>

ParseEnds ==
    /\ at = "parsing" /\ position > Len(text)
    /\ at' = "parsed"
    /\ UNCHANGED <<text, position, tables>>

Parse ==
    \/ DeclareStruct
    \/ DeclareService
    \/ DeclareInclude
    \/ DeclareNamespace
    \/ DeclareTypedef
    \/ DeclareEnum
    \/ DeclareConst
    \/ SkipToken
    \/ ParseFails
    \/ ParseEnds

(* ThriftParser.struct_map: what a field's struct is looked up in.  Each struct  *)
(* is there under its name, and under that name behind the stem of every file   *)
(* that any file includes.                                                   *)
Qualified == {<<stem, s>> : stem \in Range(includes), s \in DOMAIN parsed_structs}
Joined(q) == q[1] \o "." \o q[2]

struct_map ==
    [n \in DOMAIN parsed_structs \cup {Joined(q) : q \in Qualified} |->
        IF n \in DOMAIN parsed_structs THEN parsed_structs[n]
        ELSE parsed_structs[(CHOOSE q \in Qualified : Joined(q) = n)[2]]]
=============================================================================
