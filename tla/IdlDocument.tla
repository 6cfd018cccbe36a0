----------------------------- MODULE IdlDocument -----------------------------
(***************************************************************************)
(* A document on its way through IncludeLoader and IdlParser.  An author writes *)
(* declarations into the files of a tree, first the files that others include,   *)
(* as Thrift allows them: names of types declared before, behind the stem of     *)
(* their file if it is another one, defaults of every kind, separators or none.  *)
(* Beside the tokens the author notes what each declaration means; the loader    *)
(* and the parser get the tokens only.                                        *)
(***************************************************************************)
EXTENDS IdlParser, IncludeLoader

CONSTANT Trees      \* [includes: path -> names, order: those with declarations, main last,
                    \*   size: bound on the declarations of the tree]

ASSUME DocumentAssumption ==
    \A t \in Trees : t.order \in Seq(DOMAIN t.includes) /\ t.size \in Nat

VARIABLES
    tree,       \* one of Trees
    here,       \* the file of `order' that is being written
    decls       \* ghost: what has been declared, in order

author == <<tree, here, decls>>
vars == <<text, parser, loader, author>>

file == tree.order[here]

(* The value behind an equals sign as it is written: `value' is what it means   *)
(* to the parser, none if it cannot be read, and `breaks' tells that it stops    *)
(* in the middle of a list with an item it cannot read, before a comma.        *)
Default(tokens, value, breaks) == [tokens |-> tokens, value |-> value, breaks |-> breaks]
NoDefault == Default(<< >>, << >>, FALSE)
Limit == <<Id("LIMIT")>>        \* a constant, which the parser does not keep

Of(kind) == {d \in Range(decls) : d.kind = kind}

(* A name behind its stem, if it is declared in another file.                 *)
Away(d) == d.file # file
Ref(d) == (IF Away(d) THEN <<Id(d.file.name), Sym(".")>> ELSE << >>) \o <<Id(d.name)>>

(* The value of an enum of another file cannot be read: three names.           *)
Numbers ==
    {Default(<<Num(200)>>, << <<Num(200)>> >>, FALSE), Default(Limit, << >>, FALSE)}
    \cup {Default(Ref(e) \o <<Sym("."), Id("GREEN")>>,
                  IF Away(e) THEN << >> ELSE << <<Num(e.variants["GREEN"])>> >>, FALSE) :
            e \in Of("enum")}

Defaults(type) ==
    {NoDefault} \cup
    CASE type.c \in {"i32", "i64"} -> Numbers
      [] type.c = "byte" -> {Default(<<Num(200)>>, << <<Num(-56)>> >>, FALSE)}
      [] type.c = "bool" -> {Default(<<Id("true")>>, << <<Num(1)>> >>, FALSE)}
      [] type.c = "list" ->
           {Default(<<Sym("["), Num(1), Sym(","), Num(2), Sym("]")>>, << <<Num(1), Num(2)>> >>, FALSE),
            Default(<<Sym("[")>> \o Limit \o <<Sym("]")>>, << >>, FALSE),
            Default(<<Sym("[")>> \o Limit \o <<Sym(","), Num(2), Sym("]")>>, << >>, TRUE)}
      [] type.c = "map" ->
           {Default(<<Sym("{"), Lit("a"), Sym(":"), Num(1), Sym("}")>>, << <<Lit("a"), Num(1)>> >>, FALSE)}
      [] type.c = "struct" ->
           {Default(<<Sym("{"), Lit("x"), Sym(":"), Num(1), Sym(","), Sym("}")>>, << << >> >>, FALSE)}

StructType(d) ==
    Type("struct", << >>, IF Away(d) THEN d.file.name \o "." \o d.name ELSE d.name)

(* A type as it is written, and what it means.                               *)
Written(tokens, type) == [tokens |-> tokens, type |-> type]

Types ==
    {Written(<<Id(c)>>, Base(c)) : c \in {"i32", "byte", "bool"}} \cup
    {Written(<<Id("list"), Sym("<"), Id("i32"), Sym(">")>>, Type("list", <<Base("i32")>>, "")),
     Written(<<Id("map"), Sym("<"), Id("string"), Sym(","), Id("i32"), Sym(">")>>,
             Type("map", <<Base("string"), Base("i32")>>, ""))}
    \cup {Written(Ref(d), d.type) : d \in Of("typedef") \cup Of("enum")}
    \cup {Written(Ref(d), StructType(d)) : d \in Of("struct")}

Separators == {<< >>, <<Sym(";")>>, <<Sym(",")>>}

FieldTokens(id, req, type, name, default, sep) ==
    <<Num(id), Sym(":")>> \o req \o type.tokens \o <<Id(name)>>
    \o (IF default = NoDefault THEN << >> ELSE <<Sym("=")>> \o default.tokens) \o sep

(* Nothing follows a default that cannot be read but what ends the value.      *)
Careful(default, sep) == default.value # << >> \/ default = NoDefault \/ sep # << >>

Init ==
    /\ tree \in Trees
    /\ here = 1
    /\ content = [p \in DOMAIN tree.includes |->
                    FlattenSeq([i \in DOMAIN tree.includes[p] |->
                                   <<Kw("include"), Lit(tree.includes[p][i])>>])]
    /\ stack = << >> /\ seen = {} /\ loaded = << >>
    /\ text = << >> /\ position = 1 /\ at = "writing"
    /\ type_aliases = << >> /\ enum_values = << >>
    /\ parsed_structs = << >> /\ parsed_services = << >>
    /\ includes = << >> /\ namespaces = << >>
    /\ decls = << >>

May(name) == at = "writing" /\ Len(decls) < tree.size /\ \A d \in Range(decls) : d.name # name

Declare(tokens, meant) ==
    /\ content' = [content EXCEPT ![file] = @ \o tokens]
    /\ decls' = Append(decls, meant @@ [file |-> file])
    /\ UNCHANGED <<text, parser, stack, seen, loaded, tree, here>>

Note(kind, name, careful) == [kind |-> kind, name |-> name, careful |-> careful, breaks |-> FALSE]

NextFile ==
    /\ at = "writing" /\ here < Len(tree.order)
    /\ here' = here + 1
    /\ UNCHANGED <<text, parser, loader, tree, decls>>

WriteNamespace ==
    /\ May("shop") /\ decls = << >>
    /\ Declare(<<Kw("namespace"), Sym("*"), Id("thrift"), Sym("."), Id("shop")>>,
               Note("namespace", "shop", TRUE))

WriteTypedef ==
    /\ May("Alias")
    /\ \E type \in {t \in Types : t.type.c \in {"i32", "list"}} :
         Declare(<<Kw("typedef")>> \o type.tokens \o <<Id("Alias")>>,
                 [kind |-> "typedef", name |-> "Alias", type |-> type.type,
                  careful |-> TRUE, breaks |-> FALSE])

WriteEnum ==
    /\ May("Color")
    /\ Declare(<<Kw("enum"), Id("Color"), Sym("{"), Id("RED"), Sym("="), Num(5), Sym(","),
                 Id("GREEN"), Sym("}")>>,
               [kind |-> "enum", name |-> "Color", type |-> Base("i32"),
                variants |-> [RED |-> 5, GREEN |-> 6], careful |-> TRUE, breaks |-> FALSE])

WriteConst ==
    /\ May("LIMIT")
    /\ \E default \in Defaults(Base("i32")) \ {NoDefault}, sep \in {<< >>, <<Sym(";")>>} :
         Declare(<<Kw("const"), Id("i32"), Id("LIMIT"), Sym("=")>> \o default.tokens \o sep,
                 Note("const", "LIMIT", Careful(default, sep)))

ParentName(tokens) == IF tokens = << >> THEN << >> ELSE <<Last(tokens).s>>

Struct(name, parent, own, careful, breaks) ==
    [kind |-> "struct", name |-> name, parent |-> parent, own |-> own,
     careful |-> careful, breaks |-> breaks]

WriteBase ==
    /\ May("Point")
    /\ Declare(<<Kw("struct"), Id("Point"), Sym("{")>>
                 \o FieldTokens(1, <<Kw("required")>>, Written(<<Id("byte")>>, Base("byte")), "x",
                                NoDefault, <<Sym(";")>>) \o <<Sym("}")>>,
               Struct("Point", << >>, <<Field(1, TRUE, Base("byte"), "x", << >>)>>, TRUE, FALSE))

(* A struct of two fields, that may extend the one before it, whose field has   *)
(* the id 1 and the name x, or one that is not there.                        *)
WriteStruct ==
    /\ May("Line")
    /\ \E parent \in {<< >>, <<Id("Unread")>>} \cup {Ref(d) : d \in Of("struct")},
       type \in Types, sep \in Separators, id \in {1, 2}, name \in {"x", "y"} :
      \E default \in Defaults(type.type) :
        LET next == Written(<<Id("i32")>>, Base("i32")) IN
        /\ \/ id = 2 /\ name = "y" /\ parent # <<Id("Unread")>>
           \/ type.tokens = <<Id("i32")>> /\ default = NoDefault /\ sep = <<Sym(";")>>
        /\ Declare(<<Kw("union"), Id("Line")>>
                     \o (IF parent = << >> THEN << >> ELSE <<Kw("extends")>> \o parent)
                     \o <<Sym("{")>>
                     \o FieldTokens(id, << >>, type, name, default, sep)
                     \o FieldTokens(3, <<Kw("optional")>>, next, "z", NoDefault, << >>)
                     \o <<Sym("("), Id("a"), Sym("="), Lit("b"), Sym(")"), Sym("}")>>,
                   Struct("Line", ParentName(parent),
                          <<Field(id, FALSE, type.type, name, default.value),
                            Field(3, FALSE, Base("i32"), "z", << >>)>>,
                          Careful(default, sep), default.breaks))

(* Two methods, the first with a default that cannot be read and exceptions.    *)
WriteService ==
    /\ May("Shop") /\ Of("struct") # {}
    /\ \E type \in {t \in Types : t.type.c \in {"i32", "list", "struct"}} :
         LET error == CHOOSE d \in Of("struct") : TRUE
             struct == StructType(error)
             i32 == Written(<<Id("i32")>>, Base("i32"))
         IN Declare(<<Kw("service"), Id("Shop"), Sym("{")>> \o type.tokens \o <<Id("get"), Sym("(")>>
                      \o FieldTokens(1, << >>, i32, "a", Default(Limit, << >>, FALSE), <<Sym(",")>>)
                      \o FieldTokens(2, << >>, type, "b", NoDefault, << >>)
                      \o <<Sym(")"), Kw("throws"), Sym("(")>>
                      \o FieldTokens(1, << >>, Written(Ref(error), struct), "e", NoDefault, << >>)
                      \o <<Sym(")"), Kw("oneway"), Id("void"), Id("put"), Sym("("), Sym(")"), Sym("}")>>,
                    [kind |-> "service", name |-> "Shop", parent |-> << >>,
                     careful |-> TRUE, breaks |-> FALSE, own |->
                       <<[name |-> "get", type |-> type.type, oneway |-> FALSE,
                          arguments |-> <<Field(1, FALSE, Base("i32"), "a", << >>),
                                          Field(2, FALSE, type.type, "b", << >>)>>,
                          exceptions |-> <<Field(1, FALSE, struct, "e", << >>)>>],
                         [name |-> "put", type |-> Type("struct", << >>, "void"), oneway |-> TRUE,
                          arguments |-> << >>, exceptions |-> << >>]>>])

(* A service that extends the one before it, whose second method is `put'.      *)
WriteSubService ==
    /\ May("Store")
    /\ \E name \in {"put", "stock"}, parent \in {<<Id("Unread")>>} \cup {Ref(d) : d \in Of("service")} :
         Declare(<<Kw("service"), Id("Store"), Kw("extends")>> \o parent
                   \o <<Sym("{"), Id("i32"), Id(name), Sym("("), Sym(")"), Sym(";"), Sym("}")>>,
                 [kind |-> "service", name |-> "Store", parent |-> ParentName(parent),
                  careful |-> TRUE, breaks |-> FALSE,
                  own |-> <<[name |-> name, type |-> Base("i32"), oneway |-> FALSE,
                             arguments |-> << >>, exceptions |-> << >>]>>])

StartLoading ==
    /\ at = "writing" /\ here = Len(tree.order)
    /\ Load(file)
    /\ UNCHANGED <<position, tables>>
    /\ UNCHANGED author

Write ==
    \/ NextFile
    \/ WriteNamespace
    \/ WriteTypedef
    \/ WriteEnum
    \/ WriteConst
    \/ WriteBase
    \/ WriteStruct
    \/ WriteService
    \/ WriteSubService
    \/ StartLoading

Reading ==
    /\ \/ LoaderStep /\ UNCHANGED <<position, tables>>
       \/ Parse /\ UNCHANGED loader
    /\ UNCHANGED author

Next == Write \/ Reading

Spec == Init /\ [][Next]_vars

-----------------------------------------------------------------------------
TypeOK ==
    /\ here \in DOMAIN tree.order
    /\ Range(loaded) \subseteq seen /\ seen \subseteq DOMAIN content
    /\ at \in {"writing", "loading", "parsing", "parsed", "failed"}
    /\ position \in 1 .. Len(text) + 1
    /\ \A t \in Range(text) : t.s \in STRING /\ t.n \in Int
    /\ \A s \in DOMAIN parsed_structs : \A i \in DOMAIN parsed_structs[s] :
         parsed_structs[s][i].id \in -32768 .. 32767
    /\ \A a \in DOMAIN type_aliases : type_aliases[a].c \in BaseNames \cup {"list", "struct"}
    /\ \A e \in DOMAIN enum_values : \A v \in DOMAIN enum_values[e] : enum_values[e][v] \in Int

Parents(d) == {e \in Of(d.kind) : d.parent = <<e.name>>}
Inherited(d) == IF Parents(d) = {} THEN << >> ELSE (CHOOSE e \in Parents(d) : TRUE).own

(* A parent that is not there, or a member of it that is declared again.       *)
Clashes(d) ==
    /\ d.kind \in {"struct", "service"}
    /\ \/ d.parent # << >> /\ Parents(d) = {}
       \/ \E f \in Range(Inherited(d)), g \in Range(d.own) :
             f.name = g.name \/ (d.kind = "struct" /\ f.id = g.id)

(* The struct of a field is found under the name that the field has for it.     *)
Found(f) == f.type.c = "struct" => f.type.name \in DOMAIN struct_map

AsMeant(d) ==
    CASE d.kind = "struct"    -> /\ d.name \in DOMAIN parsed_structs
                                /\ parsed_structs[d.name] = Inherited(d) \o d.own
                                /\ \A f \in Range(d.own) : Found(f)
      [] d.kind = "service"   -> d.name \in DOMAIN parsed_services /\ parsed_services[d.name] = Inherited(d) \o d.own
      [] d.kind = "enum"      -> d.name \in DOMAIN enum_values /\ enum_values[d.name] = d.variants
      [] d.kind = "namespace" -> namespaces["*"] = "thrift." \o d.name
      [] OTHER -> TRUE

(* Every declaration is read as it was meant, whatever stands before it:        *)
(* types by the names that are in force at that place, the parent's fields,      *)
(* defaults, and none for a default that cannot be read, which takes nothing      *)
(* with it that follows.  Of the author it needs a separator behind such a one.   *)
ReadAsMeant ==
    at = "parsed" /\ (\A d \in Range(decls) : d.careful) =>
        \A d \in Range(decls) : AsMeant(d)

(* A document of such an author is rejected for a file that is not there, for a  *)
(* parent that is not, for a member that clashes with one of the parent, or for  *)
(* a list as default in which an item that cannot be read has another one behind *)
(* it, and always for these.                                                 *)
RejectedForAReason ==
    LET gone == \E p \in Reached(Last(tree.order)) : \E i \in IncludesAt(content[p]) :
                  Places(NameAt(p, i), p.dir) = {}
        reason == gone \/ \E d \in Range(decls) : Clashes(d) \/ d.breaks IN
    at \in {"failed", "parsed"} /\ (\A d \in Range(decls) : d.careful) =>
        (at = "failed" <=> reason)
=============================================================================
