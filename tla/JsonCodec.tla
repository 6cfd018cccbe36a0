------------------------------ MODULE JsonCodec ------------------------------
(***************************************************************************)
(* A struct on its way through the JSON protocol.  As in StructCodec, the    *)
(* serialiser and the deserialiser of serde.rs call the protocol once per    *)
(* action; here the writer builds a tree on a stack of frames and the reader *)
(* walks it with another one.  The tree does not keep the order of what was  *)
(* written: an object has its members in the order of their keys as text,   *)
(* and the keys of a map become text.  So what arrives is compared by place: *)
(* a path leads to each scalar through field ids, positions and map keys.    *)
(***************************************************************************)
EXTENDS Integers, Sequences, FiniteSets, SequencesExt

CONSTANTS
    Structs,    \* name -> fields [id, type, known] in the order of the IDL;
                \* known: the reader's schema has the field
    Roots,      \* the structs that may be sent
    Scalars,    \* the values of a scalar, NaN apart
    MaxSize     \* bound: items of a container

(* A type is a sequence: <<"num">> for bool, byte, i16 and i32, <<"str">>    *)
(* for i64, string and binary, which are all text in JSON, <<"dbl">>,        *)
(* <<"struct", name>>, <<"list">> \o element, and <<"map", key>> \o value,   *)
(* where the key is "num" or "str".                                         *)
Kinds  == {"num", "str", "dbl"}
TTypes == Kinds \cup {"struct", "list", "map"}
Words  == TTypes \cup DOMAIN Structs
Field  == [id : Nat, type : Seq(Words), known : BOOLEAN]

ASSUME JsonAssumption ==
    /\ Roots \subseteq DOMAIN Structs
    /\ \A s \in DOMAIN Structs : Structs[s] \in Seq(Field)
    /\ 0 \in Scalars /\ Scalars \subseteq Nat
    /\ MaxSize \in Nat

FieldTypes == UNION {{f.type : f \in Range(Structs[s])} : s \in DOMAIN Structs}
Parts(t)   == {SubSeq(t, k, Len(t)) : k \in DOMAIN t}

(* Each of these types is a simple one, or made of others of them, as the     *)
(* enum ThriftType has it.                                                  *)
Closed(types) ==
    \A t \in types :
        \/ \E kind \in Kinds : t = <<kind>>
        \/ \E s \in DOMAIN Structs : t = <<"struct", s>>
        \/ \E elem \in types : t = <<"list">> \o elem
        \/ \E key \in {"num", "str"}, val \in types : t = <<"map", key>> \o val

ASSUME SchemaAssumption ==
    \E types \in SUBSET UNION {Parts(t) : t \in FieldTypes} :
        FieldTypes \subseteq types /\ Closed(types)

VARIABLES
    asMessage,  \* the struct is the body of a message, as in every call, or stands
                \* alone: written by ThriftStruct.serialize, read by a user of the
                \* Rust reader.  JsonDirect has the reader of ThriftStruct.deserialize.
    wtodo,      \* the calls the serialiser has still to make, next first
    wstack,     \* JSONProtocolWriter.stack, top first
    doc,        \* what it has written: at most one JSON value
    rtodo,      \* the calls the deserialiser has still to make
    rstack,     \* JSONProtocolReader.stack, top first
    root,       \* .root, the parsed text
    given,      \* ghost: <<path, scalar>> written, in fields the reader knows
    got         \* ghost: <<path, scalar>> read

writer == <<wtodo, wstack, doc, given>>
reader == <<rtodo, rstack, root, got>>
vars == <<asMessage, writer, reader>>

NaN == -1
Values(type) == IF type = "dbl" THEN Scalars \cup {NaN} ELSE Scalars

(* ttype_to_json_name; json_name_to_ttype is its inverse.                    *)
JsonName == [num |-> "i32", str |-> "str", dbl |-> "dbl",
             struct |-> "rec", list |-> "lst", map |-> "map"]
TTypeNamed(name) == {t \in DOMAIN JsonName : JsonName[t] = name}

(* serde_json values.  A number and a text with the same digits are          *)
(* different values, and the same key of an object.                          *)
Num(v)      == [j |-> "num", v |-> v]
Str(v)      == [j |-> "str", v |-> v]
Obj(fields) == [j |-> "obj", fields |-> fields]
Array(elem, items)     == [j |-> "list", elem |-> elem, size |-> Len(items), items |-> items]
Object(key, val, pairs) == [j |-> "map", key |-> key, val |-> val,
                            size |-> Cardinality(DOMAIN pairs), pairs |-> pairs]

Insert(f, k, x) == [i \in DOMAIN f \cup {k} |-> IF i = k THEN x ELSE f[i]]
Push(x, s) == <<x>> \o s
Pop(s)     == IF s = << >> THEN s ELSE Tail(s)

(* 1, 10, 2: members in the order of their keys as text, for keys below 100. *)
TextRank(n) == IF n < 10 THEN 20 * n ELSE 2 * n + 1
InTextOrder(keys) ==
    CHOOSE order \in [1 .. Cardinality(keys) -> keys] :
        /\ Range(order) = keys
        /\ \A i, j \in DOMAIN order : i < j => TextRank(order[i]) < TextRank(order[j])

Call(op, type, path, known) ==
    [op |-> op, type |-> type, path |-> path, known |-> known, at |-> 0]
At(call, n) == [call EXCEPT !.at = n]
Calls ==
    [op : {"struct", "fields", "list", "listend", "map", "mapend", "key"} \cup Kinds,
     type : Seq(Words), path : Seq(Nat), known : BOOLEAN, at : Nat]

ValueCall(type, path, known) == Call(Head(type), type, path, known)
KeyCall(type, path, known)   == Call("key", type, path, known)

KeyOf(type)   == type[2]
ValueOf(type) == Tail(Tail(type))

TypeOK ==
    /\ asMessage \in BOOLEAN
    /\ wtodo \in Seq(Calls) /\ rtodo \in Seq(Calls)
    /\ \A w \in Range(wstack) : w.f \in {"message", "struct", "list", "map"}
    /\ \A r \in Range(rstack) : r.f \in {"struct", "list", "map"}
    /\ Len(doc) <= 1 /\ Len(root) <= 1
    /\ \A p \in given : p[1] \in Seq(Nat) /\ p[2] \in Scalars \cup {NaN}
    /\ \A p \in got : p[1] \in Seq(Nat) /\ p[2] \in Scalars

(* The fields of a message's body are written without write_struct_begin.   *)
RootCall(name) == Call("struct", <<"struct", name>>, << >>, TRUE)

Init ==
    /\ asMessage \in BOOLEAN
    /\ \E name \in Roots : wtodo = <<RootCall(name)>> /\ rtodo = <<RootCall(name)>>
    /\ wstack = << >> /\ doc = << >>
    /\ rstack = << >> /\ root = << >>
    /\ given = {} /\ got = {}

-----------------------------------------------------------------------------
(* The writer.                                                              *)

Writes(op) == wtodo # << >> /\ Head(wtodo).op = op

StructFrame     == [f |-> "struct", fields |-> << >>, current |-> << >>]
ListFrame(elem) == [f |-> "list", elem |-> elem, items |-> << >>]
MapFrame(k, v)  == [f |-> "map", key |-> k, val |-> v, pairs |-> << >>, pending |-> << >>]

(* The text a key becomes: the digits of a number, a text as it is.          *)
KeyText(json) == json.v

(* A finished frame.                                                        *)
FrameToValue(frame) ==
    CASE frame.f = "struct" -> Obj(frame.fields)
      [] frame.f = "list"   -> Array(frame.elem, frame.items)
      [] frame.f = "map"    -> Object(frame.key, frame.val, frame.pairs)

(* A struct takes the value for the field that was begun, a list appends it, *)
(* a map takes keys and values by turns.                                    *)
\* Mutant of Accept: a map does not forget the key that its value completes.
AcceptKeepsKey(frame, v) ==
    CASE frame.f = "struct" /\ frame.current # << >> ->
           [frame EXCEPT !.fields = Insert(@, frame.current[1].id,
                                           [name |-> frame.current[1].name, value |-> v]),
                         !.current = << >>]
      [] frame.f = "list" -> [frame EXCEPT !.items = Append(@, v)]
      [] frame.f = "map" /\ frame.pending # << >> ->
           [frame EXCEPT !.pairs = Insert(@, KeyText(frame.pending[1]), v)]
      [] frame.f = "map" /\ frame.pending = << >> -> [frame EXCEPT !.pending = <<v>>]
      [] OTHER -> frame

Accept(frame, v) ==
    CASE frame.f = "struct" /\ frame.current # << >> ->
           [frame EXCEPT !.fields = Insert(@, frame.current[1].id,
                                           [name |-> frame.current[1].name, value |-> v]),
                         !.current = << >>]
      [] frame.f = "list" -> [frame EXCEPT !.items = Append(@, v)]
      [] frame.f = "map" /\ frame.pending # << >> ->
           [frame EXCEPT !.pairs = Insert(@, KeyText(frame.pending[1]), v), !.pending = << >>]
      [] frame.f = "map" /\ frame.pending = << >> -> [frame EXCEPT !.pending = <<v>>]
      [] OTHER -> frame

(* push_value writes the value out if there is no frame.                    *)
PushValue(v, stack) ==
    IF stack = << >>
    THEN wstack' = stack /\ doc' = <<v>>
    ELSE wstack' = Push(Accept(Head(stack), v), Tail(stack)) /\ UNCHANGED doc

(* write_message_begin pushes the frame of the body with its own.           *)
WriteStructBegin ==
    /\ Writes("struct")
    /\ wstack' = IF asMessage /\ wstack = << >>
                 THEN <<StructFrame, [f |-> "message"]>>
                 ELSE Push(StructFrame, wstack)
    /\ wtodo' = Push(At([Head(wtodo) EXCEPT !.op = "fields"], 1), Tail(wtodo))
    /\ UNCHANGED <<asMessage, doc, given, reader>>

(* The fields in the order of the schema, those without a value left out.   *)
WriteFieldBegin ==
    /\ Writes("fields")
    /\ LET call == Head(wtodo) IN
       \E i \in DOMAIN Structs[call.type[2]] : LET f == Structs[call.type[2]][i] IN
         /\ i >= call.at
         /\ wtodo' = <<ValueCall(f.type, Append(call.path, f.id), call.known /\ f.known),
                       At(call, i + 1)>> \o Tail(wtodo)
         /\ wstack' = Push([Head(wstack) EXCEPT
                              !.current = <<[id |-> f.id, name |-> JsonName[f.type[1]]]>>],
                           Tail(wstack))
    /\ UNCHANGED <<asMessage, doc, given, reader>>

(* write_field_stop does nothing.  write_struct_end writes the value out if  *)
(* it was the outermost.                                                    *)
WriteStructEnd ==
    /\ Writes("fields")
    /\ wtodo' = Tail(wtodo)
    /\ IF Len(wstack) = 2 /\ wstack[2].f = "message"
       THEN UNCHANGED <<wstack, doc>>
       ELSE PushValue(FrameToValue(Head(wstack)), Tail(wstack))
    /\ UNCHANGED <<asMessage, given, reader>>

(* The body becomes the last element of the message.                        *)
WriteMessageEnd ==
    /\ wtodo = << >> /\ wstack # << >>
    /\ wstack' = Tail(Tail(wstack))
    /\ doc' = <<[j |-> "message", body |-> FrameToValue(Head(wstack))]>>
    /\ UNCHANGED <<asMessage, wtodo, given, reader>>

(* serde_json has no number for NaN or an infinity: write_double takes 0.    *)
\* Mutant of ScalarJson: NaN is written as it is.
ScalarJsonNaN(kind, v) == IF kind = "str" THEN Str(v) ELSE Num(v)

ScalarJson(kind, v) == IF kind = "str" THEN Str(v) ELSE Num(IF v = NaN THEN 0 ELSE v)

WriteScalar ==
    /\ wtodo # << >> /\ Head(wtodo).op \in Kinds
    /\ LET call == Head(wtodo) IN
       \E v \in Values(call.op) :
         /\ PushValue(ScalarJson(call.op, v), wstack)
         /\ given' = IF call.known THEN given \cup {<<call.path, v>>} ELSE given
    /\ wtodo' = Tail(wtodo)
    /\ UNCHANGED <<asMessage, reader>>

(* A pair is a call for its key, which leaves one for its value.             *)
WriteKey ==
    /\ Writes("key")
    /\ LET call == Head(wtodo) IN
       /\ PushValue(ScalarJson(KeyOf(call.type), call.at), wstack)
       /\ wtodo' = Push(ValueCall(ValueOf(call.type), Append(call.path, call.at), call.known),
                        Tail(wtodo))
    /\ UNCHANGED <<asMessage, given, reader>>

(* A decoded value that is written again takes the types of an empty         *)
(* container for String.                                                    *)
ElemNames(n, type) == {JsonName[type]} \cup (IF n = 0 THEN {"str"} ELSE {})

WriteListBegin ==
    /\ Writes("list")
    /\ LET call == Head(wtodo)  elem == Tail(call.type) IN
       \E n \in 0 .. MaxSize :
         /\ \E name \in ElemNames(n, elem[1]) : wstack' = Push(ListFrame(name), wstack)
         /\ wtodo' = [k \in 1 .. n |-> ValueCall(elem, Append(call.path, k), call.known)]
                       \o <<[call EXCEPT !.op = "listend"]>> \o Tail(wtodo)
    /\ UNCHANGED <<asMessage, doc, given, reader>>

(* The keys of a dict, in any order.                                        *)
WriteMapBegin ==
    /\ Writes("map")
    /\ LET call == Head(wtodo) IN
       \E n \in 0 .. MaxSize : \E keys \in [1 .. n -> Scalars] :
         /\ IsInjective(keys)
         /\ \E k \in ElemNames(n, KeyOf(call.type)), v \in ElemNames(n, ValueOf(call.type)[1]) :
              wstack' = Push(MapFrame(k, v), wstack)
         /\ wtodo' = [i \in 1 .. n |-> At(KeyCall(call.type, call.path, call.known), keys[i])]
                       \o <<[call EXCEPT !.op = "mapend"]>> \o Tail(wtodo)
    /\ UNCHANGED <<asMessage, doc, given, reader>>

WriteContainerEnd ==
    /\ wtodo # << >> /\ Head(wtodo).op \in {"listend", "mapend"}
    /\ PushValue(FrameToValue(Head(wstack)), Tail(wstack))
    /\ wtodo' = Tail(wtodo)
    /\ UNCHANGED <<asMessage, given, reader>>

-----------------------------------------------------------------------------
(* The reader, once everything is written.                                  *)

Written == wtodo = << >> /\ wstack = << >>
Reads(op) == Written /\ rtodo # << >> /\ Head(rtodo).op = op

ReadStruct(fields) ==
    [f |-> "struct", fields |-> fields, keys |-> InTextOrder(DOMAIN fields),
     index |-> 1, value |-> << >>]
ReadList(json) == [f |-> "list", items |-> json.items, index |-> 1]
ReadMap(json)  ==
    [f |-> "map", key |-> json.key, pairs |-> json.pairs,
     keys |-> InTextOrder(DOMAIN json.pairs), index |-> 1, readingKey |-> TRUE]

(* map_key_to_value: the text of a key as the type of the map has it.        *)
\* Mutant of MapKeyToValue: the key stays text.
MapKeyToValueText(name, text) == Str(text)

MapKeyToValue(name, text) == IF name = "i32" THEN Num(text) ELSE Str(text)

(* pop_scalar is three operators: whether the frame has another value, the   *)
(* value, and the stack after it.  A struct has the value of the field that  *)
(* was begun, and only once.                                                *)
HasNext(stack) ==
    IF stack = << >> THEN root # << >>
    ELSE LET frame == Head(stack) IN
         CASE frame.f = "struct" -> frame.value # << >>
           [] frame.f = "list"   -> frame.index <= Len(frame.items)
           [] frame.f = "map"    -> frame.index <= Len(frame.keys)

NextValue(stack) ==
    IF stack = << >> THEN root[1]
    ELSE LET frame == Head(stack) IN
         CASE frame.f = "struct" -> frame.value[1]
           [] frame.f = "list"   -> frame.items[frame.index]
           [] frame.f = "map"    ->
                LET text == frame.keys[frame.index] IN
                IF frame.readingKey THEN MapKeyToValue(frame.key, text) ELSE frame.pairs[text]

\* Mutant of AfterNext: a map goes to the next pair with every value.
AfterNextEveryValue(stack) ==
    IF stack = << >> THEN stack
    ELSE LET frame == Head(stack) IN
         Push(CASE frame.f = "struct" -> [frame EXCEPT !.value = << >>]
                [] frame.f = "list"   -> [frame EXCEPT !.index = @ + 1]
                [] frame.f = "map"    -> [frame EXCEPT !.readingKey = ~@, !.index = @ + 1],
              Tail(stack))

AfterNext(stack) ==
    IF stack = << >> THEN stack
    ELSE LET frame == Head(stack) IN
         Push(CASE frame.f = "struct" -> [frame EXCEPT !.value = << >>]
                [] frame.f = "list"   -> [frame EXCEPT !.index = @ + 1]
                [] frame.f = "map"    ->
                     [frame EXCEPT !.readingKey = ~@,
                                   !.index = IF frame.readingKey THEN @ ELSE @ + 1],
              Tail(stack))

TakesRoot == IF rstack = << >> THEN root' = << >> ELSE UNCHANGED root

(* A message is parsed and its body becomes the first frame; root stays.    *)
ReadMessageBegin ==
    /\ asMessage /\ Reads("struct") /\ rstack = << >> /\ root = << >>
    /\ root' = doc
    /\ rstack' = <<ReadStruct(doc[1].body.fields)>>
    /\ rtodo' = Push([Head(rtodo) EXCEPT !.op = "fields"], Tail(rtodo))
    /\ UNCHANGED <<asMessage, got, writer>>

(* The struct that stands alone is parsed and taken in one call.  No caller   *)
(* of this crate but the tests of json.rs reads one so: Python has another    *)
(* way, which is in JsonDirect.                                              *)
CanReadStruct ==
    IF rstack = << >> THEN TRUE
    ELSE HasNext(rstack) /\ NextValue(rstack).j = "obj"

ReadStructBegin ==
    /\ Reads("struct") /\ ~(asMessage /\ rstack = << >>)
    /\ CanReadStruct
    /\ LET v == IF rstack = << >> THEN doc[1] ELSE NextValue(rstack) IN
       rstack' = Push(ReadStruct(v.fields), AfterNext(rstack))
    /\ rtodo' = Push([Head(rtodo) EXCEPT !.op = "fields"], Tail(rtodo))
    /\ UNCHANGED <<asMessage, root, got, writer>>

(* The reader's field of that id: in a struct that is skipped there is none. *)
Lookup(call, id) ==
    IF call.known
    THEN {f \in Range(Structs[call.type[2]]) : f.known /\ f.id = id}
    ELSE {}

(* A field of the schema is read by the type the schema has for it, any      *)
(* other one is skipped by the type that comes with it.                     *)
FieldCall(call, id, ttype) ==
    LET path == Append(call.path, id) IN
    IF Lookup(call, id) = {}
    THEN ValueCall(<<ttype>>, path, FALSE)
    ELSE ValueCall((CHOOSE f \in Lookup(call, id) : TRUE).type, path, TRUE)

HasField == Head(rstack).f = "struct" /\ Head(rstack).index <= Len(Head(rstack).keys)

ReadFieldBegin ==
    /\ Reads("fields") /\ rstack # << >> /\ HasField
    /\ LET frame == Head(rstack)
           id    == frame.keys[frame.index]
           entry == frame.fields[id]
       IN \E ttype \in TTypeNamed(entry.name) :
            /\ rstack' = Push([frame EXCEPT !.index = @ + 1, !.value = <<entry.value>>],
                              Tail(rstack))
            /\ rtodo' = Push(FieldCall(Head(rtodo), id, ttype), rtodo)
    /\ UNCHANGED <<asMessage, root, got, writer>>

(* No field is left, or the frame is not a struct's: read_field_begin        *)
(* answers Stop, and read_struct_end or read_message_end pops.              *)
ReadStructEnd ==
    /\ Reads("fields") /\ (rstack # << >> => ~HasField)
    /\ rstack' = Pop(rstack)
    /\ rtodo' = Tail(rtodo)
    /\ UNCHANGED <<asMessage, root, got, writer>>

(* What is no number is 0 for a number, and what is no text is empty, for    *)
(* which 0 stands too.  read_i64 takes both.                                *)
ScalarOf(kind, json) ==
    IF kind = "num" /\ json.j = "num" THEN json.v
    ELSE IF kind \in {"str", "dbl"} /\ json.j \in {"num", "str"} THEN json.v
    ELSE 0

ReadScalar ==
    /\ Written /\ rtodo # << >> /\ Head(rtodo).op \in Kinds
    /\ HasNext(rstack)
    /\ LET call == Head(rtodo) IN
       got' = IF call.known
              THEN got \cup {<<call.path, ScalarOf(call.op, NextValue(rstack))>>}
              ELSE got
    /\ rstack' = AfterNext(rstack) /\ TakesRoot
    /\ rtodo' = Tail(rtodo)
    /\ UNCHANGED <<asMessage, writer>>

(* The items are of the type in the schema, or of the type in the array when *)
(* the list is skipped.                                                     *)
CanReadList == HasNext(rstack) /\ NextValue(rstack).j = "list"

ReadListBegin ==
    /\ Reads("list") /\ CanReadList
    /\ LET call == Head(rtodo)
           json == NextValue(rstack)
           elem == IF call.known THEN Tail(call.type)
                   ELSE <<CHOOSE t \in TTypeNamed(json.elem) : TRUE>>
       IN /\ rstack' = Push(ReadList(json), AfterNext(rstack))
          /\ rtodo' = [k \in 1 .. json.size |-> ValueCall(elem, Append(call.path, k), call.known)]
                        \o <<[call EXCEPT !.op = "listend"]>> \o Tail(rtodo)
    /\ TakesRoot
    /\ UNCHANGED <<asMessage, got, writer>>

(* The caller reads as many pairs as the size says.  A key that is read puts *)
(* its value at a path of its own.                                          *)
CanReadMap == HasNext(rstack) /\ NextValue(rstack).j = "map"

ReadMapBegin ==
    /\ Reads("map") /\ CanReadMap
    /\ LET call == Head(rtodo)
           json == NextValue(rstack)
           type == IF call.known THEN call.type
                   ELSE <<"map", CHOOSE t \in TTypeNamed(json.key) : TRUE,
                          CHOOSE t \in TTypeNamed(json.val) : TRUE>>
       IN /\ rstack' = Push(ReadMap(json), AfterNext(rstack))
          /\ rtodo' = [k \in 1 .. json.size |-> KeyCall(type, call.path, call.known)]
                        \o <<[call EXCEPT !.op = "mapend"]>> \o Tail(rtodo)
    /\ TakesRoot
    /\ UNCHANGED <<asMessage, got, writer>>

ReadKey ==
    /\ Reads("key") /\ HasNext(rstack)
    /\ LET call == Head(rtodo)
           k    == ScalarOf(KeyOf(call.type), NextValue(rstack))
       IN rtodo' = Push(ValueCall(ValueOf(call.type), Append(call.path, k), call.known), Tail(rtodo))
    /\ rstack' = AfterNext(rstack) /\ TakesRoot
    /\ UNCHANGED <<asMessage, got, writer>>

\* Mutant of ReadContainerEnd: read_list_end does not pop.
ReadContainerEndNoPop ==
    /\ Written /\ rtodo # << >> /\ Head(rtodo).op \in {"listend", "mapend"}
    /\ rstack' = IF Head(rtodo).op = "listend" THEN rstack ELSE Pop(rstack)
    /\ rtodo' = Tail(rtodo)
    /\ UNCHANGED <<asMessage, root, got, writer>>

ReadContainerEnd ==
    /\ Written /\ rtodo # << >> /\ Head(rtodo).op \in {"listend", "mapend"}
    /\ rstack' = Pop(rstack)
    /\ rtodo' = Tail(rtodo)
    /\ UNCHANGED <<asMessage, root, got, writer>>

(* The next call returns an error, and with it the whole deserialisation: no *)
(* action of the reader is left.                                            *)
CallFails ==
    /\ Written /\ rtodo # << >>
    /\ LET op == Head(rtodo).op IN
       \/ op = "struct" /\ ~CanReadStruct
       \/ op = "list" /\ ~CanReadList
       \/ op = "map" /\ ~CanReadMap
       \/ op \in Kinds \cup {"key"} /\ ~HasNext(rstack)

-----------------------------------------------------------------------------
Write ==
    \/ WriteStructBegin
    \/ WriteFieldBegin
    \/ WriteStructEnd
    \/ WriteMessageEnd
    \/ WriteScalar
    \/ WriteKey
    \/ WriteListBegin
    \/ WriteMapBegin
    \/ WriteContainerEnd

Read ==
    \/ ReadMessageBegin
    \/ ReadStructBegin
    \/ ReadFieldBegin
    \/ ReadStructEnd
    \/ ReadScalar
    \/ ReadListBegin
    \/ ReadMapBegin
    \/ ReadKey
    \/ ReadContainerEnd

Next == Write \/ Read

Spec == Init /\ [][Next]_vars

-----------------------------------------------------------------------------
Arrives(v) == IF v = NaN THEN 0 ELSE v

(* Every scalar is read at the place it was written, with its value, which   *)
(* is 0 for a double that JSON has no number for; none is lost or made up,   *)
(* in structs, lists and maps of any depth, whatever lies between them that  *)
(* the reader does not know, and no call of the reader fails.               *)
Arrived == {<<p[1], Arrives(p[2])>> : p \in given}

JsonRoundTrips ==
    /\ ~CallFails
    /\ got \subseteq Arrived
    /\ Written /\ rtodo = << >> => got = Arrived

(* The calls that close a struct, a list or a map find the frame that the    *)
(* call that opened it has pushed: the frames on either stack are those of   *)
(* the calls under way, in their order.                                      *)
FrameOf == [fields |-> "struct", listend |-> "list", mapend |-> "map"]
Open(todo) == {i \in DOMAIN todo : todo[i].op \in DOMAIN FrameOf}

\* What is open when the i-th call comes.
Depth(todo, i) == Cardinality({j \in Open(todo) : j >= i})

InStep(stack, todo) ==
    /\ Len(stack) = Depth(todo, 1)
    /\ \A i \in Open(todo) : stack[Len(stack) + 1 - Depth(todo, i)].f = FrameOf[todo[i].op]

InMessage == wstack # << >> /\ wstack[Len(wstack)].f = "message"
Frames    == IF InMessage THEN SubSeq(wstack, 1, Len(wstack) - 1) ELSE wstack

StacksInStep ==
    /\ wtodo # << >> => InStep(Frames, wtodo)
    /\ InStep(rstack, rtodo)
=============================================================================
