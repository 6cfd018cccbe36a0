----------------------------- MODULE StructCodec -----------------------------
(***************************************************************************)
(* A struct on its way through the Compact protocol: serde.rs walks a value  *)
(* or a schema and calls the writer and the reader of compact.rs, one        *)
(* action per call.  Both keep a stack of last field ids, because a field    *)
(* header holds the difference to the id before it, and both put a boolean   *)
(* field off, because its value is part of its header.                       *)
(*                                                                         *)
(* A token is what one read of the reader takes from the buffer.  The        *)
(* token "begin" stands for no bytes: read_struct_begin reads none.          *)
(***************************************************************************)
EXTENDS Integers, Sequences

CONSTANTS
    Structs,    \* name -> fields [id, type, known] in the order of the IDL;
                \* known: the reader's schema has the field
    Root,       \* the struct that is sent
    MaxNibble,  \* largest value of half a byte (15)
    MaxSize     \* bound: items of a container

(* A type is a sequence: <<"bool">>, <<"scalar">>, <<"struct", name>>,       *)
(* <<"list">> \o element, <<"map", key>> \o value with a scalar key.         *)
TTypes == {"bool", "scalar", "list", "map", "struct"}
Words  == TTypes \cup {"fields", "none"} \cup DOMAIN Structs
Field  == [id : Nat, type : Seq(Words), known : BOOLEAN]

ASSUME CodecAssumption ==
    /\ Root \in DOMAIN Structs
    /\ \A s \in DOMAIN Structs : Structs[s] \in Seq(Field)
    /\ MaxNibble \in Nat \ {0}
    /\ MaxSize \in Nat

FieldsOf(s) == {Structs[s][i] : i \in DOMAIN Structs[s]}
FieldTypes  == UNION {{f.type : f \in FieldsOf(s)} : s \in DOMAIN Structs}
Parts(t)    == {SubSeq(t, k, Len(t)) : k \in DOMAIN t}

(* Each of these types is a simple one, or made of others of them, as the     *)
(* enum ThriftType has it.                                                  *)
Closed(types) ==
    \A t \in types :
        \/ t \in {<<"bool">>, <<"scalar">>}
        \/ \E s \in DOMAIN Structs : t = <<"struct", s>>
        \/ \E elem \in types : t = <<"list">> \o elem
        \/ \E key \in {"bool", "scalar"}, val \in types : t = <<"map", key>> \o val

ASSUME SchemaAssumption ==
    \E types \in SUBSET UNION {Parts(t) : t \in FieldTypes} :
        FieldTypes \subseteq types /\ Closed(types)

VARIABLES
    wtodo,      \* what the serialiser has still to write, next first
    wlast,      \* CompactProtocolWriter.last_field_id, top first
    pending,    \* .bool_field_pending
    out,        \* the tokens, each with two ghosts: the id of the field it is
                \* the header of (0 for none), and the writer's stack after it
    rtodo,      \* what the deserialiser has still to read
    rlast,      \* CompactProtocolReader.last_field_id
    rbool,      \* .boolean_field
    garbled,    \* the reader is at bytes that are not what it takes them for
    given,      \* ghost: the booleans written
    seen,       \* ghost: the field id the reader made of each token it took
    got,        \* ghost: the booleans read
    rmark,      \* ghost: per struct being read, "stale" once a long header was read
                \* with an id that is not the last one
    misled      \* ghost: a short header was read in a struct that is "stale"

writer == <<wtodo, wlast, pending, out, given>>
reader == <<rtodo, rlast, rbool, garbled, seen, got, rmark, misled>>
vars == <<writer, reader>>

Nibbles == {"true", "false", "scalar", "list", "map", "struct", "none"}
Kinds   == {"begin", "short", "long", "stop", "bool", "scalar", "list", "size", "types"}
Tokens  == [kind : Kinds, n : Nat, type : Nibbles, key : Nibbles]
Written == [tok : Tokens, id : Nat, last : Seq(Nat)]
Bools   == {"true", "false"}
Marks   == {"fresh", "stale"}

Token(kind, n, type) == [kind |-> kind, n |-> n, type |-> type, key |-> "none"]

(* CompactType::from_ttype, which makes Stop of a type it does not know, and *)
(* to_ttype.                                                                *)
FromTType(t) == IF t = "bool" THEN "true" ELSE IF t \in TTypes THEN t ELSE "none"
ToTType(b)   == IF b \in Bools THEN "bool" ELSE b

(* Vec::push, and Vec::pop, which does nothing to an empty Vec.             *)
Push(x, s) == <<x>> \o s
Pop(s)     == IF s = << >> THEN s ELSE Tail(s)

None         == -1
Value(t)     == [type |-> t, next |-> 0]
Fields(s, i) == [type |-> <<"fields", s>>, next |-> i]
Item(t, known) == [type |-> t, known |-> known]

TypeOK ==
    /\ wtodo \in Seq([type : Seq(Words), next : Nat])
    /\ wlast \in Seq(Nat) /\ rlast \in Seq(Nat) /\ wlast # << >> /\ rlast # << >>
    /\ pending \in Nat \cup {None}
    /\ out \in Seq(Written)
    /\ rtodo \in Seq([type : Seq(Words), known : BOOLEAN])
    /\ rbool \in Bools \cup {"none"}
    /\ given \in Seq(Bools) /\ got \in Seq(Bools)
    /\ seen \in Seq(Nat) /\ Len(seen) <= Len(out)
    /\ rmark \in Seq(Marks)
    /\ garbled \in BOOLEAN /\ misled \in BOOLEAN

(* Both sides begin with vec![0] and the root struct.                       *)
Init ==
    /\ wtodo = <<Value(<<"struct", Root>>)>>
    /\ wlast = <<0>>
    /\ pending = None
    /\ rtodo = <<Item(<<"struct", Root>>, TRUE)>>
    /\ rlast = <<0>> /\ rmark = <<"fresh">>
    /\ rbool = "none"
    /\ out = << >> /\ given = << >>
    /\ seen = << >> /\ got = << >>
    /\ garbled = FALSE /\ misled = FALSE

-----------------------------------------------------------------------------
(* The writer.                                                              *)

Writes(t) == wtodo # << >> /\ Head(Head(wtodo).type) = t

(* Tokens are written, and the stack is last after each; id is 0 unless they *)
(* are a field header.                                                      *)
Emit(tokens, id, last) ==
    /\ out' = out \o [k \in DOMAIN tokens |-> [tok |-> tokens[k], id |-> id, last |-> last]]
    /\ wlast' = last

(* write_field_begin_inner, and the same code in write_bool.                *)
\* Mutant of Header: the sign of the difference is not looked at.
HeaderNoSign(last, id, type) ==
    IF id - last <= MaxNibble
    THEN Token("short", id - last, type)
    ELSE Token("long", id, type)

Header(last, id, type) ==
    IF id - last > 0 /\ id - last <= MaxNibble
    THEN Token("short", id - last, type)
    ELSE Token("long", id, type)

(* last_mut().unwrap() panics on an empty stack.                            *)
EmitHeader(id, type) ==
    /\ wlast # << >>
    /\ Emit(<<Header(Head(wlast), id, type)>>, id, Push(id, Tail(wlast)))

WriteStructBegin ==
    /\ Writes("struct")
    /\ Emit(<<Token("begin", 0, "none")>>, 0, Push(0, wlast))
    /\ wtodo' = Push(Fields(Head(wtodo).type[2], 1), Tail(wtodo))
    /\ UNCHANGED <<pending, given, reader>>

(* serialize_struct_any takes the fields in the order of the schema and      *)
(* leaves out those that have no value.                                     *)
WriteFieldBegin ==
    /\ Writes("fields")
    /\ LET s == Head(wtodo).type[2] IN
       /\ s \in DOMAIN Structs
       /\ \E i \in DOMAIN Structs[s] : LET f == Structs[s][i] IN
         /\ i >= Head(wtodo).next
         /\ wtodo' = Push(Value(f.type), Push(Fields(s, i + 1), Tail(wtodo)))
         /\ IF f.type = <<"bool">>
            THEN pending' = f.id /\ UNCHANGED <<out, wlast>>
            ELSE EmitHeader(f.id, FromTType(f.type[1])) /\ UNCHANGED pending
    /\ UNCHANGED <<given, reader>>

(* write_field_stop, then write_struct_end.                                 *)
WriteFieldStop ==
    /\ Writes("fields")
    /\ Emit(<<Token("stop", 0, "none")>>, 0, Pop(wlast))
    /\ wtodo' = Tail(wtodo)
    /\ UNCHANGED <<pending, given, reader>>

WriteBool ==
    /\ Writes("bool")
    /\ \E v \in Bools :
         /\ IF pending # None
            THEN EmitHeader(pending, v)
            ELSE Emit(<<Token("bool", 0, v)>>, 0, wlast)
         /\ given' = Append(given, v)
    /\ pending' = None
    /\ wtodo' = Tail(wtodo)
    /\ UNCHANGED reader

WriteScalar ==
    /\ Writes("scalar")
    /\ Emit(<<Token("scalar", 0, "none")>>, 0, wlast)
    /\ wtodo' = Tail(wtodo)
    /\ UNCHANGED <<pending, given, reader>>

(* The size is in the other half of the type's byte if it fits; MaxNibble    *)
(* there means that it follows.                                             *)
\* Mutant of ListHeader: the boundary is off by one.
ListHeaderOffByOne(n, type) ==
    IF n <= MaxNibble
    THEN <<Token("list", n, type)>>
    ELSE <<Token("list", MaxNibble, type), Token("size", n, "none")>>

ListHeader(n, type) ==
    IF n <= MaxNibble - 1
    THEN <<Token("list", n, type)>>
    ELSE <<Token("list", MaxNibble, type), Token("size", n, "none")>>

(* A decoded value that is written again knows the type of its elements from *)
(* the first of them, and takes String if there is none.                    *)
ElemNibbles(n, elem) ==
    {FromTType(elem)} \cup (IF n = 0 THEN {"scalar"} ELSE {})

WriteListBegin ==
    /\ Writes("list")
    /\ \E n \in 0 .. MaxSize : LET elem == Tail(Head(wtodo).type) IN
         /\ \E nibble \in ElemNibbles(n, elem[1]) : Emit(ListHeader(n, nibble), 0, wlast)
         /\ wtodo' = [k \in 1 .. n |-> Value(elem)] \o Tail(wtodo)
    /\ UNCHANGED <<pending, given, reader>>

(* An empty map has no types.                                               *)
WriteMapBegin ==
    /\ Writes("map")
    /\ \E n \in 0 .. MaxSize :
         LET type == Head(wtodo).type
             val  == Tail(Tail(type))
             size == Token("size", n, "none")
             both == [kind |-> "types", n |-> 0,
                      type |-> FromTType(val[1]), key |-> FromTType(type[2])]
         IN /\ Emit(IF n = 0 THEN <<size>> ELSE <<size, both>>, 0, wlast)
            /\ wtodo' = [k \in 1 .. 2 * n |-> Value(IF k % 2 = 1 THEN <<type[2]>> ELSE val)]
                            \o Tail(wtodo)
    /\ UNCHANGED <<pending, given, reader>>

-----------------------------------------------------------------------------
(* The reader, once everything is written.                                  *)

Tok(k) == out[Len(seen) + k].tok

(* The next bytes are of these kinds.                                       *)
Comes(kinds) ==
    /\ Len(seen) + Len(kinds) <= Len(out)
    /\ \A k \in DOMAIN kinds : Tok(k).kind = kinds[k]

Reads(t) == wtodo = << >> /\ ~garbled /\ rtodo # << >> /\ Head(Head(rtodo).type) = t

Take(n) == seen' = seen \o [k \in 1 .. n |-> 0]

ReadStructBegin ==
    /\ Reads("struct") /\ Comes(<<"begin">>)
    /\ Take(1)
    /\ rlast' = Push(0, rlast) /\ rmark' = Push("fresh", rmark)
    /\ rtodo' = Push([Head(rtodo) EXCEPT !.type = <<"fields">> \o Tail(@)], Tail(rtodo))
    /\ UNCHANGED <<rbool, garbled, got, misled, writer>>

(* The reader's field of that id: in a struct that is skipped there is none. *)
Lookup(item, id) ==
    IF item.known
    THEN {f \in FieldsOf(item.type[2]) : f.known /\ f.id = id}
    ELSE {}

(* What follows the header: a field of the schema is read by the type the    *)
(* schema has for it, any other one is skipped by the type in the header.    *)
FieldValue(item, id, type) ==
    IF Lookup(item, id) = {}
    THEN Item(<<ToTType(type)>>, FALSE)
    ELSE Item((CHOOSE f \in Lookup(item, id) : TRUE).type, TRUE)

ReadHeader(id, last) ==
    /\ seen' = seen \o <<id>>
    /\ rlast' = Push(last, Tail(rlast))
    /\ rbool' = IF Tok(1).type \in Bools THEN Tok(1).type ELSE rbool
    /\ rtodo' = Push(FieldValue(Head(rtodo), id, Tok(1).type), rtodo)
    /\ UNCHANGED <<garbled, got, writer>>

ReadShortHeader ==
    /\ Reads("fields") /\ Comes(<<"short">>) /\ rlast # << >>
    /\ ReadHeader(Head(rlast) + Tok(1).n, Head(rlast) + Tok(1).n)
    /\ misled' = (misled \/ Head(rmark) = "stale")
    /\ UNCHANGED rmark

(* The id is read as it is, and the stack keeps the id before it.           *)
ReadLongHeader ==
    /\ Reads("fields") /\ Comes(<<"long">>) /\ rlast # << >>
    /\ ReadHeader(Tok(1).n, Head(rlast))
    /\ rmark' = Push(IF Tok(1).n = Head(rlast) THEN "fresh" ELSE "stale", Tail(rmark))
    /\ UNCHANGED misled

\* Mutant of ReadFieldStop: read_struct_end does not pop.
ReadFieldStopNoPop ==
    /\ Reads("fields") /\ Comes(<<"stop">>)
    /\ Take(1)
    /\ rtodo' = Tail(rtodo)
    /\ UNCHANGED <<rlast, rmark, rbool, garbled, got, misled, writer>>

ReadFieldStop ==
    /\ Reads("fields") /\ Comes(<<"stop">>)
    /\ Take(1)
    /\ rlast' = Pop(rlast) /\ rmark' = Pop(rmark)
    /\ rtodo' = Tail(rtodo)
    /\ UNCHANGED <<rbool, garbled, got, misled, writer>>

\* Mutant of ReadBool: the boolean of a field header is used, not taken.
ReadBoolNoTake ==
    /\ Reads("bool")
    /\ IF rbool # "none"
       THEN got' = Append(got, rbool) /\ UNCHANGED <<rbool, seen>>
       ELSE /\ Comes(<<"bool">>)
            /\ Take(1)
            /\ got' = Append(got, Tok(1).type)
            /\ UNCHANGED rbool
    /\ rtodo' = Tail(rtodo)
    /\ UNCHANGED <<rlast, rmark, garbled, misled, writer>>

ReadBool ==
    /\ Reads("bool")
    /\ IF rbool # "none"
       THEN got' = Append(got, rbool) /\ rbool' = "none" /\ UNCHANGED seen
       ELSE /\ Comes(<<"bool">>)
            /\ Take(1)
            /\ got' = Append(got, Tok(1).type)
            /\ UNCHANGED rbool
    /\ rtodo' = Tail(rtodo)
    /\ UNCHANGED <<rlast, rmark, garbled, misled, writer>>

ReadScalar ==
    /\ Reads("scalar") /\ Comes(<<"scalar">>)
    /\ Take(1)
    /\ rtodo' = Tail(rtodo)
    /\ UNCHANGED <<rlast, rmark, rbool, garbled, got, misled, writer>>

(* The elements of a list that is read have the type of the schema, those of *)
(* one that is skipped the type in its header.                              *)
ListIsLong == Tok(1).n = MaxNibble

ReadListBegin ==
    /\ Reads("list") /\ Comes(<<"list">>)
    /\ ListIsLong => Comes(<<"list", "size">>)
    /\ LET item == Head(rtodo)
           elem == IF item.known THEN Tail(item.type) ELSE <<ToTType(Tok(1).type)>>
           size == IF ListIsLong THEN Tok(2).n ELSE Tok(1).n
       IN rtodo' = [k \in 1 .. size |-> Item(elem, item.known)] \o Tail(rtodo)
    /\ Take(IF ListIsLong THEN 2 ELSE 1)
    /\ UNCHANGED <<rlast, rmark, rbool, garbled, got, misled, writer>>

ReadMapBegin ==
    /\ Reads("map") /\ Comes(<<"size">>)
    /\ Tok(1).n # 0 => Comes(<<"size", "types">>)
    /\ LET item == Head(rtodo)
           n    == Tok(1).n
           key  == IF item.known THEN <<item.type[2]>> ELSE <<ToTType(Tok(2).key)>>
           val  == IF item.known THEN Tail(Tail(item.type)) ELSE <<ToTType(Tok(2).type)>>
       IN /\ rtodo' = [k \in 1 .. 2 * n |-> Item(IF k % 2 = 1 THEN key ELSE val, item.known)]
                          \o Tail(rtodo)
          /\ Take(IF n = 0 THEN 1 ELSE 2)
    /\ UNCHANGED <<rlast, rmark, rbool, garbled, got, misled, writer>>

(* The bytes are something else than the reader expects: what it makes of    *)
(* them is anybody's guess, and the model stops.                            *)
Expected ==
    LET t == Head(Head(rtodo).type) IN
    \/ t = "struct" /\ Comes(<<"begin">>)
    \/ t = "fields" /\ rlast # << >> /\ (Comes(<<"short">>) \/ Comes(<<"long">>))
    \/ t = "fields" /\ Comes(<<"stop">>)
    \/ t = "bool" /\ (rbool # "none" \/ Comes(<<"bool">>))
    \/ t = "scalar" /\ Comes(<<"scalar">>)
    \/ t = "list" /\ Comes(<<"list">>) /\ (ListIsLong => Comes(<<"list", "size">>))
    \/ t = "map" /\ Comes(<<"size">>) /\ (Tok(1).n # 0 => Comes(<<"size", "types">>))

Garble ==
    /\ wtodo = << >> /\ ~garbled /\ rtodo # << >> /\ ~Expected
    /\ garbled' = TRUE
    /\ UNCHANGED <<rtodo, rlast, rbool, seen, got, rmark, misled, writer>>

-----------------------------------------------------------------------------
Write ==
    \/ WriteStructBegin
    \/ WriteFieldBegin
    \/ WriteFieldStop
    \/ WriteBool
    \/ WriteScalar
    \/ WriteListBegin
    \/ WriteMapBegin

Read ==
    \/ ReadStructBegin
    \/ ReadShortHeader
    \/ ReadLongHeader
    \/ ReadFieldStop
    \/ ReadBool
    \/ ReadScalar
    \/ ReadListBegin
    \/ ReadMapBegin
    \/ Garble

Next == Write \/ Read

Spec == Init /\ [][Next]_vars

-----------------------------------------------------------------------------
(* The reader gives every field the id it was written with, known or         *)
(* skipped, at any depth, unless it met a short header after a long one with *)
(* a new id in the same struct.                                             *)
FieldIdsRight ==
    ~misled => \A k \in DOMAIN seen : seen[k] = out[k].id

(* The reader stays in step with the bytes: it never takes one thing for     *)
(* another, whatever it has to skip, and ends where the writer ended.        *)
ReadsItAll ==
    ~misled =>
        /\ ~garbled
        /\ rtodo = << >> => Len(seen) = Len(out) /\ rbool = "none"

(* Booleans arrive with their values, in headers and in containers.         *)
BoolsRight ==
    ~misled => \A k \in DOMAIN got : got[k] = given[k]

(* What is deserialised is what was serialised, with every protocol.        *)
CompactRoundTrips == \A k \in DOMAIN seen : seen[k] = out[k].id
=============================================================================
