----------------------------- MODULE BinaryCodec -----------------------------
(***************************************************************************)
(* Messages in the Binary protocol on the Buffered transport, byte by byte.    *)
(* Three pieces of code must agree on the layout of every type: the writer     *)
(* (binary.rs, called by the serialiser), the framer of server.rs (and its     *)
(* copy in client.rs), which walks a struct without a schema only to find its  *)
(* end, and the reader, which is called by the schema for the fields it knows  *)
(* and by the types in the bytes for those it skips.  Several messages lie     *)
(* in the stream one behind the other, so an error of one is an error of all   *)
(* that follow.                                                              *)
(***************************************************************************)
EXTENDS Integers, Sequences, FiniteSets, SequencesExt

CONSTANTS
    Structs,    \* name -> fields [id, type, known] in the order of the IDL;
                \* known: the reader's schema has the field
    Streams,    \* the argument structs of the messages that are sent in a row
    Served,     \* those whose method the reader's service has
    Name,       \* Name[r]: the method's name, as bytes
    Numbers, Texts, Blobs,  \* the values of integers, string and binary
    MaxSize     \* bound: items of a container

(* A type is a sequence as in JsonCodec: <<"i32">>, <<"struct", name>>,       *)
(* <<"list">> \o element, <<"set">> \o element, <<"map", key>> \o value.      *)
Field == [id : Int, type : Seq(STRING), known : BOOLEAN]

ASSUME BinaryAssumption ==
    /\ Streams \subseteq Seq(DOMAIN Structs)
    /\ \A s \in DOMAIN Structs : Structs[s] \in Seq(Field)
    /\ \A r \in DOMAIN Name : Name[r] \in Seq(0 .. 255)
    /\ \A r, q \in DOMAIN Name : Name[r] = Name[q] => r = q
    /\ Numbers \subseteq -128 .. 127
    /\ Texts \subseteq Seq(0 .. 127) /\ Blobs \subseteq Seq(0 .. 255)
    /\ MaxSize \in 0 .. 127

VARIABLES
    wtodo,      \* the calls the serialiser has still to make, next first
    wire,       \* the bytes of the stream
    ends,       \* ghost: where each message ends
    ftodo,      \* what the framer has still to pass over, next first
    fpos,       \* bytes it has consumed
    frames,     \* <<first, last>> byte of each frame
    rtodo,      \* the calls the deserialiser has still to make
    rpos,       \* where the reader is
    turn,       \* the frame it reads
    failed,     \* a call of the reader has returned an error
    given,      \* ghost: <<path, value>> written, in fields the reader knows,
                \*   of methods it serves; the path begins with the message
    got         \* ghost: <<path, value>> read

writer == <<wtodo, wire, ends, given>>
framer == <<ftodo, fpos, frames>>
reader == <<rtodo, rpos, turn, got>>
vars == <<writer, framer, reader, failed>>

-----------------------------------------------------------------------------
(* Bytes.                                                                   *)

(* A big-endian integer of n bytes, in two's complement.                     *)
\* Mutant of BigEndian: the bytes in the order of the machine.
NativeEndian(n, v) ==
    FoldLeft(LAMBDA acc, i : <<Append(acc[1], acc[2] % 256), acc[2] \div 256>>,
             <<<< >>, v>>, [i \in 1 .. n |-> i])[1]

BigEndian(n, v) ==
    FoldLeft(LAMBDA acc, i : <<<<acc[2] % 256>> \o acc[1], acc[2] \div 256>>,
             <<<< >>, v>>, [i \in 1 .. n |-> i])[1]

Signed(bytes) ==
    FoldLeft(LAMBDA acc, b : 256 * acc + b, IF bytes[1] >= 128 THEN -1 ELSE 0, bytes)

Utf8(bytes) == \A i \in DOMAIN bytes : bytes[i] < 128

TType == [bool |-> 2, byte |-> 3, double |-> 4, i16 |-> 6, i32 |-> 8, i64 |-> 10,
          str |-> 11, binary |-> 11, struct |-> 12, map |-> 13, set |-> 14, list |-> 15]
STOP == 0

(* What the reader takes a type byte for.  Nothing tells binary from string.  *)
FromU8(code) == {t \in DOMAIN TType \ {"binary"} : TType[t] = code}

Width == [bool |-> 1, byte |-> 1, i16 |-> 2, i32 |-> 4, i64 |-> 8, double |-> 8]
Fixed == DOMAIN Width
Lengthy == {"str", "binary"}

(* What the framer passes over beside values, which have their type byte.      *)
HEADER == 256
FIELDS == 257

THRIFT_VERSION_1 == <<128, 1>>
MESSAGE_TYPE_CALL == 1

Num(v)  == [num |-> v]
Text(b) == [text |-> b]
Values(kind) ==
    CASE kind = "bool"   -> {Num(0), Num(1)}
      [] kind = "str"    -> {Text(b) : b \in Texts}
      [] kind = "binary" -> {Text(b) : b \in Texts \cup Blobs}
      [] OTHER           -> {Num(v) : v \in Numbers}

Call(op, type, path, known) ==
    [op |-> op, type |-> type, path |-> path, known |-> known, at |-> 1]
ValueCall(type, path, known) == Call(Head(type), type, path, known)

ElemOf(type)  == Tail(type)
KeyOf(type)   == <<type[2]>>
ValueOf(type) == Tail(Tail(type))

(* The items of a list or a set, the keys and values of a map by turns.       *)
ItemCalls(call, n, elem) ==
    [k \in 1 .. n |-> ValueCall(elem, Append(call.path, k), call.known)]
PairCalls(call, n, key, val) ==
    [k \in 1 .. 2 * n |-> ValueCall(IF k % 2 = 1 THEN key ELSE val,
                                    Append(call.path, k), call.known)]

Ops == {"message", "fields"} \cup DOMAIN TType

TypeOK ==
    /\ wire \in Seq(0 .. 255)
    /\ Range(ends) \subseteq Nat
    /\ \A c \in Range(wtodo) \cup Range(rtodo) :
         c.op \in Ops /\ c.path \in Seq(Int) /\ c.known \in BOOLEAN /\ c.at \in Nat
    /\ Range(ftodo) \subseteq {HEADER, FIELDS} \cup (0 .. 255)
    /\ fpos \in 0 .. Len(wire) /\ rpos \in 0 .. Len(wire)
    /\ \A f \in Range(frames) : f[1] <= f[2] /\ f[2] <= fpos
    /\ turn \in 1 .. Len(frames) + 1
    /\ failed \in BOOLEAN

Init ==
    /\ \E roots \in Streams :
         wtodo = [m \in DOMAIN roots |-> Call("message", <<"struct", roots[m]>>, <<m>>,
                                              roots[m] \in Served)]
    /\ wire = << >> /\ ends = << >>
    /\ ftodo = <<HEADER>> /\ fpos = 0 /\ frames = << >>
    /\ rtodo = << >> /\ rpos = 0 /\ turn = 1
    /\ failed = FALSE
    /\ given = {} /\ got = {}

-----------------------------------------------------------------------------
(* The writer: BinaryProtocolWriter, call by call.  Begin and end of a struct,  *)
(* and the end of a field, a container and a message write nothing.           *)

Writes(op) == wtodo # << >> /\ Head(wtodo).op = op
Wrote == UNCHANGED <<framer, reader, failed>>
ReadsIt(call, v) == IF call.known THEN {<<call.path, v>>} ELSE {}

WriteMessageBegin ==
    /\ Writes("message")
    /\ LET call == Head(wtodo)  name == Name[call.type[2]] IN
       /\ wire' = wire \o THRIFT_VERSION_1 \o <<0, MESSAGE_TYPE_CALL>>
                       \o BigEndian(4, Len(name)) \o name \o BigEndian(4, Len(ends) + 1)
       /\ wtodo' = <<[call EXCEPT !.op = "fields"]>> \o Tail(wtodo)
    /\ UNCHANGED <<ends, given>> /\ Wrote

(* The fields in the order of the schema, those without a value left out.     *)
\* Mutant of WriteFieldBegin: ids are written in the order of a little end.
WriteFieldBeginSwapped ==
    /\ Writes("fields")
    /\ LET call == Head(wtodo)  fields == Structs[call.type[2]] IN
       \E i \in call.at .. Len(fields) :
         /\ wire' = wire \o <<TType[fields[i].type[1]]>> \o Reverse(BigEndian(2, fields[i].id))
         /\ wtodo' = <<ValueCall(fields[i].type, Append(call.path, fields[i].id),
                                 call.known /\ fields[i].known),
                       [call EXCEPT !.at = i + 1]>> \o Tail(wtodo)
    /\ UNCHANGED <<ends, given>> /\ Wrote

WriteFieldBegin ==
    /\ Writes("fields")
    /\ LET call == Head(wtodo)  fields == Structs[call.type[2]] IN
       \E i \in call.at .. Len(fields) :
         /\ wire' = wire \o <<TType[fields[i].type[1]]>> \o BigEndian(2, fields[i].id)
         /\ wtodo' = <<ValueCall(fields[i].type, Append(call.path, fields[i].id),
                                 call.known /\ fields[i].known),
                       [call EXCEPT !.at = i + 1]>> \o Tail(wtodo)
    /\ UNCHANGED <<ends, given>> /\ Wrote

(* The stop of the outermost struct is the last byte of the message.          *)
WriteFieldStop ==
    /\ Writes("fields")
    /\ wire' = Append(wire, STOP)
    /\ wtodo' = Tail(wtodo)
    /\ ends' = IF Len(Head(wtodo).path) = 1 THEN Append(ends, Len(wire) + 1) ELSE ends
    /\ UNCHANGED given /\ Wrote

WriteNumber ==
    /\ wtodo # << >> /\ Head(wtodo).op \in Fixed
    /\ LET call == Head(wtodo) IN
       \E v \in Values(call.op) :
         /\ wire' = wire \o BigEndian(Width[call.op], v.num)
         /\ given' = given \cup ReadsIt(call, v)
    /\ wtodo' = Tail(wtodo)
    /\ UNCHANGED ends /\ Wrote

WriteString ==
    /\ wtodo # << >> /\ Head(wtodo).op \in Lengthy
    /\ LET call == Head(wtodo) IN
       \E v \in Values(call.op) :
         /\ wire' = wire \o BigEndian(4, Len(v.text)) \o v.text
         /\ given' = given \cup ReadsIt(call, v)
    /\ wtodo' = Tail(wtodo)
    /\ UNCHANGED ends /\ Wrote

WriteStructBegin ==
    /\ Writes("struct")
    /\ wtodo' = <<[Head(wtodo) EXCEPT !.op = "fields"]>> \o Tail(wtodo)
    /\ UNCHANGED <<wire, ends, given>> /\ Wrote

(* A decoded value that is written again takes the types of an empty           *)
(* container for String.                                                      *)
ElemCodes(n, kind) == {TType[kind]} \cup (IF n = 0 THEN {TType["str"]} ELSE {})

WriteListBegin ==
    /\ Writes("list") \/ Writes("set")
    /\ LET call == Head(wtodo)  elem == ElemOf(call.type) IN
       \E n \in 0 .. MaxSize : \E code \in ElemCodes(n, elem[1]) :
         /\ wire' = wire \o <<code>> \o BigEndian(4, n)
         /\ wtodo' = ItemCalls(call, n, elem) \o Tail(wtodo)
    /\ UNCHANGED <<ends, given>> /\ Wrote

WriteMapBegin ==
    /\ Writes("map")
    /\ LET call == Head(wtodo)  key == KeyOf(call.type)  val == ValueOf(call.type) IN
       \E n \in 0 .. MaxSize : \E k \in ElemCodes(n, key[1]), v \in ElemCodes(n, val[1]) :
         /\ wire' = wire \o <<k, v>> \o BigEndian(4, n)
         /\ wtodo' = PairCalls(call, n, key, val) \o Tail(wtodo)
    /\ UNCHANGED <<ends, given>> /\ Wrote

-----------------------------------------------------------------------------
(* The framer, once everything is written: what it has still to pass over is   *)
(* a message header, the fields of a struct, or a value of a type.            *)

Written == wtodo = << >>
Passes(what) == Written /\ ~failed /\ ftodo # << >> /\ Head(ftodo) \in what
At(i) == wire[fpos + i]
Count(i) == Signed(SubSeq(wire, fpos + i, fpos + i + 3))
Times(n, codes) == FlattenSeq([k \in 1 .. n |-> codes])

(* The bytes it takes, and what is then left to pass over.                    *)
HeaderSize == 4 + 4 + Count(5) + 4

ValueSize(code) ==
    CASE code \in {TType[k] : k \in Fixed} -> Width[CHOOSE k \in Fixed : TType[k] = code]
      [] code = TType["str"]    -> 4 + Count(1)
      [] code = TType["struct"] -> 0
      [] code = TType["map"]    -> 6
      [] OTHER                  -> 5

\* Mutant of Inside: the pairs of a map are counted as items.
InsideMapHalf(code) ==
    CASE code = TType["struct"] -> <<FIELDS>>
      [] code = TType["map"]    -> Times(Count(3), <<At(1)>>)
      [] code \in {TType["list"], TType["set"]} -> Times(Count(2), <<At(1)>>)
      [] OTHER -> << >>

Inside(code) ==
    CASE code = TType["struct"] -> <<FIELDS>>
      [] code = TType["map"]    -> Times(Count(3), <<At(1), At(2)>>)
      [] code \in {TType["list"], TType["set"]} -> Times(Count(2), <<At(1)>>)
      [] OTHER -> << >>

Frame == UNCHANGED <<writer, reader, failed>>

FrameHeader ==
    /\ Passes({HEADER}) /\ fpos < Len(wire)
    /\ fpos' = fpos + HeaderSize
    /\ ftodo' = <<FIELDS>> \o Tail(ftodo)
    /\ UNCHANGED frames /\ Frame

(* read_buffered_struct_body_async: the stop of the outermost struct ends the   *)
(* frame, and the task comes back for the next one.                           *)
FrameField ==
    /\ Passes({FIELDS}) /\ fpos < Len(wire)
    /\ LET code == At(1)
           left == Tail(ftodo)
           from == IF frames = << >> THEN 1 ELSE frames[Len(frames)][2] + 1
       IN IF code # STOP
          THEN /\ fpos' = fpos + 3
               /\ ftodo' = <<code>> \o ftodo
               /\ UNCHANGED frames
          ELSE /\ fpos' = fpos + 1
               /\ ftodo' = IF left = << >> THEN <<HEADER>> ELSE left
               /\ frames' = IF left = << >> THEN Append(frames, <<from, fpos + 1>>) ELSE frames
    /\ Frame

(* read_buffered_value_async; a type byte it does not know is an error.        *)
KnownCodes == {TType[k] : k \in DOMAIN TType}

FrameValue ==
    /\ Passes(KnownCodes)
    /\ LET code == Head(ftodo) IN
       /\ fpos + ValueSize(code) <= Len(wire)
       /\ fpos' = fpos + ValueSize(code)
       /\ ftodo' = Inside(code) \o Tail(ftodo)
    /\ UNCHANGED frames /\ Frame

-----------------------------------------------------------------------------
(* The reader, frame by frame: BinaryProtocolReader, call by call.             *)

Reading == turn <= Len(frames) /\ ~failed
Reads(ops) == Reading /\ rtodo # << >> /\ Head(rtodo).op \in ops
Bytes(n) == SubSeq(wire, rpos + 1, rpos + n)
Left(n) == n >= 0 /\ rpos + n <= frames[turn][2]
Read == UNCHANGED <<writer, framer, turn>>
NextFrame == turn' = turn + 1 /\ rtodo' = << >>

(* decode_request looks the method up; the arguments of one that is not there   *)
(* stay unread.                                                              *)
First(i) == frames[i][1]
NameSize(i) == Signed(SubSeq(wire, First(i) + 4, First(i) + 7))
Found(i) == {r \in Served : Name[r] = SubSeq(wire, First(i) + 8, First(i) + 7 + NameSize(i))}

ReadMessageBegin ==
    /\ Reading /\ rtodo = << >>
    /\ SubSeq(wire, First(turn), First(turn) + 1) = THRIFT_VERSION_1
    /\ rpos' = First(turn) + 11 + NameSize(turn)
    /\ \/ Found(turn) = {} /\ NextFrame
       \/ \E r \in Found(turn) :
            /\ rtodo' = <<Call("fields", <<"struct", r>>, <<turn>>, TRUE)>>
            /\ UNCHANGED turn
    /\ UNCHANGED <<writer, framer, failed, got>>

(* The reader's field of that id: in a struct that is skipped there is none.   *)
Lookup(call, id) ==
    IF call.known THEN {f \in Range(Structs[call.type[2]]) : f.known /\ f.id = id} ELSE {}

(* A field of the schema is read by its type there, any other one is skipped    *)
(* by the type that is in the bytes.                                         *)
FieldCalls(call, id, code) ==
    LET path == Append(call.path, id) IN
    IF Lookup(call, id) = {}
    THEN {ValueCall(<<t>>, path, FALSE) : t \in FromU8(code)}
    ELSE {ValueCall(f.type, path, TRUE) : f \in Lookup(call, id)}

CanReadField == Left(1) /\ (Bytes(1)[1] # STOP => Left(3))

ReadFieldBegin ==
    /\ Reads({"fields"}) /\ CanReadField /\ Bytes(1)[1] # STOP
    /\ \E call \in FieldCalls(Head(rtodo), Signed(SubSeq(wire, rpos + 2, rpos + 3)), Bytes(1)[1]) :
         rtodo' = <<call>> \o rtodo
    /\ rpos' = rpos + 3
    /\ UNCHANGED <<got, failed>> /\ Read

(* The stop of a struct; the outermost one ends the arguments.                 *)
ReadFieldStop ==
    /\ Reads({"fields"}) /\ CanReadField /\ Bytes(1)[1] = STOP
    /\ rpos' = rpos + 1
    /\ IF Len(rtodo) = 1 THEN NextFrame ELSE rtodo' = Tail(rtodo) /\ UNCHANGED turn
    /\ UNCHANGED <<writer, framer, failed, got>>

ReadStructBegin ==
    /\ Reads({"struct"})
    /\ rtodo' = <<[Head(rtodo) EXCEPT !.op = "fields"]>> \o Tail(rtodo)
    /\ UNCHANGED <<rpos, got, failed>> /\ Read

CanReadNumber == Left(Width[Head(rtodo).op])

NumberAt(kind) ==
    LET v == Signed(Bytes(Width[kind])) IN
    IF kind = "bool" THEN Num(IF v # 0 THEN 1 ELSE 0) ELSE Num(v)

ReadNumber ==
    /\ Reads(Fixed) /\ CanReadNumber
    /\ got' = got \cup ReadsIt(Head(rtodo), NumberAt(Head(rtodo).op))
    /\ rpos' = rpos + Width[Head(rtodo).op]
    /\ rtodo' = Tail(rtodo)
    /\ UNCHANGED failed /\ Read

(* read_string wants UTF-8, read_binary does not; a value that is skipped as    *)
(* a string may be the one of a binary field.                                *)
Size == Signed(Bytes(4))
Payload == SubSeq(wire, rpos + 5, rpos + 4 + Size)

\* Mutant of CanReadString: read_binary wants UTF-8 too.
CanReadTextOnly == Left(4) /\ Left(4 + Size) /\ Utf8(Payload)

CanReadString == Left(4) /\ Left(4 + Size) /\ (Head(rtodo).op = "str" => Utf8(Payload))

ReadString ==
    /\ Reads(Lengthy) /\ CanReadString
    /\ got' = got \cup ReadsIt(Head(rtodo), Text(Payload))
    /\ rpos' = rpos + 4 + Size
    /\ rtodo' = Tail(rtodo)
    /\ UNCHANGED failed /\ Read

(* The items have the type of the schema, or the one in the bytes if the list   *)
(* is skipped.                                                               *)
CanReadList == Left(5) /\ FromU8(Bytes(1)[1]) # {}

ReadListBegin ==
    /\ Reads({"list", "set"}) /\ CanReadList
    /\ LET call == Head(rtodo)
           n    == Signed(SubSeq(wire, rpos + 2, rpos + 5))
       IN \E elem \in IF call.known THEN {ElemOf(call.type)} ELSE {<<t>> : t \in FromU8(Bytes(1)[1])} :
            rtodo' = ItemCalls(call, n, elem) \o Tail(rtodo)
    /\ rpos' = rpos + 5
    /\ UNCHANGED <<got, failed>> /\ Read

CanReadMap == Left(6) /\ \A i \in {1, 2} : FromU8(Bytes(2)[i]) # {}

ReadMapBegin ==
    /\ Reads({"map"}) /\ CanReadMap
    /\ LET call == Head(rtodo)
           n    == Signed(SubSeq(wire, rpos + 3, rpos + 6))
           Typed(schema, i) == IF call.known THEN {schema} ELSE {<<t>> : t \in FromU8(Bytes(2)[i])}
       IN \E key \in Typed(KeyOf(call.type), 1), val \in Typed(ValueOf(call.type), 2) :
            rtodo' = PairCalls(call, n, key, val) \o Tail(rtodo)
    /\ rpos' = rpos + 6
    /\ UNCHANGED <<got, failed>> /\ Read

(* An error of one call is an error of the whole message, and the server        *)
(* closes the connection.                                                    *)
CallFails ==
    \/ Reads({"fields"}) /\ ~CanReadField
    \/ Reads(Fixed) /\ ~CanReadNumber
    \/ Reads(Lengthy) /\ ~CanReadString
    \/ Reads({"list", "set"}) /\ ~CanReadList
    \/ Reads({"map"}) /\ ~CanReadMap

ReadFails ==
    /\ CallFails
    /\ failed' = TRUE
    /\ UNCHANGED <<writer, framer, reader>>

-----------------------------------------------------------------------------
Write ==
    \/ WriteMessageBegin
    \/ WriteFieldBegin
    \/ WriteFieldStop
    \/ WriteNumber
    \/ WriteString
    \/ WriteStructBegin
    \/ WriteListBegin
    \/ WriteMapBegin

Walk == FrameHeader \/ FrameField \/ FrameValue

Decode ==
    \/ ReadMessageBegin
    \/ ReadFieldBegin
    \/ ReadFieldStop
    \/ ReadStructBegin
    \/ ReadNumber
    \/ ReadString
    \/ ReadListBegin
    \/ ReadMapBegin
    \/ ReadFails

Next == Write \/ Walk \/ Decode

Spec == Init /\ [][Next]_vars

-----------------------------------------------------------------------------
(* The framer, which knows no schema, cuts the stream exactly where the         *)
(* messages end, and never meets a type it does not know: neither an empty      *)
(* container with the types of another one, nor a value of any type, nor a      *)
(* method the service does not have puts it out of step.                      *)
FramesAreMessages ==
    /\ Range(ftodo) \subseteq {HEADER, FIELDS} \cup KnownCodes
    /\ Len(frames) <= Len(ends)
    /\ \A i \in DOMAIN frames : frames[i] = <<IF i = 1 THEN 1 ELSE ends[i - 1] + 1, ends[i]>>
    /\ ftodo = <<HEADER>> => fpos \in {0} \cup Range(ends)

(* One value is not read: a binary one that is not UTF-8, among what is skipped, *)
(* since skip_value reads it as a string.                                    *)
AtSkippedBlob ==
    /\ Head(rtodo).op = "str" /\ ~Head(rtodo).known
    /\ Left(4 + Size) /\ Payload \in Blobs

(* The reader comes to the end of the frame, and no further, with every value    *)
(* of the fields it knows where it was written and as it was written, behind     *)
(* whatever it skips.  It fails nowhere but at a skipped binary value.          *)
ReadsTheWholeFrame ==
    /\ failed => AtSkippedBlob
    /\ got \subseteq given
    /\ \A i \in 1 .. turn - 1 :
         {p \in given : p[1][1] = i} = {p \in got : p[1][1] = i}
    /\ turn > 1 /\ rtodo = << >> /\ Found(turn - 1) # {} => rpos = frames[turn - 1][2]
=============================================================================
