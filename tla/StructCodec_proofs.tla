------------------------- MODULE StructCodec_proofs -------------------------
(***************************************************************************)
(* The reader of the Compact protocol finds the field ids the writer wrote,  *)
(* for every set of structs and every value, as long as no short header      *)
(* follows a long one with a new id in a struct; and it stays in step with    *)
(* the writer otherwise.                                                    *)
(***************************************************************************)
EXTENDS StructCodec, SequenceTheorems, TLAPS

(* The writer's stack after the first k of the tokens w.                    *)
StackAt(w, k) == IF k = 0 THEN <<0>> ELSE w[k].last

(* Writing the token e turns the stack s into e.last.                       *)
Turns(e, s) ==
    /\ e.tok.kind = "begin" => e.id = 0 /\ e.last = Push(0, s)
    /\ e.tok.kind = "stop"  => e.id = 0 /\ e.last = Pop(s)
    /\ e.tok.kind \in {"short", "long"} => s # << >> /\ e.last = Push(e.id, Tail(s))
    /\ e.tok.kind = "short" => e.id = Head(s) + e.tok.n
    /\ e.tok.kind = "long"  => e.id = e.tok.n
    /\ e.tok.kind \notin {"begin", "stop", "short", "long"} => e.id = 0 /\ e.last = s

AllTurn(w) == \A k \in 1 .. Len(w) : Turns(w[k], StackAt(w, k - 1))

PendingOK == pending \in Nat \cup {None}

WriterInv ==
    /\ out \in Seq(Written)
    /\ wlast \in Seq(Nat) /\ wlast = StackAt(out, Len(out))
    /\ PendingOK
    /\ AllTurn(out)

ReaderTypes ==
    /\ seen \in Seq(Nat) /\ Len(seen) <= Len(out)
    /\ rlast \in Seq(Nat) /\ rmark \in Seq(Marks) /\ Len(rmark) = Len(rlast)
    /\ misled \in BOOLEAN

(* The reader's stack r is s, the one the writer had there, but for the      *)
(* structs in which a long header with a new id was read.                   *)
Agree(r, mark, s) ==
    /\ Len(r) = Len(s) /\ Len(mark) = Len(s)
    /\ \A i \in 1 .. Len(s) : mark[i] = "stale" \/ r[i] = s[i]

SeenRight(sn, w) == \A k \in 1 .. Len(sn) : sn[k] = w[k].id

ReaderInv ==
    /\ ReaderTypes
    /\ ~misled => /\ Agree(rlast, rmark, StackAt(out, Len(seen)))
                  /\ SeenRight(seen, out)

Inv == WriterInv /\ ReaderInv

-----------------------------------------------------------------------------
(* A stack with something pushed on top of it, and one with its top taken.   *)
OnTop(p, x, s) ==
    /\ Len(p) = Len(s) + 1
    /\ p[1] = x
    /\ \A i \in 1 .. Len(s) : p[i + 1] = s[i]

LEMMA PushSeq ==
    ASSUME NEW S, NEW x \in S, NEW s \in Seq(S)
    PROVE  Push(x, s) \in Seq(S) /\ OnTop(Push(x, s), x, s)
<1>0. PICK p : p = Push(x, s)
  OBVIOUS
<1>1. <<x>> \in Seq(S) /\ Len(<<x>>) = 1 /\ <<x>>[1] = x
  OBVIOUS
<1>2. PICK n \in Nat : n = Len(s)
  BY LenProperties
<1>3. /\ p \in Seq(S) /\ Len(p) = n + 1
      /\ \A i \in 1 .. n + 1 : p[i] = IF i <= 1 THEN <<x>>[i] ELSE s[i - 1]
  BY <1>0, <1>1, <1>2, ConcatProperties DEF Push
<1>4. p[1] = x
  BY <1>1, <1>3
<1>5. ASSUME NEW i \in 1 .. n PROVE p[i + 1] = s[i]
  <2>1. i + 1 \in 1 .. n + 1 /\ ~(i + 1 <= 1) /\ i + 1 - 1 = i
    OBVIOUS
  <2> QED
    BY <1>3, <2>1
<1> QED
  BY <1>0, <1>2, <1>3, <1>4, <1>5 DEF OnTop

LEMMA PopSeq ==
    ASSUME NEW S, NEW s \in Seq(S)
    PROVE  /\ Pop(s) \in Seq(S)
           /\ Len(Pop(s)) = IF s = << >> THEN 0 ELSE Len(s) - 1
           /\ \A i \in 1 .. Len(Pop(s)) : Pop(s)[i] = s[i + 1]
BY HeadTailProperties, EmptySeq DEF Pop

(* Tokens that turn the stack, each from the one before, are written.       *)
LEMMA LogGrows ==
    ASSUME NEW w \in Seq(Written), AllTurn(w),
           NEW t \in Seq(Written), t # << >>,
           NEW u, u = w \o t,
           Turns(t[1], StackAt(w, Len(w))),
           \A k \in 2 .. Len(t) : Turns(t[k], t[k - 1].last)
    PROVE  /\ u \in Seq(Written)
           /\ Len(u) = Len(w) + Len(t)
           /\ AllTurn(u)
           /\ \A k \in 1 .. Len(w) : u[k] = w[k]
           /\ StackAt(u, Len(u)) = t[Len(t)].last
<1>1. Len(w) \in Nat /\ Len(t) \in Nat /\ Len(t) # 0
  BY LenProperties, EmptySeq
<1>2. PICK n \in Nat : n = Len(w)
  BY <1>1
<1>3. PICK m \in Nat : m = Len(t)
  BY <1>1
<1>4. /\ u \in Seq(Written) /\ Len(u) = n + m
      /\ \A k \in 1 .. n + m : u[k] = IF k <= n THEN w[k] ELSE t[k - n]
  BY <1>2, <1>3, ConcatProperties
<1>5. \A k \in 1 .. n : u[k] = w[k]
  BY <1>4
<1>6. \A k \in 1 .. m : u[n + k] = t[k]
  BY <1>4
<1>7. ASSUME NEW k \in 0 .. n PROVE StackAt(u, k) = StackAt(w, k)
  <2>1. k = 0 \/ k \in 1 .. n
    OBVIOUS
  <2> QED
    BY <1>5, <2>1 DEF StackAt
<1>8. ASSUME NEW k \in 1 .. m PROVE StackAt(u, n + k) = t[k].last
  <2>1. n + k # 0
    OBVIOUS
  <2> QED
    BY <1>6, <2>1 DEF StackAt
<1>9. ASSUME NEW k \in 1 .. n + m
      PROVE  Turns(u[k], StackAt(u, k - 1))
  <2>1. CASE k <= n
    <3>1. u[k] = w[k] /\ StackAt(u, k - 1) = StackAt(w, k - 1) /\ k \in 1 .. Len(w)
      BY <1>2, <1>5, <1>7, <2>1
    <3> QED
      BY <3>1 DEF AllTurn
  <2>2. CASE k = n + 1
    <3>1. u[k] = t[1] /\ StackAt(u, k - 1) = StackAt(w, Len(w))
      BY <1>2, <1>6, <1>7, <2>2
    <3> QED
      BY <3>1
  <2>3. CASE k > n + 1
    <3>1. k - n \in 2 .. m /\ k - n - 1 \in 1 .. m /\ k - 1 = n + (k - n - 1)
      BY <2>3
    <3>2. u[k] = t[k - n]
      BY <1>4, <2>3
    <3>3. StackAt(u, k - 1) = t[k - n - 1].last
      BY <1>8, <3>1
    <3> QED
      BY <1>3, <3>1, <3>2, <3>3
  <2>4. k <= n \/ k = n + 1 \/ k > n + 1
    OBVIOUS
  <2> QED
    BY <2>1, <2>2, <2>3, <2>4
<1> QED
  BY <1>1, <1>2, <1>3, <1>4, <1>5, <1>7, <1>8, <1>9 DEF AllTurn

(* The initial state.                                                       *)
LEMMA InitInv == Init => Inv
<1> SUFFICES ASSUME Init PROVE Inv
  OBVIOUS
<1>1. /\ out = << >> /\ Len(out) = 0 /\ out \in Seq(Written)
      /\ seen = << >> /\ Len(seen) = 0 /\ seen \in Seq(Nat)
  BY EmptySeq DEF Init
<1>2. /\ wlast = <<0>> /\ rlast = <<0>> /\ <<0>> \in Seq(Nat) /\ Len(<<0>>) = 1
      /\ rmark = <<"fresh">> /\ rmark \in Seq(Marks) /\ Len(rmark) = 1
      /\ pending = None /\ misled = FALSE
  BY DEF Init, Marks
<1>3. StackAt(out, 0) = <<0>>
  BY DEF StackAt
<1>4. WriterInv
  <2>1. AllTurn(out)
    BY <1>1 DEF AllTurn
  <2> QED
    BY <1>1, <1>2, <1>3, <2>1 DEF WriterInv, PendingOK
<1>5. ReaderTypes
  <2>1. /\ Len(seen) <= Len(out)
        /\ rlast \in Seq(Nat) /\ Len(rmark) = Len(rlast)
    BY <1>1, <1>2
  <2>2. misled \in BOOLEAN
    BY <1>2, Zenon
  <2> QED
    BY <1>1, <1>2, <2>1, <2>2, Zenon DEF ReaderTypes
<1>6. Agree(rlast, rmark, StackAt(out, Len(seen))) /\ SeenRight(seen, out)
  BY <1>1, <1>2, <1>3 DEF Agree, SeenRight
<1> QED
  BY <1>4, <1>5, <1>6 DEF Inv, ReaderInv

-----------------------------------------------------------------------------
(* What the writer's actions have to show.                                  *)
Entry(tok, id, last) == [tok |-> tok, id |-> id, last |-> last]

EmitsWell(tokens, id, last) ==
    /\ tokens \in Seq(Tokens) /\ tokens # << >>
    /\ id \in Nat /\ last \in Seq(Nat)
    /\ Emit(tokens, id, last)
    /\ Turns(Entry(tokens[1], id, last), wlast)
    /\ \A k \in 2 .. Len(tokens) : Turns(Entry(tokens[k], id, last), last)
    /\ PendingOK'
    /\ UNCHANGED reader

LEMMA EmitInv ==
    ASSUME Inv, NEW tokens, NEW id, NEW last, EmitsWell(tokens, id, last)
    PROVE  Inv'
<1>1. PICK t : t = [k \in DOMAIN tokens |-> Entry(tokens[k], id, last)]
  OBVIOUS
<1>2. out' = out \o t /\ wlast' = last
  BY <1>1 DEF EmitsWell, Emit, Entry
<1>3. /\ DOMAIN tokens = 1 .. Len(tokens) /\ Len(tokens) \in Nat /\ Len(tokens) # 0
      /\ \A k \in 1 .. Len(tokens) : tokens[k] \in Tokens
  BY LenProperties, EmptySeq, ElementOfSeq DEF EmitsWell
<1>4. /\ t \in Seq(Written) /\ Len(t) = Len(tokens)
      /\ \A k \in 1 .. Len(tokens) : t[k] = Entry(tokens[k], id, last)
  <2>1. \A k \in 1 .. Len(tokens) : Entry(tokens[k], id, last) \in Written
    BY <1>3 DEF EmitsWell, Entry, Written
  <2>2. PICK m \in Nat : m = Len(tokens)
    BY <1>3
  <2>3. t = [k \in 1 .. m |-> Entry(tokens[k], id, last)]
    BY <1>1, <1>3, <2>2
  <2> QED
    BY <2>1, <2>2, <2>3
<1>5. /\ t # << >> /\ t[Len(t)].last = last
      /\ Turns(t[1], wlast)
      /\ \A k \in 2 .. Len(t) : Turns(t[k], t[k - 1].last)
  <2>1. ASSUME NEW k \in 1 .. Len(t) PROVE t[k].last = last
    <3>1. t[k] = Entry(tokens[k], id, last)
      BY <1>4
    <3> QED
      BY <3>1 DEF Entry
  <2>2. t # << >> /\ 1 \in 1 .. Len(t) /\ Len(t) \in 1 .. Len(t)
    BY <1>3, <1>4
  <2>3. Turns(t[1], wlast)
    BY <1>4, <2>2 DEF EmitsWell
  <2>4. \A k \in 2 .. Len(t) : k \in 1 .. Len(t) /\ k - 1 \in 1 .. Len(t)
    BY <1>3, <1>4
  <2>5. \A k \in 2 .. Len(t) : Turns(t[k], last)
    BY <1>4, <2>4 DEF EmitsWell
  <2> QED
    BY <2>1, <2>2, <2>3, <2>4, <2>5
<1>6. /\ out \in Seq(Written) /\ AllTurn(out) /\ wlast = StackAt(out, Len(out))
      /\ Len(out) \in Nat
  BY LenProperties DEF Inv, WriterInv
<1>7. /\ out' \in Seq(Written) /\ Len(out') = Len(out) + Len(t)
      /\ AllTurn(out')
      /\ \A k \in 1 .. Len(out) : out'[k] = out[k]
      /\ StackAt(out', Len(out')) = last
  <2>1. t \in Seq(Written) /\ t # << >> /\ out' = out \o t
    BY <1>2, <1>4, <1>5
  <2>2. Turns(t[1], StackAt(out, Len(out)))
    BY <1>5, <1>6
  <2>3. \A k \in 2 .. Len(t) : Turns(t[k], t[k - 1].last)
    BY <1>5
  <2>4. t[Len(t)].last = last
    BY <1>5
  <2>5. out \in Seq(Written) /\ AllTurn(out)
    BY <1>6
  <2>6. /\ out' \in Seq(Written) /\ Len(out') = Len(out) + Len(t)
        /\ AllTurn(out')
        /\ StackAt(out', Len(out')) = t[Len(t)].last
    BY <2>1, <2>2, <2>3, <2>5, LogGrows
  <2>7. \A k \in 1 .. Len(out) : out'[k] = out[k]
    BY <2>1, <2>2, <2>3, <2>5, LogGrows
  <2> QED
    BY <2>4, <2>6, <2>7
<1>8. WriterInv'
  <2>1. last \in Seq(Nat) /\ PendingOK'
    BY DEF EmitsWell
  <2> QED
    BY <1>2, <1>7, <2>1 DEF WriterInv
<1>9. /\ seen' = seen /\ rlast' = rlast /\ rmark' = rmark /\ misled' = misled
  BY DEF EmitsWell, reader
<1>10. Len(seen) \in 0 .. Len(out) /\ Len(out) <= Len(out')
  BY <1>3, <1>4, <1>6, <1>7, LenProperties DEF Inv, ReaderInv, ReaderTypes
<1>11. ReaderTypes'
  <2>1. Len(seen) <= Len(out')
    BY <1>6, <1>7, <1>3, <1>4, <1>10
  <2> QED
    BY <1>9, <2>1 DEF Inv, ReaderInv, ReaderTypes
<1>12. StackAt(out', Len(seen')) = StackAt(out, Len(seen))
  <2>1. Len(seen) = 0 \/ Len(seen) \in 1 .. Len(out)
    BY <1>10
  <2> QED
    BY <1>7, <1>9, <2>1 DEF StackAt
<1>13. SeenRight(seen, out) => SeenRight(seen', out')
  <2>1. \A k \in 1 .. Len(seen) : out'[k] = out[k]
    BY <1>6, <1>7, <1>10
  <2> QED
    BY <1>9, <2>1 DEF SeenRight
<1> QED
  BY <1>8, <1>9, <1>11, <1>12, <1>13 DEF Inv, ReaderInv

-----------------------------------------------------------------------------
(* Tokens that are no field header leave the stack alone.                   *)
Plain(tok) == tok \in Tokens /\ tok.kind \notin {"begin", "stop", "short", "long"}

LEMMA NibbleOfType == ASSUME NEW t PROVE FromTType(t) \in Nibbles
BY DEF FromTType, TTypes, Nibbles

LEMMA TokenIsToken ==
    ASSUME NEW kind \in Kinds, NEW n \in Nat, NEW type \in Nibbles
    PROVE  Token(kind, n, type) \in Tokens /\ Token(kind, n, type).kind = kind
BY DEF Token, Tokens, Nibbles

(* One token, or two plain ones.                                            *)
LEMMA EmitOneInv ==
    ASSUME Inv, NEW tok \in Tokens, NEW id \in Nat, NEW last \in Seq(Nat),
           Emit(<<tok>>, id, last), Turns(Entry(tok, id, last), wlast),
           PendingOK', UNCHANGED reader
    PROVE  Inv'
<1>1. /\ <<tok>> \in Seq(Tokens) /\ <<tok>> # << >> /\ <<tok>>[1] = tok
      /\ Len(<<tok>>) = 1
  OBVIOUS
<1>2. \A k \in 2 .. Len(<<tok>>) : FALSE
  BY <1>1
<1>3. EmitsWell(<<tok>>, id, last)
  BY <1>1, <1>2 DEF EmitsWell
<1> QED
  BY <1>3, EmitInv

LEMMA PlainTurns ==
    ASSUME NEW tok, Plain(tok), NEW s
    PROVE  Turns(Entry(tok, 0, s), s)
BY DEF Plain, Turns, Entry

LEMMA EmitPlainInv ==
    ASSUME Inv, NEW tokens \in Seq(Tokens), tokens # << >>,
           \A k \in 1 .. Len(tokens) : Plain(tokens[k]),
           Emit(tokens, 0, wlast), PendingOK', UNCHANGED reader
    PROVE  Inv'
<1>1. Len(tokens) \in Nat /\ Len(tokens) # 0
  BY LenProperties, EmptySeq
<1>2. 1 \in 1 .. Len(tokens) /\ \A k \in 2 .. Len(tokens) : k \in 1 .. Len(tokens)
  BY <1>1
<1>3. \A k \in 1 .. Len(tokens) : Turns(Entry(tokens[k], 0, wlast), wlast)
  BY PlainTurns
<1>4. wlast \in Seq(Nat)
  BY DEF Inv, WriterInv
<1>5. EmitsWell(tokens, 0, wlast)
  BY <1>2, <1>3, <1>4 DEF EmitsWell
<1> QED
  BY <1>5, EmitInv

LEMMA OnePlainInv ==
    ASSUME Inv, NEW tok, Plain(tok),
           Emit(<<tok>>, 0, wlast), PendingOK', UNCHANGED reader
    PROVE  Inv'
<1>1. tok \in Tokens /\ wlast \in Seq(Nat)
  BY DEF Plain, Inv, WriterInv
<1>2. Turns(Entry(tok, 0, wlast), wlast)
  BY PlainTurns
<1> QED
  BY <1>1, <1>2, EmitOneInv

LEMMA TwoPlainInv ==
    ASSUME Inv, NEW tok1, Plain(tok1), NEW tok2, Plain(tok2),
           Emit(<<tok1, tok2>>, 0, wlast), PendingOK', UNCHANGED reader
    PROVE  Inv'
<1>1. PICK ts : ts = <<tok1, tok2>>
  OBVIOUS
<1>2. tok1 \in Tokens /\ tok2 \in Tokens
  BY DEF Plain
<1>3. /\ ts \in Seq(Tokens) /\ ts # << >> /\ Len(ts) = 2
      /\ ts[1] = tok1 /\ ts[2] = tok2
  BY <1>1, <1>2
<1>4. \A k \in 1 .. Len(ts) : Plain(ts[k])
  <2>1. \A k \in 1 .. Len(ts) : k = 1 \/ k = 2
    BY <1>3
  <2> QED
    BY <1>3, <2>1
<1> QED
  BY <1>1, <1>3, <1>4, EmitPlainInv

(* A field header, short or long.                                           *)
LEMMA EmitHeaderInv ==
    ASSUME Inv, NEW id \in Nat, NEW type \in Nibbles, EmitHeader(id, type),
           PendingOK', UNCHANGED reader
    PROVE  Inv'
<1> DEFINE h    == Header(Head(wlast), id, type)
           last == Push(id, Tail(wlast))
<1>1. wlast # << >> /\ Emit(<<h>>, id, last)
  BY DEF EmitHeader
<1>2. wlast \in Seq(Nat) /\ Head(wlast) \in Nat /\ Tail(wlast) \in Seq(Nat)
  BY <1>1, HeadTailProperties DEF Inv, WriterInv
<1>3. last \in Seq(Nat)
  BY <1>2, PushSeq
<1>4. /\ h \in Tokens
      /\ \/ h.kind = "short" /\ id = Head(wlast) + h.n
         \/ h.kind = "long" /\ id = h.n
  BY <1>2, CodecAssumption DEF Header, Token, Tokens, Kinds, Nibbles
<1> HIDE DEF h, last
<1>5. Turns(Entry(h, id, last), wlast)
  <2>1. last = Push(id, Tail(wlast))
    BY DEF last
  <2> QED
    BY <1>1, <1>4, <2>1 DEF Turns, Entry
<1> QED
  BY <1>1, <1>3, <1>4, <1>5, EmitOneInv

-----------------------------------------------------------------------------
(* The actions of the writer.                                               *)
LEMMA WriteStructBeginInv == Inv /\ WriteStructBegin => Inv'
<1> SUFFICES ASSUME Inv, WriteStructBegin PROVE Inv'
  OBVIOUS
<1> DEFINE tok  == Token("begin", 0, "none")
           last == Push(0, wlast)
<1>1. tok \in Tokens /\ tok.kind = "begin"
  BY TokenIsToken DEF Kinds, Nibbles
<1>2. wlast \in Seq(Nat) /\ PendingOK' /\ UNCHANGED reader
  BY DEF Inv, WriterInv, WriteStructBegin, PendingOK
<1>3. last \in Seq(Nat) /\ Emit(<<tok>>, 0, last)
  BY <1>2, PushSeq DEF WriteStructBegin
<1>4. Turns(Entry(tok, 0, last), wlast)
  BY <1>1 DEF Turns, Entry
<1> HIDE DEF tok, last
<1> QED
  BY <1>1, <1>2, <1>3, <1>4, EmitOneInv

LEMMA WriteFieldStopInv == Inv /\ WriteFieldStop => Inv'
<1> SUFFICES ASSUME Inv, WriteFieldStop PROVE Inv'
  OBVIOUS
<1> DEFINE tok  == Token("stop", 0, "none")
           last == Pop(wlast)
<1>1. tok \in Tokens /\ tok.kind = "stop"
  BY TokenIsToken DEF Kinds, Nibbles
<1>2. wlast \in Seq(Nat) /\ PendingOK' /\ UNCHANGED reader
  BY DEF Inv, WriterInv, WriteFieldStop, PendingOK
<1>3. last \in Seq(Nat) /\ Emit(<<tok>>, 0, last)
  BY <1>2, PopSeq DEF WriteFieldStop
<1>4. Turns(Entry(tok, 0, last), wlast)
  BY <1>1 DEF Turns, Entry
<1> HIDE DEF tok, last
<1> QED
  BY <1>1, <1>2, <1>3, <1>4, EmitOneInv

(* A boolean field is put off and writes nothing.                           *)
LEMMA WriteNothingInv ==
    ASSUME Inv, UNCHANGED <<out, wlast>>, PendingOK', UNCHANGED reader
    PROVE  Inv'
BY DEF Inv, WriterInv, ReaderInv, ReaderTypes, reader

LEMMA WriteFieldBeginInv == Inv /\ WriteFieldBegin => Inv'
<1> SUFFICES ASSUME Inv, WriteFieldBegin PROVE Inv'
  OBVIOUS
<1>1. PICK s \in DOMAIN Structs : \E i \in DOMAIN Structs[s] :
        LET f == Structs[s][i] IN
        IF f.type = <<"bool">>
        THEN pending' = f.id /\ UNCHANGED <<out, wlast>>
        ELSE EmitHeader(f.id, FromTType(f.type[1])) /\ UNCHANGED pending
  BY DEF WriteFieldBegin
<1>2. PICK i \in DOMAIN Structs[s] :
        LET f == Structs[s][i] IN
        IF f.type = <<"bool">>
        THEN pending' = f.id /\ UNCHANGED <<out, wlast>>
        ELSE EmitHeader(f.id, FromTType(f.type[1])) /\ UNCHANGED pending
  BY <1>1
<1>3. PICK f : f = Structs[s][i]
  OBVIOUS
<1>4. f \in Field
  <2>1. Structs[s] \in Seq(Field)
    BY CodecAssumption
  <2>2. i \in 1 .. Len(Structs[s])
    BY <2>1, LenProperties
  <2> QED
    BY <1>3, <2>1, <2>2, ElementOfSeq
<1>5. f.id \in Nat
  BY <1>4 DEF Field
<1>6. UNCHANGED reader
  BY DEF WriteFieldBegin
<1>7. CASE f.type = <<"bool">>
  <2>1. pending' = f.id /\ UNCHANGED <<out, wlast>>
    BY <1>2, <1>3, <1>7
  <2>2. PendingOK'
    BY <1>5, <2>1 DEF PendingOK
  <2> QED
    BY <1>6, <2>1, <2>2, WriteNothingInv
<1>8. CASE f.type # <<"bool">>
  <2>1. EmitHeader(f.id, FromTType(f.type[1])) /\ UNCHANGED pending
    BY <1>2, <1>3, <1>8
  <2>2. FromTType(f.type[1]) \in Nibbles
    BY NibbleOfType
  <2>3. PendingOK'
    BY <2>1 DEF Inv, WriterInv, PendingOK
  <2> QED
    BY <1>5, <1>6, <2>1, <2>2, <2>3, EmitHeaderInv
<1> QED
  BY <1>7, <1>8

LEMMA WriteBoolInv == Inv /\ WriteBool => Inv'
<1> SUFFICES ASSUME Inv, WriteBool PROVE Inv'
  OBVIOUS
<1>1. PICK v \in Bools :
        IF pending # None
        THEN EmitHeader(pending, v)
        ELSE Emit(<<Token("bool", 0, v)>>, 0, wlast)
  BY DEF WriteBool
<1>2. v \in Nibbles /\ PendingOK' /\ UNCHANGED reader
  BY DEF WriteBool, Bools, Nibbles, PendingOK
<1>3. CASE pending # None
  <2>1. pending \in Nat
    BY <1>3 DEF Inv, WriterInv, PendingOK
  <2> QED
    BY <1>1, <1>2, <1>3, <2>1, EmitHeaderInv
<1>4. CASE pending = None
  <2>1. Plain(Token("bool", 0, v))
    BY <1>2, TokenIsToken DEF Plain, Kinds
  <2> QED
    BY <1>1, <1>2, <1>4, <2>1, OnePlainInv
<1> QED
  BY <1>3, <1>4

LEMMA WriteScalarInv == Inv /\ WriteScalar => Inv'
<1> SUFFICES ASSUME Inv, WriteScalar PROVE Inv'
  OBVIOUS
<1>1. Plain(Token("scalar", 0, "none"))
  BY TokenIsToken DEF Plain, Kinds, Nibbles
<1>2. /\ Emit(<<Token("scalar", 0, "none")>>, 0, wlast)
      /\ PendingOK' /\ UNCHANGED reader
  BY DEF WriteScalar, Inv, WriterInv, PendingOK
<1> QED
  BY <1>1, <1>2, OnePlainInv

LEMMA WriteListBeginInv == Inv /\ WriteListBegin => Inv'
<1> SUFFICES ASSUME Inv, WriteListBegin PROVE Inv'
  OBVIOUS
<1>1. PICK n \in 0 .. MaxSize :
        \E nibble \in ElemNibbles(n, Tail(Head(wtodo).type)[1]) :
          Emit(ListHeader(n, nibble), 0, wlast)
  BY DEF WriteListBegin
<1>2. PICK nibble \in ElemNibbles(n, Tail(Head(wtodo).type)[1]) :
        Emit(ListHeader(n, nibble), 0, wlast)
  BY <1>1
<1>3. nibble \in Nibbles /\ n \in Nat
  BY NibbleOfType, CodecAssumption DEF ElemNibbles, Nibbles
<1>4. PendingOK' /\ UNCHANGED reader
  BY DEF WriteListBegin, Inv, WriterInv, PendingOK
<1>5. /\ Plain(Token("list", n, nibble))
      /\ Plain(Token("list", MaxNibble, nibble))
      /\ Plain(Token("size", n, "none"))
  <2>1. MaxNibble \in Nat /\ "none" \in Nibbles
    BY CodecAssumption DEF Nibbles
  <2>2. Plain(Token("list", n, nibble))
    BY <1>3, TokenIsToken DEF Plain, Kinds
  <2>3. Plain(Token("list", MaxNibble, nibble))
    BY <1>3, <2>1, TokenIsToken DEF Plain, Kinds
  <2>4. Plain(Token("size", n, "none"))
    BY <1>3, <2>1, TokenIsToken DEF Plain, Kinds
  <2> QED
    BY <2>2, <2>3, <2>4
<1>6. CASE n <= MaxNibble - 1
  BY <1>2, <1>4, <1>5, <1>6, OnePlainInv DEF ListHeader
<1>7. CASE ~(n <= MaxNibble - 1)
  BY <1>2, <1>4, <1>5, <1>7, TwoPlainInv DEF ListHeader
<1> QED
  BY <1>6, <1>7

LEMMA WriteMapBeginInv == Inv /\ WriteMapBegin => Inv'
<1> SUFFICES ASSUME Inv, WriteMapBegin PROVE Inv'
  OBVIOUS
<1>1. PICK n \in 0 .. MaxSize : \E k, v :
        LET size == Token("size", n, "none")
            both == [kind |-> "types", n |-> 0, type |-> FromTType(v), key |-> FromTType(k)]
        IN Emit(IF n = 0 THEN <<size>> ELSE <<size, both>>, 0, wlast)
  BY DEF WriteMapBegin
<1>2. PICK k, v :
        LET size == Token("size", n, "none")
            both == [kind |-> "types", n |-> 0, type |-> FromTType(v), key |-> FromTType(k)]
        IN Emit(IF n = 0 THEN <<size>> ELSE <<size, both>>, 0, wlast)
  BY <1>1
<1> DEFINE size == Token("size", n, "none")
           both == [kind |-> "types", n |-> 0, type |-> FromTType(v), key |-> FromTType(k)]
<1>3. Plain(size)
  BY CodecAssumption, TokenIsToken DEF Plain, Kinds, Nibbles
<1>4. Plain(both)
  BY NibbleOfType DEF Plain, Tokens, Kinds
<1>5. PendingOK' /\ UNCHANGED reader
  BY DEF WriteMapBegin, Inv, WriterInv, PendingOK
<1>6. Emit(IF n = 0 THEN <<size>> ELSE <<size, both>>, 0, wlast)
  BY <1>2
<1> HIDE DEF size, both
<1>7. CASE n = 0
  BY <1>3, <1>5, <1>6, <1>7, OnePlainInv
<1>8. CASE n # 0
  BY <1>3, <1>4, <1>5, <1>6, <1>8, TwoPlainInv
<1> QED
  BY <1>7, <1>8

-----------------------------------------------------------------------------
(* The stacks of the two sides keep agreeing when both are pushed on, with   *)
(* the same id unless the struct has had a long header, or both are popped.  *)
LEMMA PushAgree ==
    ASSUME NEW S, NEW F,
           NEW r \in Seq(S), NEW mark \in Seq(F), NEW s \in Seq(S),
           Agree(r, mark, s),
           NEW x \in S, NEW b \in F, NEW y \in S, b = "stale" \/ x = y
    PROVE  Agree(Push(x, r), Push(b, mark), Push(y, s))
<1>1. PICK n \in Nat : n = Len(s) /\ n = Len(r) /\ n = Len(mark)
  BY LenProperties DEF Agree
<1>2. PICK rp : rp = Push(x, r)
  OBVIOUS
<1>3. PICK lp : lp = Push(b, mark)
  OBVIOUS
<1>4. PICK sp : sp = Push(y, s)
  OBVIOUS
<1>5. Len(rp) = n + 1 /\ rp[1] = x /\ \A i \in 1 .. n : rp[i + 1] = r[i]
  <2>1. OnTop(rp, x, r)
    BY <1>2, PushSeq
  <2> QED
    BY <1>1, <2>1 DEF OnTop
<1>6. Len(lp) = n + 1 /\ lp[1] = b /\ \A i \in 1 .. n : lp[i + 1] = mark[i]
  <2>1. OnTop(lp, b, mark)
    BY <1>3, PushSeq
  <2> QED
    BY <1>1, <2>1 DEF OnTop
<1>7. Len(sp) = n + 1 /\ sp[1] = y /\ \A i \in 1 .. n : sp[i + 1] = s[i]
  <2>1. OnTop(sp, y, s)
    BY <1>4, PushSeq
  <2> QED
    BY <1>1, <2>1 DEF OnTop
<1>8. ASSUME NEW i \in 1 .. n + 1 PROVE lp[i] = "stale" \/ rp[i] = sp[i]
  <2>1. CASE i = 1
    BY <1>5, <1>6, <1>7, <2>1
  <2>2. CASE i # 1
    <3>1. PICK j \in 1 .. n : i = j + 1
      BY <2>2
    <3>2. mark[j] = "stale" \/ r[j] = s[j]
      BY <1>1, <3>1 DEF Agree
    <3> QED
      BY <1>5, <1>6, <1>7, <3>1, <3>2
  <2> QED
    BY <2>1, <2>2
<1>9. Agree(rp, lp, sp)
  BY <1>5, <1>6, <1>7, <1>8 DEF Agree
<1> QED
  BY <1>2, <1>3, <1>4, <1>9

LEMMA PopAgree ==
    ASSUME NEW S, NEW F,
           NEW r \in Seq(S), NEW mark \in Seq(F), NEW s \in Seq(S),
           Agree(r, mark, s)
    PROVE  Agree(Pop(r), Pop(mark), Pop(s))
<1>1. PICK n \in Nat : n = Len(s) /\ n = Len(r) /\ n = Len(mark)
  BY LenProperties DEF Agree
<1>2. CASE n = 0
  <2>1. r = << >> /\ mark = << >> /\ s = << >>
    BY <1>1, <1>2, EmptySeq
  <2> QED
    BY <2>1 DEF Pop
<1>3. CASE n # 0
  <2>1. r # << >> /\ mark # << >> /\ s # << >>
    BY <1>1, <1>3, EmptySeq
  <2>2. /\ Len(Pop(r)) = n - 1 /\ Len(Pop(mark)) = n - 1 /\ Len(Pop(s)) = n - 1
        /\ \A i \in 1 .. n - 1 : Pop(r)[i] = r[i + 1]
        /\ \A i \in 1 .. n - 1 : Pop(mark)[i] = mark[i + 1]
        /\ \A i \in 1 .. n - 1 : Pop(s)[i] = s[i + 1]
    BY <1>1, <2>1, PopSeq
  <2>3. ASSUME NEW i \in 1 .. n - 1 PROVE Pop(mark)[i] = "stale" \/ Pop(r)[i] = Pop(s)[i]
    <3>1. i + 1 \in 1 .. n
      OBVIOUS
    <3>2. mark[i + 1] = "stale" \/ r[i + 1] = s[i + 1]
      BY <1>1, <3>1 DEF Agree
    <3> QED
      BY <2>2, <3>2
  <2> QED
    BY <1>1, <2>2, <2>3 DEF Agree
<1> QED
  BY <1>2, <1>3

LEMMA PushHeadTail ==
    ASSUME NEW S, NEW s \in Seq(S), s # << >>
    PROVE  Push(Head(s), Tail(s)) = s
<1>1. PICK p : p = Push(Head(s), Tail(s))
  OBVIOUS
<1>2. PICK n \in Nat : n = Len(s) /\ n # 0
  BY LenProperties, EmptySeq
<1>3. /\ Head(s) \in S /\ Head(s) = s[1] /\ Tail(s) \in Seq(S) /\ Len(Tail(s)) = n - 1
      /\ \A i \in 1 .. n - 1 : Tail(s)[i] = s[i + 1]
  BY <1>2, HeadTailProperties
<1>4. p \in Seq(S) /\ OnTop(p, Head(s), Tail(s))
  BY <1>1, <1>3, PushSeq
<1>5. Len(p) = n /\ p[1] = s[1] /\ \A i \in 1 .. n - 1 : p[i + 1] = s[i + 1]
  BY <1>2, <1>3, <1>4 DEF OnTop
<1>6. ASSUME NEW i \in 1 .. n PROVE p[i] = s[i]
  <2>1. CASE i = 1
    BY <1>5, <2>1
  <2>2. CASE i # 1
    <3>1. PICK j \in 1 .. n - 1 : i = j + 1
      BY <2>2
    <3> QED
      BY <1>5, <3>1
  <2> QED
    BY <2>1, <2>2
<1>7. p = s
  BY <1>2, <1>4, <1>5, <1>6, SeqEqual
<1> QED
  BY <1>1, <1>7

(* The tops of the stacks change.                                           *)
LEMMA RetopAgree ==
    ASSUME NEW S, NEW F,
           NEW r \in Seq(S), NEW mark \in Seq(F), NEW s \in Seq(S),
           Agree(r, mark, s), r # << >>,
           NEW x \in S, NEW b \in F, NEW y \in S, b = "stale" \/ x = y
    PROVE  /\ mark # << >> /\ s # << >>
           /\ Agree(Push(x, Tail(r)), Push(b, Tail(mark)), Push(y, Tail(s)))
<1>1. PICK n \in Nat : n = Len(s) /\ n = Len(r) /\ n = Len(mark)
  BY LenProperties DEF Agree
<1>2. mark # << >> /\ s # << >>
  BY <1>1, EmptySeq
<1>3. Tail(r) \in Seq(S) /\ Tail(mark) \in Seq(F) /\ Tail(s) \in Seq(S)
  BY <1>2, HeadTailProperties
<1>4. Agree(Tail(r), Tail(mark), Tail(s))
  BY <1>2, PopAgree DEF Pop
<1> QED
  BY <1>2, <1>3, <1>4, PushAgree

(* The reader takes tokens and makes of each the id t gives it.              *)
LEMMA SeenGrows ==
    ASSUME NEW w, NEW sn \in Seq(Nat), SeenRight(sn, w),
           NEW t \in Seq(Nat), \A k \in 1 .. Len(t) : t[k] = w[Len(sn) + k].id
    PROVE  SeenRight(sn \o t, w)
<1>1. PICK n \in Nat : n = Len(sn)
  BY LenProperties
<1>2. PICK m \in Nat : m = Len(t)
  BY LenProperties
<1>3. /\ Len(sn \o t) = n + m
      /\ \A k \in 1 .. n + m : (sn \o t)[k] = IF k <= n THEN sn[k] ELSE t[k - n]
  BY <1>1, <1>2, ConcatProperties
<1>4. ASSUME NEW k \in 1 .. n + m PROVE (sn \o t)[k] = w[k].id
  <2>1. CASE k <= n
    <3>1. k \in 1 .. Len(sn)
      BY <1>1, <2>1
    <3> QED
      BY <1>3, <2>1, <3>1 DEF SeenRight
  <2>2. CASE k > n
    <3>1. k - n \in 1 .. Len(t) /\ Len(sn) + (k - n) = k
      BY <1>1, <1>2, <2>2
    <3>2. t[k - n] = w[k].id
      BY <3>1
    <3> QED
      BY <1>3, <2>2, <3>2
  <2>3. k <= n \/ k > n
    OBVIOUS
  <2> QED
    BY <2>1, <2>2, <2>3
<1> QED
  BY <1>3, <1>4 DEF SeenRight

-----------------------------------------------------------------------------
(* What is known of a token that the reader may take.                       *)
LEMMA TokenAt ==
    ASSUME Inv, NEW k \in Nat, k # 0, Len(seen) + k <= Len(out)
    PROVE  /\ Tok(k) = out[Len(seen) + k].tok
           /\ Tok(k) \in Tokens
           /\ out[Len(seen) + k].last = StackAt(out, Len(seen) + k)
           /\ Turns(out[Len(seen) + k], StackAt(out, Len(seen) + k - 1))
           /\ StackAt(out, Len(seen) + k) \in Seq(Nat)
           /\ StackAt(out, Len(seen) + k - 1) \in Seq(Nat)
<1>1. PICK n \in Nat : n = Len(seen)
  BY LenProperties DEF Inv, ReaderInv, ReaderTypes
<1>2. PICK m \in Nat : m = Len(out)
  BY LenProperties DEF Inv, WriterInv
<1>3. n + k \in 1 .. m
  BY <1>1, <1>2
<1>4. out \in Seq(Written) /\ AllTurn(out)
  BY DEF Inv, WriterInv
<1>5. \A i \in 1 .. m : out[i] \in Written
  BY <1>2, <1>4, ElementOfSeq
<1>6. ASSUME NEW i \in 0 .. m PROVE StackAt(out, i) \in Seq(Nat)
  <2>1. CASE i = 0
    <3>1. <<0>> \in Seq(Nat)
      OBVIOUS
    <3> QED
      BY <2>1, <3>1 DEF StackAt
  <2>2. CASE i # 0
    <3>1. i \in 1 .. m
      BY <2>2
    <3>2. out[i].last \in Seq(Nat)
      BY <1>5, <3>1 DEF Written
    <3> QED
      BY <2>2, <3>2 DEF StackAt
  <2> QED
    BY <2>1, <2>2
<1>7. Turns(out[n + k], StackAt(out, n + k - 1))
  BY <1>2, <1>3, <1>4 DEF AllTurn
<1>8. out[n + k].last = StackAt(out, n + k)
  <2>1. n + k # 0
    BY <1>3
  <2> QED
    BY <2>1 DEF StackAt
<1>9. out[n + k].tok \in Tokens
  BY <1>3, <1>5 DEF Written
<1>10. n + k \in 0 .. m /\ n + k - 1 \in 0 .. m
  BY <1>3
<1>11. StackAt(out, n + k) \in Seq(Nat) /\ StackAt(out, n + k - 1) \in Seq(Nat)
  BY <1>6, <1>10
<1> QED
  BY <1>1, <1>7, <1>8, <1>9, <1>11 DEF Tok

(* What the reader's actions have to show: they take the tokens t gives ids  *)
(* to, and their stack agrees with the writer's after those tokens.         *)
LEMMA TakeInv ==
    ASSUME Inv, NEW t \in Seq(Nat), seen' = seen \o t, UNCHANGED writer,
           Len(seen) + Len(t) <= Len(out),
           rlast' \in Seq(Nat), rmark' \in Seq(Marks), Len(rmark') = Len(rlast'),
           misled' \in BOOLEAN,
           misled => misled',
           ~misled' => /\ \A k \in 1 .. Len(t) : t[k] = out[Len(seen) + k].id
                       /\ Agree(rlast', rmark', StackAt(out, Len(seen) + Len(t)))
    PROVE  Inv'
<1>1. seen \in Seq(Nat)
  BY DEF Inv, ReaderInv, ReaderTypes
<1>2. seen' \in Seq(Nat) /\ Len(seen') = Len(seen) + Len(t)
  BY <1>1, ConcatProperties
<1>3. out' = out /\ wlast' = wlast /\ pending' = pending
  BY DEF writer
<1>4. WriterInv'
  BY <1>3 DEF Inv, WriterInv, PendingOK
<1>5. Len(seen') <= Len(out')
  BY <1>2, <1>3
<1>6. ReaderTypes'
  BY <1>2, <1>5, Zenon DEF ReaderTypes
<1>7. ASSUME ~misled' PROVE SeenRight(seen', out')
  <2>1. SeenRight(seen, out)
    BY <1>7 DEF Inv, ReaderInv
  <2>2. SeenRight(seen \o t, out)
    BY <1>1, <1>7, <2>1, SeenGrows
  <2> QED
    BY <1>3, <2>2
<1>8. ~misled' => Agree(rlast', rmark', StackAt(out', Len(seen')))
  BY <1>2, <1>3
<1> QED
  BY <1>4, <1>6, <1>7, <1>8 DEF Inv, ReaderInv

LEMMA Zeros ==
    ASSUME NEW n \in Nat
    PROVE  \E t \in Seq(Nat) : /\ t = [k \in 1 .. n |-> 0]
                               /\ Len(t) = n
                               /\ \A k \in 1 .. n : t[k] = 0
<1>1. PICK t : t = [k \in 1 .. n |-> 0]
  OBVIOUS
<1>2. t \in Seq(Nat) /\ Len(t) = n /\ \A k \in 1 .. n : t[k] = 0
  BY <1>1
<1> QED
  BY <1>1, <1>2

LEMMA OneZero ==
    \E t \in Seq(Nat) : t = [k \in 1 .. 1 |-> 0] /\ Len(t) = 1 /\ t[1] = 0
<1>1. PICK t : t = [k \in 1 .. 1 |-> 0]
  OBVIOUS
<1>2. t \in Seq(Nat) /\ Len(t) = 1 /\ t[1] = 0
  BY <1>1
<1> QED
  BY <1>1, <1>2

LEMMA ComesOne ==
    ASSUME NEW a, Comes(<<a>>)
    PROVE  Len(seen) + 1 <= Len(out) /\ Tok(1).kind = a
<1>1. PICK kinds : kinds = <<a>>
  OBVIOUS
<1>2. Len(kinds) = 1 /\ 1 \in DOMAIN kinds /\ kinds[1] = a
  BY <1>1
<1> QED
  BY <1>1, <1>2 DEF Comes

LEMMA ComesTwo ==
    ASSUME NEW a, NEW b, Comes(<<a, b>>)
    PROVE  Len(seen) + 2 <= Len(out) /\ Tok(1).kind = a /\ Tok(2).kind = b
<1>1. PICK kinds : kinds = <<a, b>>
  OBVIOUS
<1>2. /\ Len(kinds) = 2 /\ 1 \in DOMAIN kinds /\ 2 \in DOMAIN kinds
      /\ kinds[1] = a /\ kinds[2] = b
  BY <1>1
<1> QED
  BY <1>1, <1>2 DEF Comes

(* One token and no change of the stack but the one given.                  *)
LEMMA TakeOneInv ==
    ASSUME Inv, NEW id \in Nat, NEW t, t \in Seq(Nat), Len(t) = 1, t[1] = id,
           seen' = seen \o t, UNCHANGED writer,
           Len(seen) + 1 <= Len(out),
           rlast' \in Seq(Nat), rmark' \in Seq(Marks), Len(rmark') = Len(rlast'),
           misled' \in BOOLEAN,
           misled => misled',
           ~misled' => /\ id = out[Len(seen) + 1].id
                       /\ Agree(rlast', rmark', StackAt(out, Len(seen) + 1))
    PROVE  Inv'
<1>1. Len(seen) + Len(t) <= Len(out)
  OBVIOUS
<1>2. ASSUME ~misled' PROVE \A k \in 1 .. Len(t) : t[k] = out[Len(seen) + k].id
  BY <1>2
<1>3. ~misled' => Agree(rlast', rmark', StackAt(out, Len(seen) + Len(t)))
  OBVIOUS
<1> QED
  BY <1>1, <1>2, <1>3, TakeInv

(* Nothing is taken.                                                        *)
LEMMA TakeNothingInv ==
    ASSUME Inv, UNCHANGED <<seen, rlast, rmark, misled, writer>>
    PROVE  Inv'
BY DEF Inv, WriterInv, ReaderInv, ReaderTypes, writer, PendingOK

(* One or two tokens that are no field header, begin or end of a struct.     *)
PlainAt(k) == Tok(k).kind \notin {"begin", "stop", "short", "long"}

LEMMA PlainAtStack ==
    ASSUME Inv, NEW k \in Nat, k # 0, Len(seen) + k <= Len(out), PlainAt(k)
    PROVE  /\ out[Len(seen) + k].id = 0
           /\ StackAt(out, Len(seen) + k) = StackAt(out, Len(seen) + k - 1)
BY TokenAt DEF PlainAt, Turns

LEMMA ReadPlainInv ==
    ASSUME Inv, NEW n \in {1, 2}, Take(n), Len(seen) + n <= Len(out),
           \A k \in 1 .. n : PlainAt(k),
           UNCHANGED <<rlast, rmark, misled, writer>>
    PROVE  Inv'
<1>1. PICK t \in Seq(Nat) : /\ t = [k \in 1 .. n |-> 0]
                            /\ Len(t) = n
                            /\ \A k \in 1 .. n : t[k] = 0
  <2>1. n \in Nat
    OBVIOUS
  <2> QED
    BY <2>1, Zeros
<1>2. seen' = seen \o t
  BY <1>1 DEF Take
<1>3. Len(seen) \in Nat /\ Len(out) \in Nat
  BY LenProperties DEF Inv, WriterInv, ReaderInv, ReaderTypes
<1>4. ASSUME NEW k \in 1 .. n
      PROVE  /\ out[Len(seen) + k].id = 0
             /\ StackAt(out, Len(seen) + k) = StackAt(out, Len(seen) + k - 1)
  <2>1. k \in Nat /\ k # 0 /\ Len(seen) + k <= Len(out) /\ PlainAt(k)
    BY <1>3
  <2> QED
    BY <2>1, PlainAtStack
<1>5. StackAt(out, Len(seen) + n) = StackAt(out, Len(seen))
  <2>1. StackAt(out, Len(seen) + 1) = StackAt(out, Len(seen))
    BY <1>3, <1>4
  <2>2. n = 2 => StackAt(out, Len(seen) + 2) = StackAt(out, Len(seen) + 1)
    BY <1>3, <1>4
  <2> QED
    BY <2>1, <2>2
<1>6. /\ rlast' \in Seq(Nat) /\ rmark' \in Seq(Marks)
      /\ Len(rmark') = Len(rlast') /\ misled' \in BOOLEAN
      /\ misled' = misled /\ UNCHANGED writer
  BY DEF Inv, ReaderInv, ReaderTypes
<1>7. ASSUME ~misled'
      PROVE  /\ \A k \in 1 .. Len(t) : t[k] = out[Len(seen) + k].id
             /\ Agree(rlast', rmark', StackAt(out, Len(seen) + Len(t)))
  <2>1. Agree(rlast', rmark', StackAt(out, Len(seen)))
    BY <1>7 DEF Inv, ReaderInv
  <2> QED
    BY <1>1, <1>4, <1>5, <2>1
<1>8. Len(seen) + Len(t) <= Len(out)
  BY <1>1
<1>9. misled => misled'
  BY <1>6
<1> QED
  BY <1>1, <1>2, <1>6, <1>7, <1>8, <1>9, TakeInv, Zenon

-----------------------------------------------------------------------------
(* The actions of the reader.                                               *)
LEMMA ReadStructBeginInv == Inv /\ ReadStructBegin => Inv'
<1> SUFFICES ASSUME Inv, ReadStructBegin PROVE Inv'
  OBVIOUS
<1>1. Len(seen) + 1 <= Len(out) /\ Tok(1).kind = "begin"
  BY ComesOne DEF ReadStructBegin
<1>2. PICK t \in Seq(Nat) : t = [k \in 1 .. 1 |-> 0] /\ Len(t) = 1 /\ t[1] = 0
  BY OneZero
<1>3. seen' = seen \o t /\ UNCHANGED <<misled, writer>>
  BY <1>2 DEF ReadStructBegin, Take
<1>4. PICK s : s = StackAt(out, Len(seen))
  OBVIOUS
<1>5. /\ out[Len(seen) + 1].id = 0
      /\ StackAt(out, Len(seen) + 1) = Push(0, s)
      /\ s \in Seq(Nat)
  <2>1. Len(seen) + 1 - 1 = Len(seen)
    BY LenProperties DEF Inv, ReaderInv, ReaderTypes
  <2> QED
    BY <1>1, <1>4, <2>1, TokenAt DEF Turns
<1>6. /\ rlast' = Push(0, rlast) /\ rmark' = Push("fresh", rmark)
      /\ rlast \in Seq(Nat) /\ rmark \in Seq(Marks) /\ misled \in BOOLEAN
  BY DEF ReadStructBegin, Inv, ReaderInv, ReaderTypes
<1>7. rlast' \in Seq(Nat) /\ rmark' \in Seq(Marks) /\ Len(rmark') = Len(rlast')
  <2>1. rlast' \in Seq(Nat) /\ OnTop(rlast', 0, rlast)
    BY <1>6, PushSeq
  <2>2. rmark' \in Seq(Marks) /\ OnTop(rmark', "fresh", rmark)
    BY <1>6, PushSeq DEF Marks
  <2>3. Len(rmark) = Len(rlast)
    BY DEF Inv, ReaderInv, ReaderTypes
  <2> QED
    BY <2>1, <2>2, <2>3 DEF OnTop
<1>8. misled' \in BOOLEAN /\ (misled => misled')
  BY <1>3, <1>6, Zenon
<1>9. ASSUME ~misled' PROVE Agree(rlast', rmark', StackAt(out, Len(seen) + 1))
  <2>1. Agree(rlast, rmark, s)
    BY <1>3, <1>4, <1>9 DEF Inv, ReaderInv
  <2>2. "fresh" \in Marks /\ 0 \in Nat
    BY DEF Marks
  <2> QED
    BY <1>5, <1>6, <2>1, <2>2, PushAgree
<1>10. ~misled' => 0 = out[Len(seen) + 1].id
  BY <1>5
<1> QED
  BY <1>1, <1>2, <1>3, <1>7, <1>8, <1>9, <1>10, TakeOneInv

LEMMA ReadFieldStopInv == Inv /\ ReadFieldStop => Inv'
<1> SUFFICES ASSUME Inv, ReadFieldStop PROVE Inv'
  OBVIOUS
<1>1. Len(seen) + 1 <= Len(out) /\ Tok(1).kind = "stop"
  BY ComesOne DEF ReadFieldStop
<1>2. PICK t \in Seq(Nat) : t = [k \in 1 .. 1 |-> 0] /\ Len(t) = 1 /\ t[1] = 0
  BY OneZero
<1>3. seen' = seen \o t /\ UNCHANGED <<misled, writer>>
  BY <1>2 DEF ReadFieldStop, Take
<1>4. PICK s : s = StackAt(out, Len(seen))
  OBVIOUS
<1>5. /\ out[Len(seen) + 1].id = 0
      /\ StackAt(out, Len(seen) + 1) = Pop(s)
      /\ s \in Seq(Nat)
  <2>1. Len(seen) + 1 - 1 = Len(seen)
    BY LenProperties DEF Inv, ReaderInv, ReaderTypes
  <2> QED
    BY <1>1, <1>4, <2>1, TokenAt DEF Turns
<1>6. /\ rlast' = Pop(rlast) /\ rmark' = Pop(rmark)
      /\ rlast \in Seq(Nat) /\ rmark \in Seq(Marks) /\ misled \in BOOLEAN
  BY DEF ReadFieldStop, Inv, ReaderInv, ReaderTypes
<1>7. rlast' \in Seq(Nat) /\ rmark' \in Seq(Marks) /\ Len(rmark') = Len(rlast')
  <2>1. Len(rmark) = Len(rlast)
    BY DEF Inv, ReaderInv, ReaderTypes
  <2>2. rmark = << >> <=> rlast = << >>
    BY <1>6, <2>1, EmptySeq
  <2> QED
    BY <1>6, <2>1, <2>2, PopSeq
<1>8. misled' \in BOOLEAN /\ (misled => misled')
  BY <1>3, <1>6, Zenon
<1>9. ASSUME ~misled' PROVE Agree(rlast', rmark', StackAt(out, Len(seen) + 1))
  <2>1. Agree(rlast, rmark, s)
    BY <1>3, <1>4, <1>9 DEF Inv, ReaderInv
  <2> QED
    BY <1>5, <1>6, <2>1, PopAgree
<1>10. ~misled' => 0 = out[Len(seen) + 1].id
  BY <1>5
<1> QED
  BY <1>1, <1>2, <1>3, <1>7, <1>8, <1>9, <1>10, TakeOneInv

(* What the two forms of a field header have in common.                     *)
LEMMA ReadHeaderInv ==
    ASSUME Inv, Len(seen) + 1 <= Len(out), Tok(1).kind \in {"short", "long"},
           rlast # << >>,
           NEW id, id \in Nat, NEW last, last \in Nat, ReadHeader(id, last),
           NEW mark \in Marks, rmark' = Push(mark, Tail(rmark)),
           misled' \in BOOLEAN, misled => misled',
           ~misled' => id = out[Len(seen) + 1].id /\ (mark = "stale" \/ last = id)
    PROVE  Inv'
<1>1. PICK t : t = <<id>>
  OBVIOUS
<1>2. t \in Seq(Nat) /\ Len(t) = 1 /\ t[1] = id
  BY <1>1
<1>3. seen' = seen \o t /\ UNCHANGED writer
  BY <1>1 DEF ReadHeader
<1>4. PICK s : s = StackAt(out, Len(seen))
  OBVIOUS
<1>5. PICK e : e = out[Len(seen) + 1]
  OBVIOUS
<1>6. StackAt(out, Len(seen) + 1) = Push(e.id, Tail(s)) /\ s \in Seq(Nat) /\ s # << >>
  <2>1. Len(seen) + 1 - 1 = Len(seen)
    BY LenProperties DEF Inv, ReaderInv, ReaderTypes
  <2> QED
    BY <1>4, <1>5, <2>1, TokenAt DEF Turns
<1>7. /\ rlast' = Push(last, Tail(rlast))
      /\ rlast \in Seq(Nat) /\ rmark \in Seq(Marks) /\ Len(rmark) = Len(rlast)
  BY DEF ReadHeader, Inv, ReaderInv, ReaderTypes
<1>8. rlast' \in Seq(Nat) /\ rmark' \in Seq(Marks) /\ Len(rmark') = Len(rlast')
  <2>1. rmark # << >>
    BY <1>7, EmptySeq
  <2>2. /\ Tail(rlast) \in Seq(Nat) /\ Tail(rmark) \in Seq(Marks)
        /\ Len(Tail(rmark)) = Len(Tail(rlast))
    BY <1>7, <2>1, HeadTailProperties
  <2>3. rlast' \in Seq(Nat) /\ OnTop(rlast', last, Tail(rlast))
    BY <1>7, <2>2, PushSeq
  <2>4. rmark' \in Seq(Marks) /\ OnTop(rmark', mark, Tail(rmark))
    BY <2>2, PushSeq
  <2> QED
    BY <2>2, <2>3, <2>4 DEF OnTop
<1>9. ASSUME ~misled' PROVE Agree(rlast', rmark', StackAt(out, Len(seen) + 1))
  <2>1. Agree(rlast, rmark, s)
    BY <1>4, <1>9 DEF Inv, ReaderInv
  <2>2. id = e.id /\ (mark = "stale" \/ last = id)
    BY <1>5, <1>9
  <2>3. PICK l \in Seq(Nat), m \in Seq(Marks) : l = rlast /\ m = rmark /\ l # << >>
    BY <1>7
  <2>4. Agree(l, m, s) /\ s \in Seq(Nat)
    BY <1>6, <2>1, <2>3
  <2>5. Agree(Push(last, Tail(l)), Push(mark, Tail(m)), Push(id, Tail(s)))
    BY <2>2, <2>3, <2>4, RetopAgree
  <2> QED
    BY <1>6, <1>7, <2>2, <2>3, <2>5
<1>10. ~misled' => id = out[Len(seen) + 1].id
  OBVIOUS
<1> QED
  BY <1>2, <1>3, <1>8, <1>9, <1>10, TakeOneInv

LEMMA ReadLongHeaderInv == Inv /\ ReadLongHeader => Inv'
<1> SUFFICES ASSUME Inv, ReadLongHeader PROVE Inv'
  OBVIOUS
<1>1. Len(seen) + 1 <= Len(out) /\ Tok(1).kind = "long"
  BY ComesOne DEF ReadLongHeader
<1>2. /\ rlast # << >> /\ ReadHeader(Tok(1).n, Head(rlast))
      /\ rmark' = Push(IF Tok(1).n = Head(rlast) THEN "fresh" ELSE "stale", Tail(rmark))
      /\ UNCHANGED misled
  BY DEF ReadLongHeader
<1>3. rlast \in Seq(Nat) /\ misled \in BOOLEAN
  BY DEF Inv, ReaderInv, ReaderTypes
<1>4. Tok(1).n \in Nat /\ Tok(1).n = out[Len(seen) + 1].id
  <2>1. /\ Tok(1) = out[Len(seen) + 1].tok /\ Tok(1) \in Tokens
        /\ Turns(out[Len(seen) + 1], StackAt(out, Len(seen) + 1 - 1))
    BY <1>1, TokenAt
  <2> QED
    BY <1>1, <2>1 DEF Tokens, Turns
<1>5. Head(rlast) \in Nat
  BY <1>2, <1>3, HeadTailProperties
<1>6. misled' \in BOOLEAN /\ (misled => misled')
  BY <1>2, <1>3, Zenon
<1>7. PICK mark : mark = IF Tok(1).n = Head(rlast) THEN "fresh" ELSE "stale"
  OBVIOUS
<1>8. mark \in Marks /\ (mark = "stale" \/ Head(rlast) = Tok(1).n)
  BY <1>7 DEF Marks
<1> QED
  BY <1>1, <1>2, <1>4, <1>5, <1>6, <1>7, <1>8, ReadHeaderInv

LEMMA ReadShortHeaderInv == Inv /\ ReadShortHeader => Inv'
<1> SUFFICES ASSUME Inv, ReadShortHeader PROVE Inv'
  OBVIOUS
<1>1. Len(seen) + 1 <= Len(out) /\ Tok(1).kind = "short"
  BY ComesOne DEF ReadShortHeader
<1>2. PICK id : id = Head(rlast) + Tok(1).n
  OBVIOUS
<1>3. /\ rlast # << >> /\ ReadHeader(id, id)
      /\ rmark' = rmark /\ misled' = (misled \/ Head(rmark) = "stale")
  BY <1>2 DEF ReadShortHeader
<1>4. /\ rlast \in Seq(Nat) /\ rmark \in Seq(Marks) /\ Len(rmark) = Len(rlast)
      /\ misled \in BOOLEAN
  BY DEF Inv, ReaderInv, ReaderTypes
<1>5. rmark # << >> /\ Head(rmark) \in Marks /\ rmark' = Push(Head(rmark), Tail(rmark))
  <2>1. rmark # << >>
    BY <1>3, <1>4, EmptySeq
  <2> QED
    BY <1>3, <1>4, <2>1, PushHeadTail, HeadTailProperties
<1>6. id \in Nat
  BY <1>1, <1>2, <1>3, <1>4, TokenAt, HeadTailProperties DEF Tokens
<1>7. misled' \in BOOLEAN /\ (misled => misled')
  BY <1>3, <1>4, Zenon
<1>8. ASSUME ~misled' PROVE id = out[Len(seen) + 1].id
  <2>1. PICK s : s = StackAt(out, Len(seen))
    OBVIOUS
  <2>2. Agree(rlast, rmark, s) /\ Head(rmark) # "stale"
    BY <1>3, <1>8, <2>1 DEF Inv, ReaderInv
  <2>3. s # << >> /\ out[Len(seen) + 1].id = Head(s) + Tok(1).n
    <3>1. Len(seen) + 1 - 1 = Len(seen)
      BY LenProperties DEF Inv, ReaderInv, ReaderTypes
    <3> QED
      BY <1>1, <2>1, <3>1, TokenAt DEF Turns
  <2>4. Head(rlast) = rlast[1] /\ Head(rmark) = rmark[1] /\ Head(s) = s[1]
    OBVIOUS
  <2>5. 1 \in 1 .. Len(s)
    BY <1>3, <1>4, <2>2, LenProperties, EmptySeq DEF Agree
  <2>6. rlast[1] = s[1]
    BY <2>2, <2>4, <2>5 DEF Agree
  <2> QED
    BY <1>2, <2>3, <2>4, <2>6
<1> QED
  BY <1>1, <1>3, <1>5, <1>6, <1>7, <1>8, ReadHeaderInv

LEMMA ReadBoolInv == Inv /\ ReadBool => Inv'
<1> SUFFICES ASSUME Inv, ReadBool PROVE Inv'
  OBVIOUS
<1>1. UNCHANGED <<rlast, rmark, misled, writer>>
  BY DEF ReadBool
<1>2. CASE rbool # "none"
  BY <1>1, <1>2, TakeNothingInv DEF ReadBool
<1>3. CASE ~(rbool # "none")
  <2>1. Comes(<<"bool">>) /\ Take(1)
    BY <1>3 DEF ReadBool
  <2>2. Len(seen) + 1 <= Len(out) /\ Tok(1).kind = "bool"
    BY <2>1, ComesOne
  <2>3. \A k \in 1 .. 1 : PlainAt(k)
    BY <2>2 DEF PlainAt
  <2> QED
    BY <1>1, <2>1, <2>2, <2>3, ReadPlainInv
<1> QED
  BY <1>2, <1>3

LEMMA ReadScalarInv == Inv /\ ReadScalar => Inv'
<1> SUFFICES ASSUME Inv, ReadScalar PROVE Inv'
  OBVIOUS
<1>1. Take(1) /\ UNCHANGED <<rlast, rmark, misled, writer>>
  BY DEF ReadScalar
<1>2. Len(seen) + 1 <= Len(out) /\ Tok(1).kind = "scalar"
  BY ComesOne DEF ReadScalar
<1>3. \A k \in 1 .. 1 : PlainAt(k)
  BY <1>2 DEF PlainAt
<1> QED
  BY <1>1, <1>2, <1>3, ReadPlainInv

LEMMA ReadListBeginInv == Inv /\ ReadListBegin => Inv'
<1> SUFFICES ASSUME Inv, ReadListBegin PROVE Inv'
  OBVIOUS
<1>1. UNCHANGED <<rlast, rmark, misled, writer>>
  BY DEF ReadListBegin
<1>2. CASE ~ListIsLong
  <2>1. Take(1) /\ Comes(<<"list">>)
    BY <1>2 DEF ReadListBegin
  <2>2. Len(seen) + 1 <= Len(out) /\ Tok(1).kind = "list"
    BY <2>1, ComesOne
  <2>3. \A k \in 1 .. 1 : PlainAt(k)
    BY <2>2 DEF PlainAt
  <2> QED
    BY <1>1, <2>1, <2>2, <2>3, ReadPlainInv
<1>3. CASE ListIsLong
  <2>1. Take(2) /\ Comes(<<"list", "size">>)
    BY <1>3 DEF ReadListBegin
  <2>2. Len(seen) + 2 <= Len(out) /\ Tok(1).kind = "list" /\ Tok(2).kind = "size"
    BY <2>1, ComesTwo
  <2>3. ASSUME NEW k \in 1 .. 2 PROVE PlainAt(k)
    <3>1. k = 1 \/ k = 2
      OBVIOUS
    <3> QED
      BY <2>2, <3>1 DEF PlainAt
  <2> QED
    BY <1>1, <2>1, <2>2, <2>3, ReadPlainInv
<1> QED
  BY <1>2, <1>3

LEMMA ReadMapBeginInv == Inv /\ ReadMapBegin => Inv'
<1> SUFFICES ASSUME Inv, ReadMapBegin PROVE Inv'
  OBVIOUS
<1>1. UNCHANGED <<rlast, rmark, misled, writer>>
  BY DEF ReadMapBegin
<1>2. CASE Tok(1).n = 0
  <2>1. Take(1) /\ Comes(<<"size">>)
    BY <1>2 DEF ReadMapBegin
  <2>2. Len(seen) + 1 <= Len(out) /\ Tok(1).kind = "size"
    BY <2>1, ComesOne
  <2>3. \A k \in 1 .. 1 : PlainAt(k)
    BY <2>2 DEF PlainAt
  <2> QED
    BY <1>1, <2>1, <2>2, <2>3, ReadPlainInv
<1>3. CASE Tok(1).n # 0
  <2>1. Take(2) /\ Comes(<<"size", "types">>)
    BY <1>3 DEF ReadMapBegin
  <2>2. Len(seen) + 2 <= Len(out) /\ Tok(1).kind = "size" /\ Tok(2).kind = "types"
    BY <2>1, ComesTwo
  <2>3. ASSUME NEW k \in 1 .. 2 PROVE PlainAt(k)
    <3>1. k = 1 \/ k = 2
      OBVIOUS
    <3> QED
      BY <2>2, <3>1 DEF PlainAt
  <2> QED
    BY <1>1, <2>1, <2>2, <2>3, ReadPlainInv
<1> QED
  BY <1>2, <1>3

LEMMA GarbleInv == Inv /\ Garble => Inv'
BY TakeNothingInv DEF Garble

-----------------------------------------------------------------------------
LEMMA NextInv == Inv /\ [Next]_vars => Inv'
<1>1. Inv /\ UNCHANGED vars => Inv'
  BY TakeNothingInv DEF vars, reader
<1> QED
  BY <1>1, WriteStructBeginInv, WriteFieldBeginInv, WriteFieldStopInv, WriteBoolInv,
     WriteScalarInv, WriteListBeginInv, WriteMapBeginInv, ReadStructBeginInv,
     ReadShortHeaderInv, ReadLongHeaderInv, ReadFieldStopInv, ReadBoolInv,
     ReadScalarInv, ReadListBeginInv, ReadMapBeginInv, GarbleInv
     DEF Next, Write, Read

LEMMA InvImpliesFieldIdsRight == Inv => FieldIdsRight
<1> SUFFICES ASSUME Inv, ~misled PROVE \A k \in DOMAIN seen : seen[k] = out[k].id
  BY DEF FieldIdsRight
<1>1. DOMAIN seen = 1 .. Len(seen)
  BY LenProperties DEF Inv, ReaderInv, ReaderTypes
<1> QED
  BY <1>1 DEF Inv, ReaderInv, SeenRight

(* The reader gives every field the id it was written with, whatever the     *)
(* structs, their order of fields and the reader's schema are, unless it met *)
(* a short header after a long one with a new id in the same struct.        *)
THEOREM IdsRight == Spec => []FieldIdsRight
BY InitInv, NextInv, InvImpliesFieldIdsRight, PTL DEF Spec

-----------------------------------------------------------------------------
(* The reader stays in step with the writer: it takes each token for what it  *)
(* is, ends where the writer ended, and gets the booleans with their values.  *)
(* The writer is done before the reader begins, so the invariant has a trace: *)
(* what was still to be written before each token.                          *)

(* The types: those of the fields and what they are made of.                *)
AreTypes(types) ==
    types \subseteq Seq(Words) /\ FieldTypes \subseteq types /\ Closed(types)

Scalars == {<<"bool">>, <<"scalar">>}
Records == {<<"struct", s>> : s \in DOMAIN Structs}

Types == (CHOOSE types : AreTypes(types)) \cup Scalars \cup Records

Goals == Types \cup {<<"fields", s>> : s \in DOMAIN Structs}

LEMMA PartsAre ==
    ASSUME NEW t \in Seq(Words)
    PROVE  Parts(t) \subseteq Seq(Words)
<1> SUFFICES ASSUME NEW k \in DOMAIN t PROVE SubSeq(t, k, Len(t)) \in Seq(Words)
    BY DEF Parts
<1>1. DOMAIN t = 1 .. Len(t) /\ Len(t) \in Nat
    BY LenProperties
<1>2. k \in Int /\ Len(t) \in Int /\ \A i \in k .. Len(t) : t[i] \in Words
    BY <1>1
<1>. QED  BY <1>2, SubSeqProperties

LEMMA FieldIs ==
    ASSUME NEW s \in DOMAIN Structs, NEW f \in FieldsOf(s)
    PROVE  f \in Field
<1>1. Structs[s] \in Seq(Field)
    BY CodecAssumption
<1>2. PICK i \in DOMAIN Structs[s] : f = Structs[s][i]
    BY DEF FieldsOf
<1>3. i \in 1 .. Len(Structs[s])
    BY <1>1, <1>2, LenProperties
<1>. QED  BY <1>1, <1>2, <1>3, ElementOfSeq

LEMMA SomeTypes == AreTypes(CHOOSE types : AreTypes(types))
<1>1. PICK types \in SUBSET UNION {Parts(t) : t \in FieldTypes} :
        FieldTypes \subseteq types /\ Closed(types)
    BY SchemaAssumption
<1>2. ASSUME NEW t \in FieldTypes PROVE Parts(t) \subseteq Seq(Words)
  <2>1. PICK s \in DOMAIN Structs : \E f \in FieldsOf(s) : t = f.type
      BY DEF FieldTypes
  <2>2. PICK f \in FieldsOf(s) : t = f.type
      BY <2>1
  <2>3. t \in Seq(Words)
      BY <2>2, FieldIs DEF Field
  <2>. QED  BY <2>3, PartsAre
<1>3. types \subseteq Seq(Words)
    BY <1>1, <1>2
<1>4. AreTypes(types)
    BY <1>1, <1>3 DEF AreTypes
<1>. QED  BY <1>4

(* What a type can be.                                                      *)
MadeOf(t) ==
    \/ t \in Scalars \cup Records
    \/ \E elem \in Types : t = <<"list">> \o elem
    \/ \E key \in {"bool", "scalar"}, val \in Types : t = <<"map", key>> \o val

LEMMA TypesAre ==
    /\ Types \subseteq Seq(Words)
    /\ \A s \in DOMAIN Structs : \A f \in FieldsOf(s) : f.type \in Types
    /\ \A t \in Types : MadeOf(t)
<1> DEFINE types == CHOOSE types : AreTypes(types)
<1>1. types \subseteq Seq(Words) /\ FieldTypes \subseteq types /\ Closed(types)
    BY SomeTypes DEF AreTypes
<1>2. Types = types \cup Scalars \cup Records
    BY DEF Types
<1> HIDE DEF types
<1>3. Scalars \subseteq Seq(Words)
  <2>1. "bool" \in Words /\ "scalar" \in Words
      BY DEF Words, TTypes
  <2>2. ASSUME NEW a \in Words PROVE <<a>> \in Seq(Words)
      OBVIOUS
  <2>. QED  BY <2>1, <2>2 DEF Scalars
<1>4. Records \subseteq Seq(Words)
  <2>1. "struct" \in Words /\ \A s \in DOMAIN Structs : s \in Words
      BY DEF Words, TTypes
  <2>2. ASSUME NEW a \in Words, NEW b \in Words PROVE <<a, b>> \in Seq(Words)
      OBVIOUS
  <2>. QED  BY <2>1, <2>2 DEF Records
<1>5. \A s \in DOMAIN Structs : \A f \in FieldsOf(s) : f.type \in types
    BY <1>1 DEF FieldTypes
<1>6. ASSUME NEW t \in Types PROVE MadeOf(t)
  <2>1. CASE t \in Scalars \cup Records
      BY <2>1 DEF MadeOf
  <2>2. CASE t \in types
      BY <1>1, <1>2, <2>2, Zenon DEF Closed, MadeOf, Scalars, Records
  <2>. QED  BY <1>2, <2>1, <2>2
<1>. QED  BY <1>1, <1>2, <1>3, <1>4, <1>5, <1>6

LEMMA SimpleTypes ==
    /\ <<"bool">> \in Types /\ <<"scalar">> \in Types
    /\ \A s \in DOMAIN Structs : <<"struct", s>> \in Types
BY DEF Types, Scalars, Records

(* Some sequences with their elements.                                      *)
LEMMA SomeSeqs ==
    /\ \A a : Len(<<a>>) = 1 /\ <<a>>[1] = a /\ <<a>> # << >> /\ Head(<<a>>) = a
    /\ \A a, b : /\ Len(<<a, b>>) = 2 /\ <<a, b>>[1] = a /\ <<a, b>>[2] = b
                 /\ <<a, b>> # << >> /\ Head(<<a, b>>) = a
OBVIOUS

LEMMA JoinOne ==
    ASSUME NEW S, NEW a \in S, NEW e \in Seq(S), e # << >>
    PROVE  LET t == <<a>> \o e IN
           t # << >> /\ t[1] = a /\ t[2] = e[1] /\ Tail(t) = e
<1> DEFINE t == <<a>> \o e
<1>1. <<a>> \in Seq(S) /\ Len(<<a>>) = 1 /\ <<a>>[1] = a
    OBVIOUS
<1>2. PICK n \in Nat : n = Len(e) /\ n # 0
    BY LenProperties, EmptySeq
<1>3. /\ t \in Seq(S) /\ Len(t) = n + 1
      /\ \A i \in 1 .. n + 1 : t[i] = IF i <= 1 THEN a ELSE e[i - 1]
    BY <1>1, <1>2, ConcatProperties
<1> HIDE DEF t
<1>4. t # << >> /\ t[1] = a /\ t[2] = e[1]
    BY <1>2, <1>3
<1>5. /\ Tail(t) \in Seq(S) /\ Len(Tail(t)) = n
      /\ \A i \in 1 .. n : Tail(t)[i] = t[i + 1]
    BY <1>2, <1>3, <1>4, HeadTailProperties
<1>6. \A i \in 1 .. n : Tail(t)[i] = e[i]
    BY <1>2, <1>3, <1>5
<1>7. Tail(t) = e
    BY <1>2, <1>5, <1>6, SeqEqual
<1>. QED  BY <1>4, <1>7 DEF t


LEMMA JoinTwo ==
    ASSUME NEW S, NEW a \in S, NEW b \in S, NEW e \in Seq(S), e # << >>
    PROVE  LET t == <<a, b>> \o e IN
           t # << >> /\ t[1] = a /\ t[2] = b /\ t[3] = e[1] /\ Tail(Tail(t)) = e
<1> DEFINE t == <<a, b>> \o e
<1>1. <<a, b>> \in Seq(S) /\ Len(<<a, b>>) = 2 /\ <<a, b>>[1] = a /\ <<a, b>>[2] = b
    OBVIOUS
<1>2. PICK n \in Nat : n = Len(e) /\ n # 0
    BY LenProperties, EmptySeq
<1>3. /\ t \in Seq(S) /\ Len(t) = n + 2
      /\ \A i \in 1 .. n + 2 : t[i] = IF i <= 2 THEN <<a, b>>[i] ELSE e[i - 2]
    BY <1>1, <1>2, ConcatProperties
<1> HIDE DEF t
<1>4. t # << >> /\ t[1] = a /\ t[2] = b /\ t[3] = e[1]
    BY <1>1, <1>2, <1>3
<1>5. /\ Tail(t) \in Seq(S) /\ Len(Tail(t)) = n + 1
      /\ \A i \in 1 .. n + 1 : Tail(t)[i] = t[i + 1]
    BY <1>2, <1>3, <1>4, HeadTailProperties
<1>6. Tail(t) # << >>
    BY <1>2, <1>5, EmptySeq
<1>7. /\ Tail(Tail(t)) \in Seq(S) /\ Len(Tail(Tail(t))) = n
      /\ \A i \in 1 .. n : Tail(Tail(t))[i] = Tail(t)[i + 1]
    BY <1>2, <1>5, <1>6, HeadTailProperties
<1>8. \A i \in 1 .. n : Tail(Tail(t))[i] = e[i]
    BY <1>2, <1>3, <1>5, <1>7
<1>9. Tail(Tail(t)) = e
    BY <1>2, <1>7, <1>8, SeqEqual
<1>. QED  BY <1>4, <1>9 DEF t

(* A type tells by its first word what it is.                               *)
ListParts(t) == Tail(t) \in Types /\ Tail(t)[1] = t[2]

MapParts(t) ==
    /\ t[2] \in {"bool", "scalar"} /\ <<t[2]>> \in Types
    /\ Tail(Tail(t)) \in Types

RecordParts(t) == t[2] \in DOMAIN Structs /\ t = <<t[1], t[2]>>

LEMMA WordsAre ==
    /\ TTypes \subseteq Words /\ "fields" \in Words /\ "none" \in Words
    /\ DOMAIN Structs \subseteq Words
BY DEF Words

LEMMA TypeSeq == ASSUME NEW t \in Types PROVE t \in Seq(Words) /\ t # << >>
<1>1. t \in Seq(Words) /\ MadeOf(t)
    BY TypesAre
<1>2. ASSUME NEW a, NEW e \in Seq(Words), t = <<a>> \o e, a \in Words PROVE t # << >>
  <2>1. <<a>> \in Seq(Words) /\ Len(<<a>>) = 1
      BY <1>2
  <2>2. Len(e) \in Nat
      BY LenProperties
  <2>3. Len(t) = 1 + Len(e)
      BY <1>2, <2>1, ConcatProperties
  <2>. QED  BY <2>2, <2>3, EmptySeq
<1>3. ASSUME NEW a, NEW b, NEW e \in Seq(Words), t = <<a, b>> \o e, a \in Words, b \in Words
      PROVE  t # << >>
  <2>1. <<a, b>> \in Seq(Words) /\ Len(<<a, b>>) = 2
      BY <1>3
  <2>2. Len(e) \in Nat
      BY LenProperties
  <2>3. Len(t) = 2 + Len(e)
      BY <1>3, <2>1, ConcatProperties
  <2>. QED  BY <2>2, <2>3, EmptySeq
<1>4. CASE t \in Scalars \cup Records
  <2>1. <<"bool">> # << >> /\ <<"scalar">> # << >> /\ \A b : <<"struct", b>> # << >>
      OBVIOUS
  <2>. QED  BY <1>1, <1>4, <2>1, Zenon DEF Scalars, Records
<1>5. ASSUME NEW elem \in Types, t = <<"list">> \o elem PROVE t # << >>
    BY <1>2, <1>5, TypesAre, WordsAre DEF TTypes
<1>6. ASSUME NEW key \in {"bool", "scalar"}, NEW val \in Types, t = <<"map", key>> \o val
      PROVE  t # << >>
  <2>1. "map" \in Words /\ key \in Words /\ val \in Seq(Words)
      BY TypesAre, WordsAre DEF TTypes
  <2>. QED  BY <1>3, <1>6, <2>1
<1>. QED  BY <1>1, <1>4, <1>5, <1>6 DEF MadeOf

LEMMA TypeIs ==
    ASSUME NEW t \in Types
    PROVE  /\ t[1] \in TTypes
           /\ t[1] = "bool" => t = <<"bool">>
           /\ t[1] = "scalar" => t = <<"scalar">>
           /\ t[1] = "struct" => RecordParts(t)
           /\ t[1] = "list" => ListParts(t)
           /\ t[1] = "map" => MapParts(t)
<1>1. CASE t \in Scalars
  <2>1. t = <<"bool">> \/ t = <<"scalar">>
      BY <1>1 DEF Scalars
  <2>2. <<"bool">>[1] = "bool" /\ <<"scalar">>[1] = "scalar"
      OBVIOUS
  <2>. QED  BY <2>1, <2>2 DEF TTypes
<1>2. CASE t \in Records
  <2>1. PICK s \in DOMAIN Structs : t = <<"struct", s>>
      BY <1>2 DEF Records
  <2>2. t[1] = "struct" /\ t[2] = s
      BY <2>1, SomeSeqs
  <2>3. RecordParts(t)
      BY <2>1, <2>2 DEF RecordParts
  <2>. QED  BY <2>2, <2>3 DEF TTypes
<1>3. ASSUME NEW elem \in Types, t = <<"list">> \o elem
      PROVE  t[1] = "list" /\ ListParts(t)
  <2>1. elem \in Seq(Words) /\ elem # << >> /\ "list" \in Words
      BY TypeSeq, WordsAre DEF TTypes
  <2>2. t[1] = "list" /\ t[2] = elem[1] /\ Tail(t) = elem
      BY <1>3, <2>1, JoinOne
  <2>. QED  BY <2>2 DEF ListParts
<1>4. ASSUME NEW key \in {"bool", "scalar"}, NEW val \in Types, t = <<"map", key>> \o val
      PROVE  t[1] = "map" /\ MapParts(t)
  <2>1. val \in Seq(Words) /\ val # << >> /\ "map" \in Words /\ key \in Words
      BY TypeSeq, WordsAre DEF TTypes
  <2>2. t[1] = "map" /\ t[2] = key /\ Tail(Tail(t)) = val
      BY <1>4, <2>1, JoinTwo, SMTT(20)
  <2>3. <<t[2]>> \in Types
      BY <2>2, SimpleTypes
  <2>. QED  BY <2>2, <2>3 DEF MapParts
<1>5. CASE \E elem \in Types : t = <<"list">> \o elem
    BY <1>3, <1>5 DEF TTypes
<1>6. CASE \E key \in {"bool", "scalar"}, val \in Types : t = <<"map", key>> \o val
    BY <1>4, <1>6 DEF TTypes
<1>. QED  BY <1>1, <1>2, <1>5, <1>6, TypesAre DEF MadeOf

LEMMA GoalIs ==
    ASSUME NEW g \in Goals
    PROVE  /\ g \in Seq(Words) /\ g # << >> /\ Head(g) = g[1]
           /\ g[1] \in TTypes \cup {"fields"}
           /\ g[1] = "fields" => RecordParts(g)
           /\ g[1] # "fields" => g \in Types
<1>1. CASE g \in Types
  <2>1. g \in Seq(Words) /\ g # << >> /\ g[1] \in TTypes
      BY <1>1, TypeSeq, TypeIs
  <2>2. g[1] # "fields"
      BY <2>1 DEF TTypes
  <2>. QED  BY <1>1, <2>1, <2>2
<1>2. CASE \E s \in DOMAIN Structs : g = <<"fields", s>>
  <2>1. PICK s \in DOMAIN Structs : g = <<"fields", s>>
      BY <1>2
  <2>2. "fields" \in Words /\ s \in Words
      BY WordsAre
  <2>3. ASSUME NEW a \in Words, NEW b \in Words PROVE <<a, b>> \in Seq(Words)
      OBVIOUS
  <2>4. g[1] = "fields" /\ g[2] = s /\ g # << >> /\ Head(g) = "fields"
      BY <2>1, SomeSeqs
  <2>. QED  BY <2>1, <2>2, <2>3, <2>4 DEF RecordParts
<1>. QED  BY <1>1, <1>2 DEF Goals


-----------------------------------------------------------------------------
(* What is still to be written and to be read.                              *)
WItem == [type : Goals, next : Nat]

RItem ==
    {r \in [type : Seq(Words), known : BOOLEAN] :
        IF r.known THEN r.type \in Goals ELSE \E x \in Words : r.type = <<x>>}

Kind(item) == Head(item.type)

(* The structs that are open on a list of things to do, and the one that is    *)
(* always at the bottom of the stack of ids.                                *)
Levels(item) == IF Kind(item) = "fields" THEN 1 ELSE 0

Descends(todo, d) ==
    /\ \A i \in 1 .. Len(todo) + 1 : d[i] >= 1
    /\ \A i \in 1 .. Len(todo) : d[i] >= d[i + 1] + Levels(todo[i])

DepthOK(todo, n) ==
    \E d \in [1 .. Len(todo) + 1 -> Nat] : d[1] = n /\ Descends(todo, d)

LEMMA LevelsNat == \A item : Levels(item) \in {0, 1}
BY DEF Levels

LEMMA DropDepth ==
    ASSUME NEW S, NEW todo \in Seq(S), todo # << >>, NEW n, DepthOK(todo, n)
    PROVE  /\ n \in Nat /\ n - Levels(Head(todo)) \in Nat \ {0}
           /\ DepthOK(Tail(todo), n - Levels(Head(todo)))
<1>1. PICK d \in [1 .. Len(todo) + 1 -> Nat] : d[1] = n /\ Descends(todo, d)
    BY DEF DepthOK
<1>2. PICK m \in Nat : m = Len(todo) /\ m # 0
    BY LenProperties, EmptySeq
<1>3. PICK l \in {0, 1} : l = Levels(Head(todo))
    BY LevelsNat
<1>4. /\ Tail(todo) \in Seq(S) /\ Len(Tail(todo)) = m - 1 /\ Head(todo) = todo[1]
      /\ \A i \in 1 .. m - 1 : Tail(todo)[i] = todo[i + 1]
    BY <1>2, HeadTailProperties
<1>5. /\ d \in [1 .. m + 1 -> Nat]
      /\ \A i \in 1 .. m + 1 : d[i] >= 1
      /\ \A i \in 1 .. m : d[i] >= d[i + 1] + Levels(todo[i])
    BY <1>1, <1>2 DEF Descends
<1>6. n \in Nat /\ d[2] \in Nat /\ n >= d[2] + l /\ d[2] >= 1
    BY <1>1, <1>2, <1>3, <1>4, <1>5
<1>7. n - l \in Nat \ {0}
    BY <1>6
<1> DEFINE e == [i \in 1 .. m |-> IF i = 1 THEN n - l ELSE d[i + 1]]
<1>8. e \in [1 .. m -> Nat] /\ e[1] = n - l
    BY <1>2, <1>5, <1>7
<1>9. \A i \in 1 .. m : e[i] >= d[i + 1] /\ (i # 1 => e[i] = d[i + 1]) /\ e[i] >= 1
    BY <1>5, <1>6, <1>7, SMTT(20)
<1> HIDE DEF e
<1>10. ASSUME NEW i \in 1 .. m - 1 PROVE e[i] >= e[i + 1] + Levels(Tail(todo)[i])
  <2>1. PICK j \in 1 .. m : j = i + 1 /\ j # 1 /\ i \in 1 .. m
      OBVIOUS
  <2>2. e[j] = d[j + 1]
      BY <1>9, <2>1
  <2>3. e[i] >= d[j]
      BY <1>9, <2>1
  <2>4. d[j] >= d[j + 1] + Levels(todo[j])
      BY <1>5
  <2>5. PICK k \in {0, 1} : k = Levels(todo[j])
      BY LevelsNat
  <2>6. PICK x \in Nat, y \in Nat, z \in Nat : x = d[j] /\ y = d[j + 1] /\ z = e[i]
    <3>1. j + 1 \in 1 .. m + 1 /\ j \in 1 .. m + 1
        OBVIOUS
    <3>2. d[j] \in Nat /\ d[j + 1] \in Nat
        BY <1>5, <3>1
    <3>3. e[i] \in Nat
        BY <1>8, <2>1
    <3>. QED  BY <3>2, <3>3
  <2>7. Tail(todo)[i] = todo[j]
      BY <1>4, <2>1
  <2>8. z >= x /\ x >= y + k
      BY <2>3, <2>4, <2>5, <2>6
  <2>9. z >= y + k
      BY <2>8
  <2>10. e[i + 1] = y /\ Levels(Tail(todo)[i]) = k
      BY <2>1, <2>2, <2>5, <2>6, <2>7
  <2>. QED  BY <2>6, <2>9, <2>10
<1>11. Descends(Tail(todo), e)
  <2>1. PICK t : t = Tail(todo)
      OBVIOUS
  <2>2. Len(t) = m - 1 /\ Len(t) + 1 = m
      BY <1>2, <1>4, <2>1
  <2>3. \A i \in 1 .. m : e[i] >= 1
      BY <1>9
  <2>4. \A i \in 1 .. m - 1 : e[i] >= e[i + 1] + Levels(t[i])
      BY <1>10, <2>1
  <2>5. Descends(t, e)
      BY <2>2, <2>3, <2>4 DEF Descends
  <2>. QED  BY <2>1, <2>5
<1>12. Len(Tail(todo)) + 1 = m
    BY <1>2, <1>4
<1>13. DepthOK(Tail(todo), n - l)
    BY <1>8, <1>11, <1>12 DEF DepthOK
<1>. QED  BY <1>3, <1>6, <1>7, <1>13

LEMMA PushDepth ==
    ASSUME NEW S, NEW todo \in Seq(S), NEW n, DepthOK(todo, n), NEW x \in S
    PROVE  n \in Nat /\ DepthOK(Push(x, todo), n + Levels(x))
<1>1. PICK d \in [1 .. Len(todo) + 1 -> Nat] : d[1] = n /\ Descends(todo, d)
    BY DEF DepthOK
<1>2. PICK m \in Nat : m = Len(todo)
    BY LenProperties
<1>3. PICK l \in {0, 1} : l = Levels(x)
    BY LevelsNat
<1>4. PICK p : p = Push(x, todo)
    OBVIOUS
<1>5. p \in Seq(S) /\ Len(p) = m + 1 /\ p[1] = x /\ \A i \in 1 .. m : p[i + 1] = todo[i]
  <2>1. p \in Seq(S) /\ OnTop(p, x, todo)
      BY <1>4, PushSeq
  <2>. QED  BY <1>2, <2>1 DEF OnTop
<1>6. /\ d \in [1 .. m + 1 -> Nat]
      /\ \A i \in 1 .. m + 1 : d[i] >= 1
      /\ \A i \in 1 .. m : d[i] >= d[i + 1] + Levels(todo[i])
    BY <1>1, <1>2 DEF Descends
<1>7. n \in Nat /\ n >= 1
    BY <1>1, <1>2, <1>6
<1> DEFINE e == [i \in 1 .. m + 2 |-> IF i = 1 THEN n + l ELSE d[i - 1]]
<1>8. e \in [1 .. m + 2 -> Nat] /\ e[1] = n + l
    BY <1>6, <1>7
<1>9. \A i \in 1 .. m + 1 : e[i + 1] = d[i]
    BY <1>6
<1>10. \A i \in 1 .. m + 2 : e[i] >= 1
    BY <1>6, <1>7
<1> HIDE DEF e
<1>11. ASSUME NEW i \in 1 .. m + 1 PROVE e[i] >= e[i + 1] + Levels(p[i])
  <2>1. CASE i = 1
      BY <1>1, <1>3, <1>5, <1>7, <1>8, <1>9, <2>1
  <2>2. CASE i # 1
    <3>1. PICK j \in 1 .. m : i = j + 1
        BY <2>2
    <3>2. e[i] = d[j] /\ e[i + 1] = d[j + 1] /\ p[i] = todo[j]
        BY <1>5, <1>9, <3>1, SMTT(20)
    <3>. QED  BY <1>6, <3>2
  <2>. QED  BY <2>1, <2>2
<1>12. Descends(p, e)
    BY <1>2, <1>5, <1>10, <1>11 DEF Descends
<1>13. Len(p) + 1 = m + 2
    BY <1>5
<1>14. DepthOK(p, n + l)
    BY <1>8, <1>12, <1>13 DEF DepthOK
<1>. QED  BY <1>3, <1>4, <1>7, <1>14

LEMMA JoinDepth ==
    ASSUME NEW S, NEW todo \in Seq(S), NEW n, DepthOK(todo, n),
           NEW items \in Seq(S), \A i \in 1 .. Len(items) : Levels(items[i]) = 0
    PROVE  DepthOK(items \o todo, n)
<1>1. PICK d \in [1 .. Len(todo) + 1 -> Nat] : d[1] = n /\ Descends(todo, d)
    BY DEF DepthOK
<1>2. PICK m \in Nat : m = Len(todo)
    BY LenProperties
<1>3. PICK k \in Nat : k = Len(items)
    BY LenProperties
<1>4. PICK p : p = items \o todo
    OBVIOUS
<1>5. /\ p \in Seq(S) /\ Len(p) = k + m
      /\ \A i \in 1 .. k + m : p[i] = IF i <= k THEN items[i] ELSE todo[i - k]
    BY <1>2, <1>3, <1>4, ConcatProperties
<1>6. /\ d \in [1 .. m + 1 -> Nat]
      /\ \A i \in 1 .. m + 1 : d[i] >= 1
      /\ \A i \in 1 .. m : d[i] >= d[i + 1] + Levels(todo[i])
    BY <1>1, <1>2 DEF Descends
<1>7. n \in Nat /\ n >= 1 /\ d[1] = n
    BY <1>1, <1>2, <1>6, SMTT(20)
<1> DEFINE e == [i \in 1 .. k + m + 1 |-> IF i <= k THEN n ELSE d[i - k]]
<1>8. e \in [1 .. k + m + 1 -> Nat]
    BY <1>6, <1>7
<1>9. \A i \in 1 .. k : e[i] = n
    BY <1>3
<1>10. \A i \in 1 .. m + 1 : e[k + i] = d[i]
    BY <1>6
<1>11. e[1] = n
    BY <1>7
<1>12. \A i \in 1 .. k + m + 1 : e[i] >= 1
    BY <1>6, <1>7
<1> HIDE DEF e
<1>13. ASSUME NEW i \in 1 .. k + m PROVE e[i] >= e[i + 1] + Levels(p[i])
  <2>1. CASE i <= k
    <3>1. e[i] = n /\ Levels(p[i]) = 0
        BY <1>3, <1>5, <1>9, <2>1
    <3>2. e[i + 1] = n
      <4>1. CASE i < k
          BY <1>9, <4>1
      <4>2. CASE i = k
        <5>1. e[k + 1] = d[1]
            BY <1>10
        <5>. QED  BY <1>7, <4>2, <5>1
      <4>. QED  BY <2>1, <4>1, <4>2
    <3>. QED  BY <1>7, <3>1, <3>2
  <2>2. CASE i > k
    <3>1. PICK j \in 1 .. m : i = k + j
        BY <2>2
    <3>2. p[i] = todo[j]
        BY <1>5, <2>2, <3>1
    <3>3. e[i] = d[j]
        BY <1>10, <3>1
    <3>4. PICK h \in 1 .. m + 1 : h = j + 1 /\ i + 1 = k + h
        BY <3>1
    <3>5. e[i + 1] = d[j + 1]
      <4>1. e[k + h] = d[h]
          BY <1>10
      <4>. QED  BY <3>4, <4>1
    <3>. QED  BY <1>6, <3>2, <3>3, <3>5
  <2>. QED  BY <2>1, <2>2
<1>14. Descends(p, e)
    BY <1>2, <1>3, <1>5, <1>12, <1>13 DEF Descends
<1>15. Len(p) + 1 = k + m + 1
    BY <1>5
<1>16. DepthOK(p, n)
    BY <1>8, <1>11, <1>14, <1>15 DEF DepthOK
<1>. QED  BY <1>4, <1>16


-----------------------------------------------------------------------------
(* What a call of the writer does: its tokens, the first of them e and the    *)
(* last e2, take it from what it has to write, a, to what is left, b.         *)
Width(tok) ==
    IF (tok.kind = "list" /\ tok.n = MaxNibble) \/ (tok.kind = "size" /\ tok.n # 0) THEN 2 ELSE 1

IsBool(tok) == tok.kind = "bool" \/ (tok.kind \in {"short", "long"} /\ tok.type \in Bools)

Copies(n, elem)     == [k \in 1 .. n |-> Value(elem)]
Pairs(n, key, val)  == [k \in 1 .. 2 * n |-> Value(IF k % 2 = 1 THEN key ELSE val)]

LeadsBegin(e, a, b) ==
    /\ Kind(Head(a)) = "struct" /\ e.tok.kind = "begin"
    /\ b = Push(Fields(Head(a).type[2], 1), Tail(a))

LeadsStop(e, a, b) ==
    /\ Kind(Head(a)) = "fields" /\ e.tok.kind = "stop"
    /\ b = Tail(a)

Headed(e, f, next, rest, b) ==
    IF f.type = <<"bool">>
    THEN e.tok.type \in Bools /\ b = Push(next, rest)
    ELSE e.tok.type = FromTType(f.type[1]) /\ b = Push(Value(f.type), Push(next, rest))

LeadsHeader(e, a, b) ==
    /\ Kind(Head(a)) = "fields" /\ e.tok.kind \in {"short", "long"}
    /\ \E f \in FieldsOf(Head(a).type[2]), k \in Nat :
         e.id = f.id /\ Headed(e, f, Fields(Head(a).type[2], k), Tail(a), b)

LeadsBool(e, a, b) ==
    /\ Kind(Head(a)) = "bool" /\ e.tok.kind = "bool" /\ e.tok.type \in Bools
    /\ b = Tail(a)

LeadsScalar(e, a, b) ==
    /\ Kind(Head(a)) = "scalar" /\ e.tok.kind = "scalar"
    /\ b = Tail(a)

SizeOf(e, e2) == IF Width(e.tok) = 2 THEN e2.tok.n ELSE e.tok.n

LeadsList(e, e2, a, b) ==
    /\ Kind(Head(a)) = "list" /\ e.tok.kind = "list"
    /\ Width(e.tok) = 2 => e2.tok.kind = "size"
    /\ SizeOf(e, e2) # 0 => e.tok.type = FromTType(Tail(Head(a).type)[1])
    /\ b = Copies(SizeOf(e, e2), Tail(Head(a).type)) \o Tail(a)

PairTypes(tok, t) ==
    /\ tok.kind = "types"
    /\ tok.key = FromTType(t[2]) /\ tok.type = FromTType(Tail(Tail(t))[1])

LeadsMap(e, e2, a, b) ==
    /\ Kind(Head(a)) = "map" /\ e.tok.kind = "size"
    /\ e.tok.n # 0 => PairTypes(e2.tok, Head(a).type)
    /\ b = Pairs(e.tok.n, <<Head(a).type[2]>>, Tail(Tail(Head(a).type))) \o Tail(a)

Leads(e, e2, a, b) ==
    /\ a # << >>
    /\ \/ LeadsBegin(e, a, b)
       \/ LeadsStop(e, a, b)
       \/ LeadsHeader(e, a, b)
       \/ LeadsBool(e, a, b)
       \/ LeadsScalar(e, a, b)
       \/ LeadsList(e, e2, a, b)
       \/ LeadsMap(e, e2, a, b)

LEMMA WItems ==
    /\ \A t \in Types : Value(t) \in WItem /\ Levels(Value(t)) = 0
    /\ \A s \in DOMAIN Structs : \A k \in Nat :
         Fields(s, k) \in WItem /\ Levels(Fields(s, k)) = 1
<1>1. ASSUME NEW t \in Types PROVE Value(t) \in WItem /\ Levels(Value(t)) = 0
  <2>1. t \in Goals /\ t # << >> /\ t[1] \in TTypes
      BY TypeSeq, TypeIs DEF Goals
  <2>2. Head(t) = t[1]
      BY <2>1, GoalIs
  <2>3. Head(t) # "fields"
      BY <2>1, <2>2 DEF TTypes
  <2>. QED  BY <2>1, <2>3 DEF WItem, Value, Levels, Kind
<1>2. ASSUME NEW s \in DOMAIN Structs, NEW k \in Nat
      PROVE  Fields(s, k) \in WItem /\ Levels(Fields(s, k)) = 1
  <2>1. <<"fields", s>> \in Goals /\ Head(<<"fields", s>>) = "fields"
      BY DEF Goals
  <2>. QED  BY <2>1 DEF WItem, Fields, Levels, Kind
<1>. QED  BY <1>1, <1>2

LEMMA CopiesAre ==
    ASSUME NEW n \in Nat, NEW elem \in Types
    PROVE  /\ Copies(n, elem) \in Seq(WItem) /\ Len(Copies(n, elem)) = n
           /\ \A i \in 1 .. n : Copies(n, elem)[i] = Value(elem)
           /\ \A i \in 1 .. Len(Copies(n, elem)) : Levels(Copies(n, elem)[i]) = 0
<1>1. Value(elem) \in WItem /\ Levels(Value(elem)) = 0
    BY WItems
<1>2. PICK v : v = Value(elem)
    OBVIOUS
<1>3. PICK c : c = [k \in 1 .. n |-> v]
    OBVIOUS
<1>4. c \in Seq(WItem) /\ Len(c) = n /\ \A i \in 1 .. n : c[i] = v
    BY <1>1, <1>2, <1>3
<1>. QED  BY <1>1, <1>2, <1>3, <1>4 DEF Copies

LEMMA PairsAre ==
    ASSUME NEW n \in Nat, NEW key \in Types, NEW val \in Types
    PROVE  /\ Pairs(n, key, val) \in Seq(WItem) /\ Len(Pairs(n, key, val)) = 2 * n
           /\ \A i \in 1 .. 2 * n :
                Pairs(n, key, val)[i] = Value(IF i % 2 = 1 THEN key ELSE val)
           /\ \A i \in 1 .. Len(Pairs(n, key, val)) : Levels(Pairs(n, key, val)[i]) = 0
<1>1. /\ Value(key) \in WItem /\ Levels(Value(key)) = 0
      /\ Value(val) \in WItem /\ Levels(Value(val)) = 0
    BY WItems
<1>2. PICK m \in Nat : m = 2 * n
    OBVIOUS
<1>3. PICK p : p = [k \in 1 .. m |-> Value(IF k % 2 = 1 THEN key ELSE val)]
    OBVIOUS
<1>4. ASSUME NEW k \in 1 .. m
      PROVE  /\ Value(IF k % 2 = 1 THEN key ELSE val) \in WItem
             /\ Levels(Value(IF k % 2 = 1 THEN key ELSE val)) = 0
  <2>1. CASE k % 2 = 1
      BY <1>1, <2>1
  <2>2. CASE k % 2 # 1
      BY <1>1, <2>2
  <2>. QED  BY <2>1, <2>2
<1>5. \A i \in 1 .. m : p[i] = Value(IF i % 2 = 1 THEN key ELSE val)
    BY <1>3
<1>6. p \in Seq(WItem) /\ Len(p) = m
    BY <1>3, <1>4
<1>7. \A i \in 1 .. m : Levels(p[i]) = 0
    BY <1>4, <1>5
<1>. QED  BY <1>2, <1>3, <1>5, <1>6, <1>7 DEF Pairs

(* The first thing to do.                                                   *)
LEMMA FirstIs ==
    ASSUME NEW a \in Seq(WItem), a # << >>
    PROVE  /\ Head(a) \in WItem /\ Tail(a) \in Seq(WItem)
           /\ Head(a).type \in Goals /\ Kind(Head(a)) = Head(a).type[1]
           /\ Kind(Head(a)) \in TTypes \cup {"fields"}
           /\ Kind(Head(a)) \in {"struct", "fields"} => RecordParts(Head(a).type)
           /\ Kind(Head(a)) = "list" => ListParts(Head(a).type)
           /\ Kind(Head(a)) = "map" => MapParts(Head(a).type)
<1>1. Head(a) \in WItem /\ Tail(a) \in Seq(WItem)
    BY HeadTailProperties
<1>2. PICK g \in Goals : g = Head(a).type
    BY <1>1 DEF WItem
<1>3. Kind(Head(a)) = g[1] /\ g[1] \in TTypes \cup {"fields"}
    BY <1>2, GoalIs DEF Kind
<1>4. g[1] = "fields" => RecordParts(g)
    BY GoalIs
<1>5. g[1] # "fields" => g \in Types
    BY GoalIs
<1>6. /\ g[1] = "struct" => RecordParts(g)
      /\ g[1] = "list" => ListParts(g)
      /\ g[1] = "map" => MapParts(g)
    BY <1>5, TypeIs
<1>. QED  BY <1>1, <1>2, <1>3, <1>4, <1>6


LEMMA HeadedIs ==
    ASSUME NEW s \in DOMAIN Structs, NEW f \in FieldsOf(s), NEW k \in Nat,
           NEW rest \in Seq(WItem), NEW e, NEW b, Headed(e, f, Fields(s, k), rest, b)
    PROVE  /\ b \in Seq(WItem)
           /\ \A n : DepthOK(rest, n) => DepthOK(b, n + 1)
<1>1. Fields(s, k) \in WItem /\ Levels(Fields(s, k)) = 1
    BY WItems
<1>2. PICK p : p = Push(Fields(s, k), rest)
    OBVIOUS
<1>3. p \in Seq(WItem) /\ \A n : DepthOK(rest, n) => n \in Nat /\ DepthOK(p, n + 1)
    BY <1>1, <1>2, PushSeq, PushDepth
<1>4. Value(f.type) \in WItem /\ Levels(Value(f.type)) = 0
    BY TypesAre, WItems
<1>5. CASE b = p
    BY <1>3, <1>5
<1>6. CASE b = Push(Value(f.type), p)
  <2>1. b \in Seq(WItem)
      BY <1>3, <1>4, <1>6, PushSeq
  <2>2. ASSUME NEW n, DepthOK(rest, n) PROVE DepthOK(b, n + 1)
    <3>1. n \in Nat /\ DepthOK(p, n + 1)
        BY <1>3, <2>2
    <3>2. DepthOK(b, n + 1 + 0)
        BY <1>3, <1>4, <1>6, <3>1, PushDepth
    <3>3. n + 1 + 0 = n + 1
        BY <3>1
    <3>. QED  BY <3>2, <3>3
  <2>. QED  BY <2>1, <2>2
<1>. QED  BY <1>2, <1>5, <1>6 DEF Headed

LEMMA LeadsItems ==
    ASSUME NEW a \in Seq(WItem), NEW e \in Written, NEW e2 \in Written, NEW b,
           Leads(e, e2, a, b)
    PROVE  b \in Seq(WItem)
<1>1. a # << >> /\ Tail(a) \in Seq(WItem)
    BY FirstIs DEF Leads
<1>2. SizeOf(e, e2) \in Nat /\ e.tok.n \in Nat
    BY DEF Written, Tokens, SizeOf
<1>3. CASE LeadsBegin(e, a, b)
  <2>1. Head(a).type[2] \in DOMAIN Structs
      BY <1>1, <1>3, FirstIs DEF LeadsBegin, RecordParts
  <2>2. Fields(Head(a).type[2], 1) \in WItem
      BY <2>1, WItems
  <2>. QED  BY <1>1, <1>3, <2>2, PushSeq DEF LeadsBegin
<1>4. CASE LeadsStop(e, a, b)
    BY <1>1, <1>4 DEF LeadsStop
<1>5. CASE LeadsHeader(e, a, b)
  <2>1. Head(a).type[2] \in DOMAIN Structs
      BY <1>1, <1>5, FirstIs DEF LeadsHeader, RecordParts
  <2>2. PICK f \in FieldsOf(Head(a).type[2]), k \in Nat :
          Headed(e, f, Fields(Head(a).type[2], k), Tail(a), b)
      BY <1>5 DEF LeadsHeader
  <2>. QED  BY <1>1, <2>1, <2>2, HeadedIs
<1>6. CASE LeadsBool(e, a, b)
    BY <1>1, <1>6 DEF LeadsBool
<1>7. CASE LeadsScalar(e, a, b)
    BY <1>1, <1>7 DEF LeadsScalar
<1>8. CASE LeadsList(e, e2, a, b)
  <2>1. Tail(Head(a).type) \in Types
      BY <1>1, <1>8, FirstIs DEF LeadsList, ListParts
  <2>2. Copies(SizeOf(e, e2), Tail(Head(a).type)) \in Seq(WItem)
      BY <1>2, <2>1, CopiesAre
  <2>. QED  BY <1>1, <1>8, <2>2, ConcatProperties DEF LeadsList
<1>9. CASE LeadsMap(e, e2, a, b)
  <2>1. MapParts(Head(a).type)
      BY <1>1, <1>9, FirstIs DEF LeadsMap
  <2>2. Pairs(e.tok.n, <<Head(a).type[2]>>, Tail(Tail(Head(a).type))) \in Seq(WItem)
      BY <1>2, <2>1, PairsAre DEF MapParts
  <2>. QED  BY <1>1, <1>9, <2>2, ConcatProperties DEF LeadsMap
<1>. QED  BY <1>3, <1>4, <1>5, <1>6, <1>7, <1>8, <1>9 DEF Leads

(* With the structs that are open the stack of ids grows and shrinks.         *)
LEMMA TopDropped ==
    ASSUME NEW S, NEW todo \in Seq(S), todo # << >>, NEW n, DepthOK(todo, n)
    PROVE  /\ n \in Nat
           /\ Kind(Head(todo)) # "fields" => DepthOK(Tail(todo), n)
           /\ Kind(Head(todo)) = "fields" => n - 1 \in Nat \ {0} /\ DepthOK(Tail(todo), n - 1)
<1>1. /\ n \in Nat /\ n - Levels(Head(todo)) \in Nat \ {0}
      /\ DepthOK(Tail(todo), n - Levels(Head(todo)))
    BY DropDepth
<1>2. CASE Kind(Head(todo)) # "fields"
  <2>1. Levels(Head(todo)) = 0 /\ n - 0 = n
      BY <1>1, <1>2 DEF Levels
  <2>. QED  BY <1>1, <1>2, <2>1
<1>3. CASE Kind(Head(todo)) = "fields"
  <2>1. Levels(Head(todo)) = 1
      BY <1>3 DEF Levels
  <2>. QED  BY <1>1, <1>3, <2>1
<1>. QED  BY <1>2, <1>3

LEMMA StackSizes ==
    ASSUME NEW s \in Seq(Nat), NEW x \in Nat
    PROVE  /\ Len(s) \in Nat /\ Push(x, s) \in Seq(Nat) /\ Len(Push(x, s)) = Len(s) + 1
           /\ s # << >> => Len(Pop(s)) = Len(s) - 1
           /\ s # << >> => Len(Push(x, Tail(s))) = Len(s)
<1>1. Len(s) \in Nat
    BY LenProperties
<1>2. Push(x, s) \in Seq(Nat) /\ Len(Push(x, s)) = Len(s) + 1
    BY PushSeq DEF OnTop
<1>3. ASSUME s # << >> PROVE Len(Pop(s)) = Len(s) - 1
    BY <1>3, PopSeq
<1>4. ASSUME s # << >> PROVE Len(Push(x, Tail(s))) = Len(s)
  <2>1. Tail(s) \in Seq(Nat) /\ Len(Tail(s)) = Len(s) - 1
      BY <1>4, HeadTailProperties
  <2>2. Len(Push(x, Tail(s))) = Len(Tail(s)) + 1
      BY <2>1, PushSeq DEF OnTop
  <2>. QED  BY <1>1, <2>1, <2>2
<1>. QED  BY <1>1, <1>2, <1>3, <1>4

LEMMA LeadsDepth ==
    ASSUME NEW a \in Seq(WItem), NEW e \in Written, NEW e2 \in Written, NEW b,
           Leads(e, e2, a, b),
           NEW s \in Seq(Nat), Turns(e, s), DepthOK(a, Len(s))
    PROVE  DepthOK(b, Len(e.last))
<1>1. a # << >> /\ Tail(a) \in Seq(WItem)
    BY FirstIs DEF Leads
<1>2. PICK n : n = Len(s)
    OBVIOUS
<1>3. DepthOK(a, n)
    BY <1>2
<1>4. /\ n \in Nat
      /\ Kind(Head(a)) # "fields" => DepthOK(Tail(a), n)
      /\ Kind(Head(a)) = "fields" => n - 1 \in Nat \ {0} /\ DepthOK(Tail(a), n - 1)
    BY <1>1, <1>3, TopDropped
<1>5. SizeOf(e, e2) \in Nat /\ e.tok.n \in Nat /\ e.id \in Nat
    BY DEF Written, Tokens, SizeOf
<1>6. CASE LeadsBegin(e, a, b)
  <2>1. Head(a).type[2] \in DOMAIN Structs
      BY <1>1, <1>6, FirstIs DEF LeadsBegin, RecordParts
  <2>2. Fields(Head(a).type[2], 1) \in WItem /\ Levels(Fields(Head(a).type[2], 1)) = 1
      BY <2>1, WItems
  <2>3. DepthOK(b, n + 1)
      BY <1>1, <1>4, <1>6, <2>2, PushDepth DEF LeadsBegin
  <2>4. e.last = Push(0, s)
      BY <1>6 DEF LeadsBegin, Turns
  <2>5. Len(e.last) = n + 1
      BY <1>2, <2>4, StackSizes
  <2>. QED  BY <2>3, <2>5
<1>7. CASE LeadsStop(e, a, b)
  <2>1. DepthOK(b, n - 1) /\ n - 1 \in Nat \ {0}
      BY <1>4, <1>7 DEF LeadsStop
  <2>2. e.last = Pop(s)
      BY <1>7 DEF LeadsStop, Turns
  <2>3. s # << >>
      BY <1>2, <2>1, EmptySeq
  <2>. QED  BY <1>2, <2>1, <2>2, <2>3, StackSizes
<1>8. CASE LeadsHeader(e, a, b)
  <2>1. Head(a).type[2] \in DOMAIN Structs
      BY <1>1, <1>8, FirstIs DEF LeadsHeader, RecordParts
  <2>2. PICK f \in FieldsOf(Head(a).type[2]), k \in Nat :
          Headed(e, f, Fields(Head(a).type[2], k), Tail(a), b)
      BY <1>8 DEF LeadsHeader
  <2>3. DepthOK(Tail(a), n - 1) /\ n - 1 + 1 = n
      BY <1>4, <1>8 DEF LeadsHeader
  <2>4. DepthOK(b, n - 1 + 1)
      BY <1>1, <2>1, <2>2, <2>3, HeadedIs
  <2>5. s # << >> /\ e.last = Push(e.id, Tail(s))
      BY <1>8 DEF LeadsHeader, Turns
  <2>6. PICK id \in Nat : id = e.id
      BY <1>5
  <2>7. Len(Push(id, Tail(s))) = Len(s)
      BY <2>5, StackSizes
  <2>8. Len(e.last) = n
      BY <1>2, <2>5, <2>6, <2>7
  <2>9. DepthOK(b, n)
      BY <2>3, <2>4
  <2>. QED  BY <2>8, <2>9
<1>9. ASSUME e.tok.kind \notin {"begin", "stop", "short", "long"}, DepthOK(b, n)
      PROVE  DepthOK(b, Len(e.last))
  <2>1. e.last = s
      BY <1>9 DEF Turns
  <2>. QED  BY <1>2, <1>9, <2>1
<1>10. CASE LeadsBool(e, a, b)
    BY <1>4, <1>9, <1>10 DEF LeadsBool
<1>11. CASE LeadsScalar(e, a, b)
    BY <1>4, <1>9, <1>11 DEF LeadsScalar
<1>12. CASE LeadsList(e, e2, a, b)
  <2>1. Tail(Head(a).type) \in Types
      BY <1>1, <1>12, FirstIs DEF LeadsList, ListParts
  <2>2. PICK c : c = Copies(SizeOf(e, e2), Tail(Head(a).type))
      OBVIOUS
  <2>3. c \in Seq(WItem) /\ \A i \in 1 .. Len(c) : Levels(c[i]) = 0
      BY <1>5, <2>1, <2>2, CopiesAre
  <2>4. DepthOK(c \o Tail(a), n)
      BY <1>1, <1>4, <1>12, <2>3, JoinDepth DEF LeadsList
  <2>. QED  BY <1>9, <1>12, <2>2, <2>4 DEF LeadsList
<1>13. CASE LeadsMap(e, e2, a, b)
  <2>1. MapParts(Head(a).type)
      BY <1>1, <1>13, FirstIs DEF LeadsMap
  <2>2. PICK c : c = Pairs(e.tok.n, <<Head(a).type[2]>>, Tail(Tail(Head(a).type)))
      OBVIOUS
  <2>3. c \in Seq(WItem) /\ \A i \in 1 .. Len(c) : Levels(c[i]) = 0
      BY <1>5, <2>1, <2>2, PairsAre DEF MapParts
  <2>4. DepthOK(c \o Tail(a), n)
      BY <1>1, <1>4, <1>13, <2>3, JoinDepth DEF LeadsMap
  <2>. QED  BY <1>9, <1>13, <2>2, <2>4 DEF LeadsMap
<1>. QED  BY <1>6, <1>7, <1>8, <1>10, <1>11, <1>12, <1>13 DEF Leads

-----------------------------------------------------------------------------
(* The trace of the tokens w: pts are the places in w at which a call of the  *)
(* writer ended, tr[p] what was still to be written at p, and cnt[p] how many  *)
(* of the booleans gv were written by then.                                 *)
After(w, p) == p + Width(w[p + 1].tok)

Gives(tok, gv, c, c2) ==
    IF IsBool(tok) THEN c2 = c + 1 /\ gv[c2] = tok.type ELSE c2 = c

Goes(w, gv, tr, cnt, p, q) ==
    /\ Leads(w[p + 1], w[q], tr[p], tr[q])
    /\ Gives(w[p + 1].tok, gv, cnt[p], cnt[q])

Trace(w, gv, tr, cnt, pts) ==
    /\ tr \in [Nat -> Seq(WItem)] /\ cnt \in [Nat -> Nat]
    /\ pts \subseteq 0 .. Len(w) /\ 0 \in pts /\ Len(w) \in pts
    /\ \A p \in pts : cnt[p] <= Len(gv)
    /\ cnt[Len(w)] = Len(gv)
    /\ \A p \in pts : p # Len(w) =>
         After(w, p) \in pts /\ Goes(w, gv, tr, cnt, p, After(w, p))

LEMMA WidthIs == ASSUME NEW tok PROVE Width(tok) \in {1, 2}
BY DEF Width

(* The tokens es of one more call.                                          *)
Call(es, a, b) ==
    /\ es \in Seq(Written) /\ es # << >> /\ Len(es) = Width(es[1].tok)
    /\ Leads(es[1], es[Len(es)], a, b)

Given(tok, gv, gv2) == gv2 = IF IsBool(tok) THEN Append(gv, tok.type) ELSE gv

LEMMA GivenIs ==
    ASSUME NEW gv \in Seq(Bools), NEW tok, NEW gv2, Given(tok, gv, gv2),
           IsBool(tok) => tok.type \in Bools
    PROVE  /\ gv2 \in Seq(Bools) /\ Len(gv) \in Nat /\ Len(gv2) \in Nat
           /\ Len(gv) <= Len(gv2)
           /\ \A i \in 1 .. Len(gv) : gv2[i] = gv[i]
           /\ Gives(tok, gv2, Len(gv), Len(gv2))
<1>1. Len(gv) \in Nat
    BY LenProperties
<1>2. CASE IsBool(tok)
  <2>1. PICK x \in Bools : x = tok.type
      BY <1>2
  <2>2. gv2 = Append(gv, x)
      BY <1>2, <2>1 DEF Given
  <2>3. /\ gv2 \in Seq(Bools) /\ Len(gv2) = Len(gv) + 1 /\ gv2[Len(gv) + 1] = x
        /\ \A i \in 1 .. Len(gv) : gv2[i] = gv[i]
      BY <2>2, AppendProperties
  <2>. QED  BY <1>1, <1>2, <2>1, <2>3 DEF Gives
<1>3. CASE ~IsBool(tok)
    BY <1>1, <1>3 DEF Given, Gives
<1>. QED  BY <1>2, <1>3

(* The trace tr2 goes on where tr ends, with b left to write.                *)
GoesOn(w, tr, cnt, pts, w2, gv2, b) ==
    \E tr2, cnt2, pts2 :
        /\ Trace(w2, gv2, tr2, cnt2, pts2) /\ pts \subseteq pts2
        /\ tr2[Len(w2)] = b
        /\ \A p \in 0 .. Len(w) : tr2[p] = tr[p] /\ cnt2[p] = cnt[p]

LEMMA TraceGrows ==
    ASSUME NEW w \in Seq(Written), NEW gv \in Seq(Bools), NEW tr, NEW cnt, NEW pts,
           Trace(w, gv, tr, cnt, pts),
           NEW es, NEW b, Call(es, tr[Len(w)], b),
           IsBool(es[1].tok) => es[1].tok.type \in Bools,
           NEW w2, w2 = w \o es, NEW gv2, Given(es[1].tok, gv, gv2)
    PROVE  GoesOn(w, tr, cnt, pts, w2, gv2, b)
<1>1. PICK n \in Nat : n = Len(w)
    BY LenProperties
<1>2. PICK m \in Nat : m = Len(es) /\ m # 0 /\ m = Width(es[1].tok)
    BY LenProperties, EmptySeq DEF Call
<1>3. PICK g \in Nat : g = Len(gv)
    BY LenProperties
<1>4. PICK h \in Nat : h = Len(gv2)
    BY GivenIs
<1>5. /\ gv2 \in Seq(Bools) /\ g <= h /\ \A i \in 1 .. g : gv2[i] = gv[i]
      /\ Gives(es[1].tok, gv2, g, h)
    BY <1>3, <1>4, GivenIs
<1>6. /\ w2 \in Seq(Written) /\ Len(w2) = n + m
      /\ \A i \in 1 .. n + m : w2[i] = IF i <= n THEN w[i] ELSE es[i - n]
  <2>1. es \in Seq(Written)
      BY DEF Call
  <2>2. PICK u : u = w \o es
      OBVIOUS
  <2>3. Len(w) = n /\ Len(es) = m /\ n \in Nat /\ m \in Nat
      BY <1>1, <1>2
  <2>4. /\ u \in Seq(Written) /\ Len(u) = n + m
        /\ \A i \in 1 .. n + m : u[i] = IF i <= n THEN w[i] ELSE es[i - n]
      BY <2>1, <2>2, <2>3, ConcatProperties
  <2>. QED  BY <2>2, <2>4
<1>7. w2[n + 1] = es[1] /\ w2[n + m] = es[m] /\ \A i \in 1 .. n : w2[i] = w[i]
  <2>1. w2[n + 1] = es[1]
      BY <1>2, <1>6
  <2>2. w2[n + m] = es[m]
      BY <1>2, <1>6, SMTT(20)
  <2>3. \A i \in 1 .. n : w2[i] = w[i]
      BY <1>6
  <2>. QED  BY <2>1, <2>2, <2>3
<1>8. /\ tr \in [Nat -> Seq(WItem)] /\ cnt \in [Nat -> Nat]
      /\ pts \subseteq 0 .. n /\ 0 \in pts /\ n \in pts /\ cnt[n] = g
      /\ \A p \in pts : cnt[p] <= g
    BY <1>1, <1>3 DEF Trace
<1>9. b \in Seq(WItem) /\ Leads(es[1], es[m], tr[n], b)
  <2>1. es[1] \in Written /\ es[m] \in Written
      BY <1>2, ElementOfSeq DEF Call
  <2>2. Leads(es[1], es[m], tr[n], b) /\ tr[n] \in Seq(WItem)
      BY <1>1, <1>2, <1>8 DEF Call
  <2>. QED  BY <2>1, <2>2, LeadsItems
<1> DEFINE tr2  == [p \in Nat |-> IF p = n + m THEN b ELSE tr[p]]
           cnt2 == [p \in Nat |-> IF p = n + m THEN h ELSE cnt[p]]
           pts2 == pts \cup {n + m}
<1>10. /\ tr2 \in [Nat -> Seq(WItem)] /\ cnt2 \in [Nat -> Nat]
       /\ tr2[n + m] = b /\ cnt2[n + m] = h
       /\ \A p \in 0 .. n : tr2[p] = tr[p] /\ cnt2[p] = cnt[p]
  <2>1. n + m \in Nat /\ \A p \in 0 .. n : p \in Nat /\ p # n + m
      BY <1>2
  <2>2. tr2 \in [Nat -> Seq(WItem)] /\ cnt2 \in [Nat -> Nat]
      BY <1>8, <1>9
  <2>3. tr2[n + m] = b /\ cnt2[n + m] = h
      BY <2>1
  <2>4. \A p \in 0 .. n : tr2[p] = tr[p] /\ cnt2[p] = cnt[p]
      BY <2>1
  <2>. QED  BY <2>2, <2>3, <2>4
<1>11. /\ pts2 \subseteq 0 .. n + m /\ 0 \in pts2 /\ n + m \in pts2 /\ pts \subseteq pts2
       /\ \A p \in pts2 : p # n + m => p \in pts
  <2>1. 0 .. n \subseteq 0 .. n + m /\ n + m \in 0 .. n + m
      OBVIOUS
  <2>. QED  BY <1>8, <2>1
<1> HIDE DEF tr2, cnt2, pts2
<1>12. \A p \in pts2 : cnt2[p] <= h
  <2>1. ASSUME NEW p \in pts PROVE cnt2[p] <= h
    <3>1. cnt2[p] = cnt[p] /\ cnt[p] <= g /\ cnt[p] \in Nat
        BY <1>8, <1>10
    <3>. QED  BY <1>5, <3>1
  <2>2. cnt2[n + m] <= h
      BY <1>10
  <2>. QED  BY <1>11, <2>1, <2>2
<1>13. ASSUME NEW p \in pts, p # n
       PROVE  After(w2, p) \in pts2 /\ Goes(w2, gv2, tr2, cnt2, p, After(w2, p))
  <2>1. p \in 0 .. n - 1 /\ p + 1 \in 1 .. n
      BY <1>8, <1>13
  <2>2. w2[p + 1] = w[p + 1]
      BY <1>7, <2>1
  <2>3. PICK q : q = After(w, p)
      OBVIOUS
  <2>4. After(w2, p) = q
      BY <2>2, <2>3 DEF After
  <2>5. q \in pts /\ Goes(w, gv, tr, cnt, p, q)
      BY <1>1, <1>13, <2>3 DEF Trace
  <2>6. q \in 1 .. n
    <3>1. PICK d \in {1, 2} : d = Width(w[p + 1].tok)
        BY WidthIs
    <3>2. q = p + d
        BY <2>3, <3>1 DEF After
    <3>. QED  BY <1>8, <2>1, <2>5, <3>2
  <2>7. w2[q] = w[q]
      BY <1>7, <2>6
  <2>8. tr2[p] = tr[p] /\ tr2[q] = tr[q] /\ cnt2[p] = cnt[p] /\ cnt2[q] = cnt[q]
    <3>1. p \in 0 .. n /\ q \in 0 .. n
        BY <2>1, <2>6
    <3>. QED  BY <1>10, <3>1
  <2>9. cnt[q] \in Nat /\ cnt[q] <= g /\ cnt[p] \in Nat
      BY <1>8, <2>1, <2>5, <2>6
  <2>10. Gives(w[p + 1].tok, gv2, cnt[p], cnt[q])
    <3>1. Gives(w[p + 1].tok, gv, cnt[p], cnt[q])
        BY <2>5 DEF Goes
    <3>2. CASE IsBool(w[p + 1].tok)
      <4>1. cnt[q] = cnt[p] + 1 /\ gv[cnt[q]] = w[p + 1].tok.type
          BY <3>1, <3>2 DEF Gives
      <4>2. cnt[q] \in 1 .. g
          BY <2>9, <4>1
      <4>3. gv2[cnt[q]] = gv[cnt[q]]
          BY <1>5, <4>2
      <4>. QED  BY <3>2, <4>1, <4>3 DEF Gives
    <3>3. CASE ~IsBool(w[p + 1].tok)
        BY <3>1, <3>3 DEF Gives
    <3>. QED  BY <3>2, <3>3
  <2>. QED  BY <1>11, <2>2, <2>4, <2>5, <2>7, <2>8, <2>10 DEF Goes
<1>14. After(w2, n) = n + m /\ Goes(w2, gv2, tr2, cnt2, n, n + m)
  <2>1. After(w2, n) = n + m
      BY <1>2, <1>7 DEF After
  <2>2. tr2[n] = tr[n] /\ cnt2[n] = g
      BY <1>8, <1>10
  <2>. QED  BY <1>5, <1>7, <1>9, <1>10, <2>1, <2>2 DEF Goes
<1>15. Trace(w2, gv2, tr2, cnt2, pts2)
  <2>1. ASSUME NEW p \in pts2, p # n + m
        PROVE  After(w2, p) \in pts2 /\ Goes(w2, gv2, tr2, cnt2, p, After(w2, p))
      BY <1>11, <1>13, <1>14, <2>1
  <2>. QED  BY <1>4, <1>6, <1>10, <1>11, <1>12, <2>1 DEF Trace
<1>16. tr2[Len(w2)] = b /\ \A p \in 0 .. Len(w) : tr2[p] = tr[p] /\ cnt2[p] = cnt[p]
    BY <1>1, <1>6, <1>10
<1>. QED  BY <1>11, <1>15, <1>16 DEF GoesOn

-----------------------------------------------------------------------------
(* The writer has a to write; with a boolean put off it has taken one field    *)
(* of it already.                                                           *)
PutOff(a) ==
    /\ a # << >> /\ Kind(Head(a)) = "fields"
    /\ \E f \in FieldsOf(Head(a).type[2]), k \in Nat :
         /\ f.id = pending /\ f.type = <<"bool">>
         /\ wtodo = Push(Value(<<"bool">>), Push(Fields(Head(a).type[2], k), Tail(a)))

WriterAt(a) ==
    /\ DepthOK(a, Len(wlast))
    /\ IF pending = None THEN wtodo = a ELSE PutOff(a)

(* The reader's things to do are those the writer had there: of the right      *)
(* type, or skipped by the word the type begins with.                        *)
Fits(r, a) == IF r.known THEN r.type = a.type ELSE r.type = <<Kind(a)>>

Match(todo, a) ==
    /\ Len(todo) = Len(a)
    /\ \A i \in 1 .. Len(todo) : Fits(todo[i], a[i])

(* With a boolean of a header in hand the reader is one boolean behind.       *)
InStep(a, c) ==
    IF rbool = "none"
    THEN Match(rtodo, a) /\ Len(got) = c
    ELSE /\ rtodo # << >> /\ Head(rtodo).type = <<"bool">> /\ Match(Tail(rtodo), a)
         /\ Len(got) + 1 = c /\ given[c] = rbool

GotRight == \A k \in 1 .. Len(got) : got[k] = given[k]

ReaderAt(tr, cnt, pts) ==
    /\ Len(seen) \in pts
    /\ InStep(tr[Len(seen)], cnt[Len(seen)])
    /\ GotRight

(* Two fields of one id that have two types are beyond the reader: it finds a  *)
(* field by its id alone.                                                   *)
OneTypePerId ==
    \A s \in DOMAIN Structs : \A f, g \in FieldsOf(s) : f.id = g.id => f.type = g.type

Astray == misled \/ ~OneTypePerId

Synced(tr, cnt, pts) ==
    /\ Trace(out, given, tr, cnt, pts)
    /\ WriterAt(tr[Len(out)])
    /\ ~Astray => ReaderAt(tr, cnt, pts)

SyncInv ==
    /\ \E tr, cnt, pts : Synced(tr, cnt, pts)
    /\ ~Astray => ~garbled

(* What holds of a misled reader, too.                                       *)
BoolsOnly(w) == \A k \in 1 .. Len(w) : w[k].tok.kind = "bool" => w[k].tok.type \in Bools

ItemsInv ==
    /\ rtodo \in Seq(RItem) /\ DepthOK(rtodo, Len(rlast))
    /\ given \in Seq(Bools) /\ got \in Seq(Bools)
    /\ rbool \in Bools \cup {"none"} /\ garbled \in BOOLEAN
    /\ BoolsOnly(out)

(* The writer makes one call, with the tokens es.                            *)
Makes(es) ==
    /\ out' = out \o es
    /\ Given(es[1].tok, given, given')
    /\ IsBool(es[1].tok) => es[1].tok.type \in Bools
    /\ BoolsOnly(es)
    /\ pending' = None
    /\ UNCHANGED reader

LEMMA SecondIs ==
    ASSUME NEW e, NEW e2, NEW a, NEW b, Leads(e, e2, a, b), Width(e.tok) = 2
    PROVE  e2.tok.kind \in {"size", "types"}
<1>1. e.tok.kind = "list" \/ (e.tok.kind = "size" /\ e.tok.n # 0)
    BY DEF Width
<1>2. CASE e.tok.kind = "list"
  <2>1. LeadsList(e, e2, a, b)
      BY <1>2 DEF Leads, LeadsBegin, LeadsStop, LeadsHeader, LeadsBool, LeadsScalar, LeadsMap
  <2>. QED  BY <2>1 DEF LeadsList
<1>3. CASE e.tok.kind = "size" /\ e.tok.n # 0
  <2>1. LeadsMap(e, e2, a, b)
      BY <1>3 DEF Leads, LeadsBegin, LeadsStop, LeadsHeader, LeadsBool, LeadsScalar, LeadsList
  <2>. QED  BY <1>3, <2>1 DEF LeadsMap, PairTypes
<1>. QED  BY <1>1, <1>2, <1>3

(* The reader has no more booleans than were written.                       *)
LEMMA GotLess ==
    ASSUME NEW tr, NEW cnt, NEW pts, Trace(out, given, tr, cnt, pts),
           ReaderAt(tr, cnt, pts), got \in Seq(Bools), given \in Seq(Bools)
    PROVE  /\ Len(got) \in Nat /\ Len(given) \in Nat /\ Len(got) <= Len(given)
           /\ cnt[Len(seen)] \in Nat
           /\ rbool # "none" => cnt[Len(seen)] \in 1 .. Len(given)
<1>1. PICK p : p = Len(seen)
    OBVIOUS
<1>2. Len(got) \in Nat /\ Len(given) \in Nat
    BY LenProperties
<1>3. p \in pts /\ (Len(got) = cnt[p] \/ (rbool # "none" /\ Len(got) + 1 = cnt[p]))
      /\ (rbool # "none" => Len(got) + 1 = cnt[p])
    BY <1>1 DEF ReaderAt, InStep
<1>4. p \in Nat
  <2>1. p \in 0 .. Len(out)
      BY <1>3 DEF Trace
  <2>. QED  BY <2>1
<1>5. cnt[p] \in Nat /\ cnt[p] <= Len(given)
    BY <1>3, <1>4 DEF Trace
<1>. QED  BY <1>1, <1>2, <1>3, <1>5

LEMMA CallDepth ==
    ASSUME Inv, Inv', NEW a \in Seq(WItem), DepthOK(a, Len(wlast)),
           NEW es, NEW b, Call(es, a, b), out' = out \o es
    PROVE  DepthOK(b, Len(wlast'))
<1>1. PICK n \in Nat : n = Len(out)
    BY LenProperties DEF Inv, WriterInv
<1>2. PICK m \in {1, 2} : m = Len(es) /\ m = Width(es[1].tok)
    BY WidthIs DEF Call
<1>3. es \in Seq(Written) /\ out \in Seq(Written)
    BY DEF Call, Inv, WriterInv
<1>4. PICK w : w = out'
    OBVIOUS
<1>5. /\ Len(w) = n + m
      /\ \A i \in 1 .. n + m : w[i] = IF i <= n THEN out[i] ELSE es[i - n]
  <2>1. w = out \o es
      BY <1>4
  <2>2. Len(out) = n /\ Len(es) = m /\ m \in Nat
      BY <1>1, <1>2
  <2>3. /\ Len(w) = n + m
        /\ \A i \in 1 .. n + m : w[i] = IF i <= n THEN out[i] ELSE es[i - n]
      BY <1>3, <2>1, <2>2, ConcatProperties
  <2>. QED  BY <2>3
<1>6. w[n + 1] = es[1] /\ w[n + m] = es[m]
    BY <1>5
<1>7. \A i \in 1 .. n : w[i] = out[i]
    BY <1>5
<1>8. AllTurn(w) /\ wlast' = StackAt(w, n + m)
    BY <1>4, <1>5 DEF Inv, WriterInv
<1>9. StackAt(w, n) = wlast /\ wlast \in Seq(Nat)
  <2>1. wlast \in Seq(Nat) /\ wlast = StackAt(out, n)
      BY <1>1 DEF Inv, WriterInv
  <2>2. n # 0 => w[n] = out[n]
      BY <1>7
  <2>. QED  BY <2>1, <2>2 DEF StackAt
<1>10. Turns(es[1], wlast)
  <2>1. n + 1 \in 1 .. Len(w) /\ n + 1 - 1 = n
      BY <1>5
  <2>2. Turns(w[n + 1], StackAt(w, n + 1 - 1))
      BY <1>8, <2>1 DEF AllTurn
  <2>. QED  BY <1>6, <1>9, <2>1, <2>2
<1>11. es[1] \in Written /\ es[m] \in Written
  <2>1. 1 \in 1 .. Len(es) /\ m \in 1 .. Len(es)
      BY <1>2
  <2>. QED  BY <1>3, <2>1, ElementOfSeq
<1>12. Leads(es[1], es[m], a, b)
    BY <1>2 DEF Call
<1>13. DepthOK(b, Len(es[1].last))
    BY <1>9, <1>10, <1>11, <1>12, LeadsDepth
<1>14. StackAt(w, n + 1) = es[1].last
  <2>1. n + 1 # 0
      OBVIOUS
  <2>. QED  BY <1>6, <2>1 DEF StackAt
<1>15. CASE m = 1
    BY <1>8, <1>13, <1>14, <1>15
<1>16. CASE m = 2
  <2>1. n + 2 \in 1 .. Len(w) /\ n + 2 - 1 = n + 1 /\ n + 2 # 0
      BY <1>5, <1>16
  <2>2. Turns(w[n + 2], StackAt(w, n + 1))
      BY <1>8, <2>1 DEF AllTurn
  <2>3. Turns(es[2], es[1].last)
      BY <1>6, <1>14, <1>16, <2>2
  <2>4. es[2].tok.kind \in {"size", "types"}
      BY <1>2, <1>12, <1>16, SecondIs
  <2>5. es[2].last = es[1].last
      BY <2>3, <2>4 DEF Turns
  <2>6. StackAt(w, n + 2) = es[2].last
      BY <1>6, <1>16, <2>1 DEF StackAt
  <2>. QED  BY <1>8, <1>13, <1>16, <2>5, <2>6
<1>. QED  BY <1>15, <1>16

LEMMA CallKeeps ==
    ASSUME Inv, Inv', SyncInv, ItemsInv,
           NEW tr, NEW cnt, NEW pts, Synced(tr, cnt, pts),
           NEW es, Makes(es), Call(es, tr[Len(out)], wtodo')
    PROVE  SyncInv' /\ ItemsInv'
<1>1. /\ out \in Seq(Written) /\ given \in Seq(Bools) /\ got \in Seq(Bools)
      /\ Trace(out, given, tr, cnt, pts)
    BY DEF Inv, WriterInv, ItemsInv, Synced
<1>2. /\ out' = out \o es /\ Given(es[1].tok, given, given') /\ pending' = None
      /\ IsBool(es[1].tok) => es[1].tok.type \in Bools
      /\ UNCHANGED <<rtodo, rlast, rbool, garbled, seen, got, rmark, misled>>
    BY DEF Makes, reader
<1>3. PICK tr2, cnt2, pts2 :
        /\ Trace(out', given', tr2, cnt2, pts2) /\ pts \subseteq pts2
        /\ tr2[Len(out')] = wtodo'
        /\ \A p \in 0 .. Len(out) : tr2[p] = tr[p] /\ cnt2[p] = cnt[p]
  <2>1. PICK w2, gv2, b : w2 = out' /\ gv2 = given' /\ b = wtodo'
      OBVIOUS
  <2>2. Call(es, tr[Len(out)], b)
      BY <2>1
  <2>3. w2 = out \o es /\ Given(es[1].tok, given, gv2)
      BY <1>2, <2>1
  <2>4. GoesOn(out, tr, cnt, pts, w2, gv2, b)
    <3>1. IsBool(es[1].tok) => es[1].tok.type \in Bools
        BY <1>2
    <3>. QED  BY <1>1, <2>2, <2>3, <3>1, TraceGrows
  <2>. QED  BY <2>1, <2>4 DEF GoesOn
<1>4. /\ given' \in Seq(Bools) /\ Len(given) \in Nat /\ Len(given') \in Nat
      /\ Len(given) <= Len(given') /\ \A i \in 1 .. Len(given) : given'[i] = given[i]
    BY <1>1, <1>2, GivenIs
<1>5. tr[Len(out)] \in Seq(WItem)
  <2>1. Len(out) \in Nat
      BY <1>1, LenProperties
  <2>. QED  BY <1>1, <2>1 DEF Trace
<1>6. WriterAt(tr2[Len(out)])'
  <2>1. DepthOK(tr[Len(out)], Len(wlast))
      BY DEF Synced, WriterAt
  <2>2. DepthOK(wtodo', Len(wlast'))
      BY <1>2, <1>5, <2>1, CallDepth
  <2>. QED  BY <1>2, <1>3, <2>2 DEF WriterAt
<1>7. ASSUME ~Astray PROVE ReaderAt(tr2, cnt2, pts2)'
  <2>1. ReaderAt(tr, cnt, pts)
      BY <1>7 DEF Synced
  <2>2. /\ Len(got) \in Nat /\ Len(got) <= Len(given)
        /\ rbool # "none" => cnt[Len(seen)] \in 1 .. Len(given)
      BY <1>1, <2>1, GotLess
  <2>3. Len(seen) \in pts /\ Len(seen) \in 0 .. Len(out)
      BY <1>1, <2>1 DEF ReaderAt, Trace
  <2>4. tr2[Len(seen)] = tr[Len(seen)] /\ cnt2[Len(seen)] = cnt[Len(seen)]
      BY <1>3, <2>3
  <2>5. GotRight'
    <3>1. ASSUME NEW k \in 1 .. Len(got) PROVE got[k] = given'[k]
      <4>1. got[k] = given[k] /\ k \in 1 .. Len(given)
          BY <1>4, <2>1, <2>2 DEF ReaderAt, GotRight
      <4>. QED  BY <1>4, <4>1
    <3>. QED  BY <1>2, <3>1 DEF GotRight
  <2>6. PICK a, c : a = tr[Len(seen)] /\ c = cnt[Len(seen)]
      OBVIOUS
  <2>7. rbool # "none" => given'[c] = given[c]
      BY <1>4, <2>2, <2>6
  <2>8. InStep(a, c)
      BY <2>1, <2>6 DEF ReaderAt
  <2>9. InStep(a, c)'
      BY <1>2, <2>7, <2>8 DEF InStep
  <2>. QED  BY <1>2, <1>3, <2>3, <2>4, <2>5, <2>6, <2>9 DEF ReaderAt
<1>8. SyncInv'
  <2>1. Synced(tr2, cnt2, pts2)'
      BY <1>2, <1>3, <1>6, <1>7 DEF Synced, Astray
  <2>2. ~Astray' => ~garbled'
      BY <1>2 DEF SyncInv, Astray
  <2>. QED  BY <2>1, <2>2 DEF SyncInv
<1>9. BoolsOnly(out')
  <2>1. es \in Seq(Written) /\ BoolsOnly(es) /\ BoolsOnly(out)
      BY DEF Call, Makes, ItemsInv
  <2>2. PICK n \in Nat, m \in Nat : n = Len(out) /\ m = Len(es)
      BY <1>1, <2>1, LenProperties
  <2>3. PICK w : w = out \o es
      OBVIOUS
  <2>4. /\ Len(w) = n + m
        /\ \A i \in 1 .. n + m : w[i] = IF i <= n THEN out[i] ELSE es[i - n]
      BY <1>1, <2>1, <2>2, <2>3, ConcatProperties
  <2>5. ASSUME NEW i \in 1 .. n + m, w[i].tok.kind = "bool" PROVE w[i].tok.type \in Bools
    <3>1. CASE i <= n
        BY <2>1, <2>2, <2>4, <2>5, <3>1 DEF BoolsOnly
    <3>2. CASE i > n
      <4>1. PICK j \in 1 .. m : j = i - n
          BY <3>2
      <4>2. w[i] = es[j]
          BY <2>4, <3>2, <4>1
      <4>. QED  BY <2>1, <2>2, <2>5, <4>2 DEF BoolsOnly
    <3>. QED  BY <3>1, <3>2
  <2>. QED  BY <1>2, <2>3, <2>4, <2>5 DEF BoolsOnly
<1>10. ItemsInv'
  <2>1. garbled' \in BOOLEAN
      BY <1>2, Zenon DEF ItemsInv
  <2>. QED  BY <1>2, <1>4, <1>9, <2>1 DEF ItemsInv
<1>. QED  BY <1>8, <1>10

-----------------------------------------------------------------------------
(* The actions of the writer.                                               *)
LEMMA NibbleBack ==
    ASSUME NEW t \in Types
    PROVE  /\ ToTType(FromTType(t[1])) = t[1]
           /\ t # <<"bool">> => FromTType(t[1]) \notin Bools
           /\ FromTType(t[1]) \in Nibbles
<1>1. t[1] \in TTypes /\ (t[1] = "bool" => t = <<"bool">>)
    BY TypeIs
<1>2. FromTType(t[1]) \in Nibbles
    BY NibbleOfType
<1>3. CASE t[1] = "bool"
    BY <1>1, <1>2, <1>3 DEF ToTType, FromTType, Bools
<1>4. CASE t[1] # "bool"
  <2>1. FromTType(t[1]) = t[1]
      BY <1>1, <1>4 DEF FromTType
  <2>2. t[1] \notin Bools
      BY <1>1 DEF TTypes, Bools
  <2>. QED  BY <1>2, <2>1, <2>2 DEF ToTType
<1>. QED  BY <1>3, <1>4

LEMMA PushIs ==
    ASSUME NEW S, NEW x \in S, NEW s \in Seq(S)
    PROVE  /\ Push(x, s) \in Seq(S) /\ Push(x, s) # << >>
           /\ Head(Push(x, s)) = x /\ Tail(Push(x, s)) = s
<1>1. PICK p : p = Push(x, s)
    OBVIOUS
<1>2. PICK n \in Nat : n = Len(s)
    BY LenProperties
<1>3. p \in Seq(S) /\ Len(p) = n + 1 /\ p[1] = x /\ \A i \in 1 .. n : p[i + 1] = s[i]
  <2>1. p \in Seq(S) /\ OnTop(p, x, s)
      BY <1>1, PushSeq
  <2>. QED  BY <1>2, <2>1 DEF OnTop
<1>4. p # << >>
    BY <1>3, EmptySeq
<1>5. Head(p) = x
    BY <1>3, <1>4
<1>6. /\ Tail(p) \in Seq(S) /\ Len(Tail(p)) = n
      /\ \A i \in 1 .. n : Tail(p)[i] = p[i + 1]
    BY <1>3, <1>4, HeadTailProperties
<1>7. Tail(p) = s
  <2>1. \A i \in 1 .. n : Tail(p)[i] = s[i]
      BY <1>3, <1>6
  <2>. QED  BY <1>2, <1>6, <2>1, SeqEqual
<1>. QED  BY <1>1, <1>3, <1>4, <1>5, <1>7

(* Only a boolean can follow a header that was put off.                      *)
LEMMA NotPutOff ==
    ASSUME NEW a, WriterAt(a), NEW t, t # "bool", Writes(t), a \in Seq(WItem)
    PROVE  pending = None /\ wtodo = a /\ a # << >> /\ Kind(Head(a)) = t
<1>1. ASSUME PutOff(a) PROVE FALSE
  <2>1. PICK f \in FieldsOf(Head(a).type[2]), k \in Nat :
          wtodo = Push(Value(<<"bool">>), Push(Fields(Head(a).type[2], k), Tail(a)))
      BY <1>1 DEF PutOff
  <2>2. a # << >> /\ Kind(Head(a)) = "fields"
      BY <1>1 DEF PutOff
  <2>3. Tail(a) \in Seq(WItem) /\ Head(a).type[2] \in DOMAIN Structs
      BY <2>2, FirstIs DEF RecordParts
  <2>4. Fields(Head(a).type[2], k) \in WItem /\ Value(<<"bool">>) \in WItem
      BY <2>3, WItems, SimpleTypes
  <2>5. Push(Fields(Head(a).type[2], k), Tail(a)) \in Seq(WItem)
      BY <2>3, <2>4, PushSeq
  <2>6. Head(wtodo) = Value(<<"bool">>)
      BY <2>1, <2>4, <2>5, PushIs
  <2>7. Head(Head(wtodo).type) = "bool"
      BY <2>6, SomeSeqs DEF Value
  <2>. QED  BY <2>7 DEF Writes
<1>2. pending = None /\ wtodo = a
    BY <1>1 DEF WriterAt
<1>. QED  BY <1>2 DEF Writes, Kind

LEMMA NotEmpty ==
    ASSUME NEW S, NEW s \in Seq(S), NEW n, n = Len(s), n # 0
    PROVE  s # << >>
BY EmptySeq

(* One token, or two.                                                       *)
OneEntry(es, e)       == es \in Seq(Written) /\ Len(es) = 1 /\ es[1] = e
TwoEntries(es, e, e2) == es \in Seq(Written) /\ Len(es) = 2 /\ es[1] = e /\ es[2] = e2

LEMMA EmitsOne ==
    ASSUME NEW tok \in Tokens, NEW id \in Nat, NEW last \in Seq(Nat), Emit(<<tok>>, id, last)
    PROVE  \E es : out' = out \o es /\ OneEntry(es, Entry(tok, id, last))
<1>1. PICK ts : ts = <<tok>>
    OBVIOUS
<1>2. DOMAIN ts = 1 .. 1 /\ ts[1] = tok
    BY <1>1
<1>3. PICK es : es = [k \in DOMAIN ts |-> Entry(ts[k], id, last)]
    OBVIOUS
<1>4. PICK e \in Written : e = Entry(tok, id, last)
    BY DEF Entry, Written
<1>5. es = [k \in 1 .. 1 |-> e]
    BY <1>2, <1>3, <1>4
<1>6. OneEntry(es, e)
    BY <1>5 DEF OneEntry
<1>7. out' = out \o es
    BY <1>1, <1>3 DEF Emit, Entry
<1>. QED  BY <1>4, <1>6, <1>7

LEMMA EmitsTwo ==
    ASSUME NEW tok \in Tokens, NEW tok2 \in Tokens, NEW id \in Nat, NEW last \in Seq(Nat),
           Emit(<<tok, tok2>>, id, last)
    PROVE  \E es : /\ out' = out \o es
                   /\ TwoEntries(es, Entry(tok, id, last), Entry(tok2, id, last))
<1>1. PICK ts : ts = <<tok, tok2>>
    OBVIOUS
<1>2. DOMAIN ts = 1 .. 2 /\ ts[1] = tok /\ ts[2] = tok2
    BY <1>1
<1>3. PICK es : es = [k \in DOMAIN ts |-> Entry(ts[k], id, last)]
    OBVIOUS
<1>4. PICK e \in Written, e2 \in Written :
        e = Entry(tok, id, last) /\ e2 = Entry(tok2, id, last)
    BY DEF Entry, Written
<1>5. es = [k \in 1 .. 2 |-> IF k = 1 THEN e ELSE e2]
  <2>1. \A k \in 1 .. 2 : k = 1 \/ k = 2
      OBVIOUS
  <2>. QED  BY <1>2, <1>3, <1>4, <2>1
<1>6. TwoEntries(es, e, e2)
    BY <1>5 DEF TwoEntries
<1>7. out' = out \o es
    BY <1>1, <1>3 DEF Emit, Entry
<1>. QED  BY <1>4, <1>6, <1>7

(* What the proof of an action begins with.                                  *)
Both(tr, cnt, pts) ==
    Inv /\ SyncInv /\ ItemsInv /\ Synced(tr, cnt, pts) /\ tr[Len(out)] \in Seq(WItem)

LEMMA Unfold ==
    ASSUME Inv, SyncInv, ItemsInv
    PROVE  \E tr, cnt, pts : Both(tr, cnt, pts)
<1>1. PICK tr, cnt, pts : Synced(tr, cnt, pts)
    BY DEF SyncInv
<1>2. Len(out) \in Nat
    BY LenProperties DEF Inv, WriterInv
<1>3. tr[Len(out)] \in Seq(WItem)
    BY <1>1, <1>2 DEF Synced, Trace
<1>. QED  BY <1>1, <1>3 DEF Both

(* What is left to show of a call.                                           *)
Passes(tok, gv, gv2) ==
    /\ Given(tok, gv, gv2)
    /\ IsBool(tok) => tok.type \in Bools

Rests == pending' = None /\ UNCHANGED reader

LEMMA OneCall ==
    ASSUME NEW tr, NEW cnt, NEW pts, Both(tr, cnt, pts), Inv',
           NEW tok \in Tokens, NEW id \in Nat, NEW last \in Seq(Nat), Emit(<<tok>>, id, last),
           Width(tok) = 1, Passes(tok, given, given'), Rests,
           Leads(Entry(tok, id, last), Entry(tok, id, last), tr[Len(out)], wtodo')
    PROVE  SyncInv' /\ ItemsInv'
<1>1. PICK e : e = Entry(tok, id, last)
    OBVIOUS
<1>2. PICK es : out' = out \o es /\ OneEntry(es, e)
    BY <1>1, EmitsOne
<1>3. es \in Seq(Written) /\ Len(es) = 1 /\ es[1] = e /\ es # << >> /\ e.tok = tok
  <2>1. es \in Seq(Written) /\ Len(es) = 1 /\ es[1] = e
      BY <1>2 DEF OneEntry
  <2>2. e.tok = tok
      BY <1>1 DEF Entry
  <2>3. es # << >>
    <3>1. PICK n \in Nat : n = Len(es) /\ n # 0
        BY <2>1
    <3>. QED  BY <2>1, <3>1, NotEmpty
  <2>. QED  BY <2>1, <2>2, <2>3
<1>4. Call(es, tr[Len(out)], wtodo')
  <2>1. Len(es) = Width(es[1].tok)
      BY <1>3
  <2>2. Leads(es[1], es[Len(es)], tr[Len(out)], wtodo')
      BY <1>1, <1>3
  <2>. QED  BY <1>3, <2>1, <2>2 DEF Call
<1>5. BoolsOnly(es)
  <2>1. \A k \in 1 .. Len(es) : es[k].tok = tok
      BY <1>3
  <2>2. tok.kind = "bool" => tok.type \in Bools
      BY DEF Passes, IsBool
  <2>. QED  BY <2>1, <2>2 DEF BoolsOnly
<1>6. Makes(es)
    BY <1>2, <1>3, <1>5 DEF Makes, Passes, Rests
<1>. QED  BY <1>4, <1>6, CallKeeps DEF Both

LEMMA TwoCalls ==
    ASSUME NEW tr, NEW cnt, NEW pts, Both(tr, cnt, pts), Inv',
           NEW tok \in Tokens, NEW tok2 \in Tokens, NEW id \in Nat, NEW last \in Seq(Nat),
           Emit(<<tok, tok2>>, id, last),
           Width(tok) = 2, Passes(tok, given, given'), Rests,
           Leads(Entry(tok, id, last), Entry(tok2, id, last), tr[Len(out)], wtodo')
    PROVE  SyncInv' /\ ItemsInv'
<1>1. PICK e, e2 : e = Entry(tok, id, last) /\ e2 = Entry(tok2, id, last)
    OBVIOUS
<1>2. PICK es : out' = out \o es /\ TwoEntries(es, e, e2)
    BY <1>1, EmitsTwo
<1>3. /\ es \in Seq(Written) /\ Len(es) = 2 /\ es[1] = e /\ es[2] = e2 /\ es # << >>
      /\ e.tok = tok /\ e2.tok = tok2
  <2>1. es \in Seq(Written) /\ Len(es) = 2 /\ es[1] = e /\ es[2] = e2
      BY <1>2 DEF TwoEntries
  <2>2. e.tok = tok /\ e2.tok = tok2
      BY <1>1 DEF Entry
  <2>3. es # << >>
    <3>1. PICK n \in Nat : n = Len(es) /\ n # 0
        BY <2>1
    <3>. QED  BY <2>1, <3>1, NotEmpty
  <2>. QED  BY <2>1, <2>2, <2>3
<1>4. Leads(e, e2, tr[Len(out)], wtodo') /\ Width(e.tok) = 2
    BY <1>1, <1>3
<1>5. Call(es, tr[Len(out)], wtodo')
  <2>1. Len(es) = Width(es[1].tok)
      BY <1>3
  <2>2. Leads(es[1], es[Len(es)], tr[Len(out)], wtodo')
      BY <1>3, <1>4
  <2>. QED  BY <1>3, <2>1, <2>2 DEF Call
<1>6. BoolsOnly(es)
  <2>1. \A k \in 1 .. Len(es) : es[k].tok = tok \/ es[k].tok = tok2
    <3>1. \A k \in 1 .. Len(es) : k = 1 \/ k = 2
        BY <1>3
    <3>. QED  BY <1>3, <3>1
  <2>2. tok.kind = "bool" => tok.type \in Bools
      BY DEF Passes, IsBool
  <2>3. tok2.kind # "bool"
      BY <1>3, <1>4, SecondIs
  <2>. QED  BY <2>1, <2>2, <2>3 DEF BoolsOnly
<1>7. Makes(es)
    BY <1>2, <1>3, <1>6 DEF Makes, Passes, Rests
<1>. QED  BY <1>5, <1>7, CallKeeps DEF Both

LEMMA Widths ==
    ASSUME NEW kind, NEW n, NEW type
    PROVE  LET tok == Token(kind, n, type) IN
           /\ kind \notin {"list", "size"} => Width(tok) = 1
           /\ kind \notin {"bool", "short", "long"} => ~IsBool(tok)
BY DEF Width, IsBool, Token

LEMMA HeaderIs ==
    ASSUME NEW last \in Nat, NEW id \in Nat, NEW type \in Nibbles
    PROVE  LET h == Header(last, id, type) IN
           /\ h \in Tokens /\ h.kind \in {"short", "long"} /\ h.type = type
           /\ Width(h) = 1
<1> DEFINE h == Header(last, id, type)
<1>1. h = Token("short", id - last, type) \/ h = Token("long", id, type)
    BY DEF Header
<1>2. id - last > 0 /\ id - last <= MaxNibble => id - last \in Nat
    BY CodecAssumption
<1>3. h \in Tokens
    BY <1>2, TokenIsToken DEF Header, Kinds
<1>4. h.kind \in {"short", "long"} /\ h.type = type
    BY <1>1 DEF Token
<1>5. Width(h) = 1
    BY <1>4 DEF Width
<1>. QED  BY <1>3, <1>4, <1>5

(* The header of the field f, which is the next thing of a to be written.     *)
HeaderOf(a, f, type, b) ==
    /\ a # << >> /\ Kind(Head(a)) = "fields"
    /\ f \in FieldsOf(Head(a).type[2])
    /\ \E k \in Nat :
         LET next == Fields(Head(a).type[2], k) IN
         IF f.type = <<"bool">>
         THEN type \in Bools /\ b = Push(next, Tail(a))
         ELSE type = FromTType(f.type[1]) /\ b = Push(Value(f.type), Push(next, Tail(a)))

LEMMA HeaderCall ==
    ASSUME NEW tr, NEW cnt, NEW pts, Both(tr, cnt, pts), Inv',
           NEW f, NEW type \in Nibbles, HeaderOf(tr[Len(out)], f, type, wtodo'),
           f.id \in Nat, EmitHeader(f.id, type), Rests,
           given' = IF type \in Bools THEN Append(given, type) ELSE given
    PROVE  SyncInv' /\ ItemsInv'
<1> DEFINE h    == Header(Head(wlast), f.id, type)
           last == Push(f.id, Tail(wlast))
<1>1. wlast # << >> /\ Emit(<<h>>, f.id, last)
    BY DEF EmitHeader
<1>2. wlast \in Seq(Nat) /\ Head(wlast) \in Nat /\ Tail(wlast) \in Seq(Nat)
    BY <1>1, HeadTailProperties DEF Both, Inv, WriterInv
<1>3. last \in Seq(Nat)
    BY <1>2, PushSeq
<1>4. h \in Tokens /\ h.kind \in {"short", "long"} /\ h.type = type /\ Width(h) = 1
    BY <1>2, HeaderIs
<1> HIDE DEF h, last
<1>5. PICK e : e = Entry(h, f.id, last)
    OBVIOUS
<1>6. e.tok = h /\ e.id = f.id
    BY <1>5 DEF Entry
<1>7. PICK a : a = tr[Len(out)]
    OBVIOUS
<1>8. HeaderOf(a, f, type, wtodo')
    BY <1>7
<1>9. LeadsHeader(e, a, wtodo')
  <2>1. PICK k \in Nat :
          LET next == Fields(Head(a).type[2], k) IN
          IF f.type = <<"bool">>
          THEN type \in Bools /\ wtodo' = Push(next, Tail(a))
          ELSE type = FromTType(f.type[1]) /\ wtodo' = Push(Value(f.type), Push(next, Tail(a)))
      BY <1>8 DEF HeaderOf
  <2>2. Headed(e, f, Fields(Head(a).type[2], k), Tail(a), wtodo')
      BY <1>4, <1>6, <2>1 DEF Headed
  <2>. QED  BY <1>4, <1>6, <1>8, <2>2 DEF HeaderOf, LeadsHeader
<1>10. Leads(e, e, a, wtodo')
    BY <1>8, <1>9 DEF Leads, HeaderOf
<1>11. Passes(h, given, given')
  <2>1. IsBool(h) <=> type \in Bools
      BY <1>4 DEF IsBool
  <2>. QED  BY <1>4, <2>1 DEF Passes, Given
<1>12. Leads(Entry(h, f.id, last), Entry(h, f.id, last), tr[Len(out)], wtodo')
    BY <1>5, <1>7, <1>10
<1>. QED  BY <1>1, <1>3, <1>4, <1>11, <1>12, OneCall

LEMMA StructBeginSync ==
    ASSUME Inv, Inv', SyncInv, ItemsInv, WriteStructBegin
    PROVE  SyncInv' /\ ItemsInv'
<1>1. PICK tr, cnt, pts : Both(tr, cnt, pts)
    BY Unfold
<1>2. PICK a \in Seq(WItem) : a = tr[Len(out)]
    BY <1>1 DEF Both
<1>3. WriterAt(a) /\ Writes("struct")
    BY <1>1, <1>2 DEF Both, Synced, WriteStructBegin
<1>4. pending = None /\ wtodo = a /\ a # << >> /\ Kind(Head(a)) = "struct"
  <2>1. "struct" # "bool"
      OBVIOUS
  <2>. QED  BY <1>3, <2>1, NotPutOff
<1> DEFINE tok  == Token("begin", 0, "none")
           last == Push(0, wlast)
<1>5. tok \in Tokens /\ tok.kind = "begin"
    BY TokenIsToken DEF Kinds, Nibbles
<1>6. Width(tok) = 1 /\ ~IsBool(tok)
    BY Widths
<1>7. last \in Seq(Nat) /\ Emit(<<tok>>, 0, last)
    BY PushSeq DEF WriteStructBegin, Inv, WriterInv
<1> HIDE DEF tok, last
<1>8. Passes(tok, given, given') /\ Rests
    BY <1>4, <1>6 DEF WriteStructBegin, Passes, Given, Rests
<1>9. wtodo' = Push(Fields(Head(a).type[2], 1), Tail(a))
    BY <1>4 DEF WriteStructBegin
<1>10. Leads(Entry(tok, 0, last), Entry(tok, 0, last), a, wtodo')
    BY <1>4, <1>5, <1>9 DEF Leads, LeadsBegin, Entry
<1>. QED  BY <1>1, <1>2, <1>5, <1>6, <1>7, <1>8, <1>10, OneCall

LEMMA FieldStopSync ==
    ASSUME Inv, Inv', SyncInv, ItemsInv, WriteFieldStop
    PROVE  SyncInv' /\ ItemsInv'
<1>1. PICK tr, cnt, pts : Both(tr, cnt, pts)
    BY Unfold
<1>2. PICK a \in Seq(WItem) : a = tr[Len(out)]
    BY <1>1 DEF Both
<1>3. WriterAt(a) /\ Writes("fields")
    BY <1>1, <1>2 DEF Both, Synced, WriteFieldStop
<1>4. pending = None /\ wtodo = a /\ a # << >> /\ Kind(Head(a)) = "fields"
  <2>1. "fields" # "bool"
      OBVIOUS
  <2>. QED  BY <1>3, <2>1, NotPutOff
<1> DEFINE tok  == Token("stop", 0, "none")
           last == Pop(wlast)
<1>5. tok \in Tokens /\ tok.kind = "stop"
    BY TokenIsToken DEF Kinds, Nibbles
<1>6. Width(tok) = 1 /\ ~IsBool(tok)
    BY Widths
<1>7. last \in Seq(Nat) /\ Emit(<<tok>>, 0, last)
    BY PopSeq DEF WriteFieldStop, Inv, WriterInv
<1> HIDE DEF tok, last
<1>8. Passes(tok, given, given') /\ Rests
    BY <1>4, <1>6 DEF WriteFieldStop, Passes, Given, Rests
<1>9. wtodo' = Tail(a)
    BY <1>4 DEF WriteFieldStop
<1>10. Leads(Entry(tok, 0, last), Entry(tok, 0, last), a, wtodo')
    BY <1>4, <1>5, <1>9 DEF Leads, LeadsStop, Entry
<1>. QED  BY <1>1, <1>2, <1>5, <1>6, <1>7, <1>8, <1>10, OneCall

LEMMA ScalarSync ==
    ASSUME Inv, Inv', SyncInv, ItemsInv, WriteScalar
    PROVE  SyncInv' /\ ItemsInv'
<1>1. PICK tr, cnt, pts : Both(tr, cnt, pts)
    BY Unfold
<1>2. PICK a \in Seq(WItem) : a = tr[Len(out)]
    BY <1>1 DEF Both
<1>3. WriterAt(a) /\ Writes("scalar")
    BY <1>1, <1>2 DEF Both, Synced, WriteScalar
<1>4. pending = None /\ wtodo = a /\ a # << >> /\ Kind(Head(a)) = "scalar"
  <2>1. "scalar" # "bool"
      OBVIOUS
  <2>. QED  BY <1>3, <2>1, NotPutOff
<1> DEFINE tok == Token("scalar", 0, "none")
<1>5. tok \in Tokens /\ tok.kind = "scalar"
    BY TokenIsToken DEF Kinds, Nibbles
<1>6. Width(tok) = 1 /\ ~IsBool(tok)
    BY Widths
<1>7. wlast \in Seq(Nat) /\ Emit(<<tok>>, 0, wlast)
    BY DEF WriteScalar, Inv, WriterInv
<1> HIDE DEF tok
<1>8. Passes(tok, given, given') /\ Rests
    BY <1>4, <1>6 DEF WriteScalar, Passes, Given, Rests
<1>9. wtodo' = Tail(a)
    BY <1>4 DEF WriteScalar
<1>10. Leads(Entry(tok, 0, wlast), Entry(tok, 0, wlast), a, wtodo')
    BY <1>4, <1>5, <1>9 DEF Leads, LeadsScalar, Entry
<1>. QED  BY <1>1, <1>2, <1>5, <1>6, <1>7, <1>8, <1>10, OneCall

LEMMA FieldAt ==
    ASSUME NEW s \in DOMAIN Structs, NEW i \in DOMAIN Structs[s]
    PROVE  /\ Structs[s][i] \in FieldsOf(s) /\ Structs[s][i] \in Field
           /\ Structs[s][i].id \in Nat /\ Structs[s][i].type \in Types
           /\ i + 1 \in Nat
<1>1. Structs[s] \in Seq(Field)
    BY CodecAssumption
<1>2. i \in 1 .. Len(Structs[s]) /\ Len(Structs[s]) \in Nat
    BY <1>1, LenProperties
<1>3. PICK f : f = Structs[s][i]
    OBVIOUS
<1>4. f \in FieldsOf(s)
    BY <1>3 DEF FieldsOf
<1>5. f \in Field /\ f.id \in Nat
    BY <1>4, FieldIs DEF Field
<1>6. f.type \in Types
    BY <1>4, TypesAre
<1>. QED  BY <1>2, <1>3, <1>4, <1>5, <1>6

(* The reader has nothing of a call that is not made yet.                    *)
LEMMA PutOffKeeps ==
    ASSUME NEW tr, NEW cnt, NEW pts, Both(tr, cnt, pts),
           UNCHANGED <<out, wlast, given>>, UNCHANGED reader,
           pending' \in Nat, PutOff(tr[Len(out)])'
    PROVE  SyncInv' /\ ItemsInv'
<1>1. Synced(tr, cnt, pts) /\ ItemsInv /\ SyncInv
    BY DEF Both
<1>2. UNCHANGED <<rtodo, rlast, rbool, garbled, seen, got, rmark, misled>>
    BY DEF reader
<1>3. Trace(out, given, tr, cnt, pts)'
    BY <1>1 DEF Synced
<1>4. WriterAt(tr[Len(out)])'
  <2>1. DepthOK(tr[Len(out)], Len(wlast))'
      BY <1>1 DEF Synced, WriterAt
  <2>2. pending' # None
      BY DEF None
  <2>. QED  BY <2>1, <2>2 DEF WriterAt
<1>5. ASSUME ~Astray PROVE ReaderAt(tr, cnt, pts)'
  <2>1. ReaderAt(tr, cnt, pts)
      BY <1>1, <1>5 DEF Synced
  <2>. QED  BY <1>2, <2>1 DEF ReaderAt, InStep, GotRight
<1>6. Synced(tr, cnt, pts)'
    BY <1>2, <1>3, <1>4, <1>5 DEF Synced, Astray
<1>7. ~Astray' => ~garbled'
    BY <1>1, <1>2 DEF SyncInv, Astray
<1>8. SyncInv'
    BY <1>6, <1>7 DEF SyncInv
<1>9. garbled' \in BOOLEAN
    BY <1>1, <1>2, Zenon DEF ItemsInv
<1>. QED  BY <1>1, <1>2, <1>8, <1>9 DEF ItemsInv

LEMMA FieldBeginSync ==
    ASSUME Inv, Inv', SyncInv, ItemsInv, WriteFieldBegin
    PROVE  SyncInv' /\ ItemsInv'
<1>1. PICK tr, cnt, pts : Both(tr, cnt, pts)
    BY Unfold
<1>2. PICK a \in Seq(WItem) : a = tr[Len(out)]
    BY <1>1 DEF Both
<1>3. WriterAt(a) /\ Writes("fields")
    BY <1>1, <1>2 DEF Both, Synced, WriteFieldBegin
<1>4. pending = None /\ wtodo = a /\ a # << >> /\ Kind(Head(a)) = "fields"
  <2>1. "fields" # "bool"
      OBVIOUS
  <2>. QED  BY <1>3, <2>1, NotPutOff
<1>5. PICK s \in DOMAIN Structs :
        /\ s = Head(a).type[2]
        /\ \E i \in DOMAIN Structs[s] : LET f == Structs[s][i] IN
             /\ wtodo' = Push(Value(f.type), Push(Fields(s, i + 1), Tail(a)))
             /\ IF f.type = <<"bool">>
                THEN pending' = f.id /\ UNCHANGED <<out, wlast>>
                ELSE EmitHeader(f.id, FromTType(f.type[1])) /\ UNCHANGED pending
    BY <1>4 DEF WriteFieldBegin
<1>6. PICK i \in DOMAIN Structs[s] : LET f == Structs[s][i] IN
        /\ wtodo' = Push(Value(f.type), Push(Fields(s, i + 1), Tail(a)))
        /\ IF f.type = <<"bool">>
           THEN pending' = f.id /\ UNCHANGED <<out, wlast>>
           ELSE EmitHeader(f.id, FromTType(f.type[1])) /\ UNCHANGED pending
    BY <1>5
<1>7. PICK f : f = Structs[s][i]
    OBVIOUS
<1>8. PICK k \in Nat : k = i + 1
    BY FieldAt
<1>9. /\ f \in FieldsOf(s) /\ f.id \in Nat /\ f.type \in Types
      /\ wtodo' = Push(Value(f.type), Push(Fields(s, k), Tail(a)))
      /\ given' = given /\ UNCHANGED reader
    BY <1>6, <1>7, <1>8, FieldAt DEF WriteFieldBegin
<1>10. CASE f.type = <<"bool">>
  <2>1. pending' = f.id /\ UNCHANGED <<out, wlast>>
      BY <1>6, <1>7, <1>10
  <2>2. PutOff(a)'
      BY <1>4, <1>5, <1>9, <1>10, <2>1 DEF PutOff
  <2>3. PutOff(tr[Len(out)])'
      BY <1>2, <2>1, <2>2
  <2>. QED  BY <1>1, <1>9, <2>1, <2>3, PutOffKeeps
<1>11. CASE f.type # <<"bool">>
  <2>1. PICK type \in Nibbles : type = FromTType(f.type[1]) /\ type \notin Bools
      BY <1>9, <1>11, NibbleBack
  <2>2. EmitHeader(f.id, type) /\ UNCHANGED pending
      BY <1>6, <1>7, <1>11, <2>1
  <2>3. Rests
      BY <1>4, <1>9, <2>2 DEF Rests
  <2>4. HeaderOf(a, f, type, wtodo')
      BY <1>4, <1>5, <1>9, <1>11, <2>1 DEF HeaderOf
  <2>5. given' = IF type \in Bools THEN Append(given, type) ELSE given
      BY <1>9, <2>1
  <2>6. HeaderOf(tr[Len(out)], f, type, wtodo')
      BY <1>2, <2>4
  <2>. QED  BY <1>1, <1>9, <2>2, <2>3, <2>5, <2>6, HeaderCall
<1>. QED  BY <1>10, <1>11

LEMMA BoolSync ==
    ASSUME Inv, Inv', SyncInv, ItemsInv, WriteBool
    PROVE  SyncInv' /\ ItemsInv'
<1>1. PICK tr, cnt, pts : Both(tr, cnt, pts)
    BY Unfold
<1>2. PICK a \in Seq(WItem) : a = tr[Len(out)]
    BY <1>1 DEF Both
<1>3. WriterAt(a) /\ Writes("bool")
    BY <1>1, <1>2 DEF Both, Synced, WriteBool
<1>4. PICK v \in Bools :
        /\ IF pending # None
           THEN EmitHeader(pending, v)
           ELSE Emit(<<Token("bool", 0, v)>>, 0, wlast)
        /\ given' = Append(given, v)
    BY DEF WriteBool
<1>5. v \in Nibbles /\ Rests /\ wtodo' = Tail(wtodo)
    BY DEF WriteBool, Bools, Nibbles, Rests
<1>6. CASE pending = None
  <2>1. wtodo = a /\ a # << >> /\ Kind(Head(a)) = "bool"
      BY <1>3, <1>6 DEF WriterAt, Writes, Kind
  <2> DEFINE tok == Token("bool", 0, v)
  <2>2. tok \in Tokens /\ tok.kind = "bool" /\ tok.type = v /\ Width(tok) = 1
      BY <1>5, TokenIsToken DEF Kinds, Token, Width
  <2>3. wlast \in Seq(Nat) /\ Emit(<<tok>>, 0, wlast)
      BY <1>4, <1>6 DEF Inv, WriterInv
  <2> HIDE DEF tok
  <2>4. Passes(tok, given, given')
      BY <1>4, <2>2 DEF Passes, Given, IsBool
  <2>5. Leads(Entry(tok, 0, wlast), Entry(tok, 0, wlast), a, wtodo')
      BY <1>5, <2>1, <2>2 DEF Leads, LeadsBool, Entry
  <2>. QED  BY <1>1, <1>2, <1>5, <2>2, <2>3, <2>4, <2>5, OneCall
<1>7. CASE pending # None
  <2>1. PutOff(a)
      BY <1>3, <1>7 DEF WriterAt
  <2>2. PICK f \in FieldsOf(Head(a).type[2]), k \in Nat :
          /\ f.id = pending /\ f.type = <<"bool">>
          /\ wtodo = Push(Value(<<"bool">>), Push(Fields(Head(a).type[2], k), Tail(a)))
      BY <2>1 DEF PutOff
  <2>3. a # << >> /\ Kind(Head(a)) = "fields"
      BY <2>1 DEF PutOff
  <2>4. Tail(a) \in Seq(WItem) /\ Head(a).type[2] \in DOMAIN Structs
      BY <2>3, FirstIs DEF RecordParts
  <2>5. Fields(Head(a).type[2], k) \in WItem /\ Value(<<"bool">>) \in WItem
      BY <2>4, WItems, SimpleTypes
  <2>6. Push(Fields(Head(a).type[2], k), Tail(a)) \in Seq(WItem)
      BY <2>4, <2>5, PushSeq
  <2>7. wtodo' = Push(Fields(Head(a).type[2], k), Tail(a))
    <3>1. PICK rest \in Seq(WItem) : rest = Push(Fields(Head(a).type[2], k), Tail(a))
        BY <2>6
    <3>2. PICK item \in WItem : item = Value(<<"bool">>)
        BY <2>5
    <3>3. wtodo = Push(item, rest)
        BY <2>2, <3>1, <3>2
    <3>4. Tail(Push(item, rest)) = rest
        BY PushIs
    <3>. QED  BY <1>5, <3>1, <3>3, <3>4
  <2>8. f.id \in Nat
      BY <2>4, FieldIs DEF Field
  <2>9. EmitHeader(f.id, v)
      BY <1>4, <1>7, <2>2
  <2>10. HeaderOf(a, f, v, wtodo')
      BY <2>2, <2>3, <2>7 DEF HeaderOf
  <2>11. HeaderOf(tr[Len(out)], f, v, wtodo')
      BY <1>2, <2>10
  <2>12. given' = IF v \in Bools THEN Append(given, v) ELSE given
      BY <1>4
  <2>. QED  BY <1>1, <1>5, <2>8, <2>9, <2>11, <2>12, HeaderCall
<1>. QED  BY <1>6, <1>7

LEMMA ListSync ==
    ASSUME Inv, Inv', SyncInv, ItemsInv, WriteListBegin
    PROVE  SyncInv' /\ ItemsInv'
<1>1. PICK tr, cnt, pts : Both(tr, cnt, pts)
    BY Unfold
<1>2. PICK a \in Seq(WItem) : a = tr[Len(out)]
    BY <1>1 DEF Both
<1>3. WriterAt(a) /\ Writes("list")
    BY <1>1, <1>2 DEF Both, Synced, WriteListBegin
<1>4. pending = None /\ wtodo = a /\ a # << >> /\ Kind(Head(a)) = "list"
  <2>1. "list" # "bool"
      OBVIOUS
  <2>. QED  BY <1>3, <2>1, NotPutOff
<1>5. PICK elem : elem = Tail(Head(a).type)
    OBVIOUS
<1>6. PICK n \in 0 .. MaxSize : \E nibble \in ElemNibbles(n, elem[1]) :
        /\ Emit(ListHeader(n, nibble), 0, wlast)
        /\ wtodo' = Copies(n, elem) \o Tail(a)
    BY <1>4, <1>5 DEF WriteListBegin, Copies
<1>7. PICK nibble \in ElemNibbles(n, elem[1]) :
        /\ Emit(ListHeader(n, nibble), 0, wlast)
        /\ wtodo' = Copies(n, elem) \o Tail(a)
    BY <1>6
<1>8. nibble \in Nibbles /\ (n # 0 => nibble = FromTType(elem[1]))
  <2>1. FromTType(elem[1]) \in Nibbles /\ "scalar" \in Nibbles
      BY NibbleOfType DEF Nibbles
  <2>. QED  BY <1>7, <2>1 DEF ElemNibbles
<1>9. n \in Nat /\ MaxNibble \in Nat \ {0} /\ wlast \in Seq(Nat)
    BY CodecAssumption DEF Inv, WriterInv
<1>10. given' = given /\ Rests
    BY <1>4 DEF WriteListBegin, Rests
<1>11. CASE n <= MaxNibble - 1
  <2> DEFINE tok == Token("list", n, nibble)
  <2>1. /\ tok \in Tokens /\ tok.kind = "list" /\ tok.n = n /\ tok.type = nibble
        /\ ~IsBool(tok)
      BY <1>8, <1>9, TokenIsToken DEF Kinds, Token, IsBool
  <2>2. Width(tok) = 1
      BY <1>9, <1>11, <2>1 DEF Width
  <2>3. Emit(<<tok>>, 0, wlast)
      BY <1>7, <1>11 DEF ListHeader
  <2> HIDE DEF tok
  <2>4. Passes(tok, given, given')
      BY <1>10, <2>1 DEF Passes, Given
  <2>5. PICK e : e = Entry(tok, 0, wlast)
      OBVIOUS
  <2>6. e.tok = tok
      BY <2>5 DEF Entry
  <2>7. SizeOf(e, e) = n /\ Width(e.tok) # 2
      BY <2>1, <2>2, <2>6 DEF SizeOf
  <2>8. LeadsList(e, e, a, wtodo')
      BY <1>4, <1>5, <1>7, <1>8, <2>1, <2>6, <2>7 DEF LeadsList
  <2>9. Leads(e, e, a, wtodo')
      BY <1>4, <2>8 DEF Leads
  <2>10. Leads(Entry(tok, 0, wlast), Entry(tok, 0, wlast), tr[Len(out)], wtodo')
      BY <1>2, <2>5, <2>9
  <2>. QED  BY <1>1, <1>9, <1>10, <2>1, <2>2, <2>3, <2>4, <2>10, OneCall
<1>12. CASE ~(n <= MaxNibble - 1)
  <2> DEFINE tok  == Token("list", MaxNibble, nibble)
             tok2 == Token("size", n, "none")
  <2>1. /\ tok \in Tokens /\ tok.kind = "list" /\ tok.n = MaxNibble /\ tok.type = nibble
        /\ ~IsBool(tok)
      BY <1>8, <1>9, TokenIsToken DEF Kinds, Token, IsBool
  <2>2. Width(tok) = 2
      BY <2>1 DEF Width
  <2>3. tok2 \in Tokens /\ tok2.kind = "size" /\ tok2.n = n
    <3>1. "size" \in Kinds /\ "none" \in Nibbles /\ n \in Nat
        BY <1>9 DEF Kinds, Nibbles
    <3>2. tok2 \in Tokens
        BY <3>1, TokenIsToken
    <3>3. tok2.kind = "size" /\ tok2.n = n
        BY DEF Token
    <3>. QED  BY <3>2, <3>3
  <2>4. Emit(<<tok, tok2>>, 0, wlast)
      BY <1>7, <1>12 DEF ListHeader
  <2> HIDE DEF tok, tok2
  <2>5. Passes(tok, given, given')
      BY <1>10, <2>1 DEF Passes, Given
  <2>6. PICK e, e2 : e = Entry(tok, 0, wlast) /\ e2 = Entry(tok2, 0, wlast)
      OBVIOUS
  <2>7. e.tok = tok /\ e2.tok = tok2
      BY <2>6 DEF Entry
  <2>8. SizeOf(e, e2) = n
      BY <2>2, <2>3, <2>7 DEF SizeOf
  <2>9. LeadsList(e, e2, a, wtodo')
      BY <1>4, <1>5, <1>7, <1>8, <2>1, <2>3, <2>7, <2>8 DEF LeadsList
  <2>10. Leads(e, e2, a, wtodo')
      BY <1>4, <2>9 DEF Leads
  <2>11. Leads(Entry(tok, 0, wlast), Entry(tok2, 0, wlast), tr[Len(out)], wtodo')
      BY <1>2, <2>6, <2>10
  <2>. QED  BY <1>1, <1>9, <1>10, <2>1, <2>2, <2>3, <2>4, <2>5, <2>11, TwoCalls
<1>. QED  BY <1>11, <1>12

LEMMA MapSync ==
    ASSUME Inv, Inv', SyncInv, ItemsInv, WriteMapBegin
    PROVE  SyncInv' /\ ItemsInv'
<1>1. PICK tr, cnt, pts : Both(tr, cnt, pts)
    BY Unfold
<1>2. PICK a \in Seq(WItem) : a = tr[Len(out)]
    BY <1>1 DEF Both
<1>3. WriterAt(a) /\ Writes("map")
    BY <1>1, <1>2 DEF Both, Synced, WriteMapBegin
<1>4. pending = None /\ wtodo = a /\ a # << >> /\ Kind(Head(a)) = "map"
  <2>1. "map" # "bool"
      OBVIOUS
  <2>. QED  BY <1>3, <2>1, NotPutOff
<1>5. PICK type, val : type = Head(a).type /\ val = Tail(Tail(type))
    OBVIOUS
<1> DEFINE both == [kind |-> "types", n |-> 0,
                    type |-> FromTType(val[1]), key |-> FromTType(type[2])]
<1>6. PICK n \in 0 .. MaxSize :
        /\ Emit(IF n = 0 THEN <<Token("size", n, "none")>>
                ELSE <<Token("size", n, "none"), both>>, 0, wlast)
        /\ wtodo' = Pairs(n, <<type[2]>>, val) \o Tail(a)
    BY <1>4, <1>5 DEF WriteMapBegin, Pairs
<1> DEFINE size == Token("size", n, "none")
<1>7. n \in Nat /\ wlast \in Seq(Nat)
    BY CodecAssumption DEF Inv, WriterInv
<1>8. given' = given /\ Rests
    BY <1>4 DEF WriteMapBegin, Rests
<1>9. size \in Tokens /\ size.kind = "size" /\ size.n = n /\ ~IsBool(size)
  <2>1. "size" \in Kinds /\ "none" \in Nibbles
      BY DEF Kinds, Nibbles
  <2>2. size \in Tokens
      BY <1>7, <2>1, TokenIsToken
  <2>3. size.kind = "size" /\ size.n = n
      BY DEF Token
  <2>4. ~IsBool(size)
      BY <2>3 DEF IsBool
  <2>. QED  BY <2>2, <2>3, <2>4
<1>10. both \in Tokens /\ PairTypes(both, type)
  <2>1. FromTType(val[1]) \in Nibbles /\ FromTType(type[2]) \in Nibbles
      BY NibbleOfType
  <2>2. both \in Tokens
      BY <2>1 DEF Tokens, Kinds
  <2>. QED  BY <1>5, <2>2 DEF PairTypes
<1>11. Emit(IF n = 0 THEN <<size>> ELSE <<size, both>>, 0, wlast)
    BY <1>6
<1>12. wtodo' = Pairs(n, <<type[2]>>, val) \o Tail(a)
    BY <1>6
<1> HIDE DEF size, both
<1>13. Passes(size, given, given')
    BY <1>8, <1>9 DEF Passes, Given
<1>14. PICK e, e2 : e = Entry(size, 0, wlast) /\ e2 = Entry(both, 0, wlast)
    OBVIOUS
<1>15. e.tok = size /\ e2.tok = both
    BY <1>14 DEF Entry
<1>16. CASE n = 0
  <2>1. Width(size) = 1
      BY <1>9, <1>16 DEF Width
  <2>2. Emit(<<size>>, 0, wlast)
      BY <1>11, <1>16
  <2>3. LeadsMap(e, e, a, wtodo')
      BY <1>4, <1>5, <1>9, <1>12, <1>15, <1>16 DEF LeadsMap
  <2>4. Leads(e, e, a, wtodo')
      BY <1>4, <2>3 DEF Leads
  <2>5. Leads(Entry(size, 0, wlast), Entry(size, 0, wlast), tr[Len(out)], wtodo')
      BY <1>2, <1>14, <2>4
  <2>. QED  BY <1>1, <1>7, <1>8, <1>9, <1>13, <2>1, <2>2, <2>5, OneCall
<1>17. CASE n # 0
  <2>1. Width(size) = 2
      BY <1>9, <1>17 DEF Width
  <2>2. Emit(<<size, both>>, 0, wlast)
      BY <1>11, <1>17
  <2>3. LeadsMap(e, e2, a, wtodo')
      BY <1>4, <1>5, <1>9, <1>10, <1>12, <1>15 DEF LeadsMap
  <2>4. Leads(e, e2, a, wtodo')
      BY <1>4, <2>3 DEF Leads
  <2>5. Leads(Entry(size, 0, wlast), Entry(both, 0, wlast), tr[Len(out)], wtodo')
      BY <1>2, <1>14, <2>4
  <2>. QED  BY <1>1, <1>7, <1>8, <1>9, <1>10, <1>13, <2>1, <2>2, <2>5, TwoCalls
<1>. QED  BY <1>16, <1>17

-----------------------------------------------------------------------------
(* Two lists of things to do that match.                                    *)
LEMMA TailIs ==
    ASSUME NEW S, NEW s \in Seq(S), s # << >>, NEW n \in Nat, n = Len(s)
    PROVE  /\ Head(s) = s[1] /\ Len(Tail(s)) = n - 1
           /\ \A i \in 1 .. n - 1 : Tail(s)[i] = s[i + 1]
BY HeadTailProperties

LEMMA JoinIs ==
    ASSUME NEW S, NEW s \in Seq(S), NEW t \in Seq(S),
           NEW n \in Nat, n = Len(s), NEW m \in Nat, m = Len(t)
    PROVE  /\ Len(s \o t) = n + m
           /\ \A i \in 1 .. n + m : (s \o t)[i] = IF i <= n THEN s[i] ELSE t[i - n]
BY ConcatProperties

LEMMA MatchHead ==
    ASSUME NEW r \in Seq(RItem), NEW a \in Seq(WItem), Match(r, a)
    PROVE  /\ r = << >> <=> a = << >>
           /\ r # << >> => Fits(Head(r), Head(a)) /\ Match(Tail(r), Tail(a))
<1>1. PICK n \in Nat : n = Len(r) /\ n = Len(a)
    BY LenProperties DEF Match
<1>2. \A i \in 1 .. n : Fits(r[i], a[i])
    BY <1>1 DEF Match
<1>3. r = << >> <=> a = << >>
    BY <1>1, EmptySeq
<1>4. ASSUME r # << >> PROVE Fits(Head(r), Head(a)) /\ Match(Tail(r), Tail(a))
  <2>1. n # 0 /\ a # << >>
      BY <1>1, <1>3, <1>4, EmptySeq
  <2>2. /\ Head(r) = r[1] /\ Len(Tail(r)) = n - 1
        /\ \A i \in 1 .. n - 1 : Tail(r)[i] = r[i + 1]
      BY <1>1, <1>4, TailIs
  <2>3. /\ Head(a) = a[1] /\ Len(Tail(a)) = n - 1
        /\ \A i \in 1 .. n - 1 : Tail(a)[i] = a[i + 1]
      BY <1>1, <2>1, TailIs
  <2>4. Fits(Head(r), Head(a))
      BY <1>2, <2>1, <2>2, <2>3
  <2>5. ASSUME NEW i \in 1 .. n - 1 PROVE Fits(Tail(r)[i], Tail(a)[i])
    <3>1. PICK j \in 1 .. n : j = i + 1
        OBVIOUS
    <3>2. Tail(r)[i] = r[j] /\ Tail(a)[i] = a[j]
        BY <2>2, <2>3, <3>1
    <3>. QED  BY <1>2, <3>2
  <2>. QED  BY <2>2, <2>3, <2>4, <2>5 DEF Match
<1>. QED  BY <1>3, <1>4

LEMMA MatchJoin ==
    ASSUME NEW r1 \in Seq(RItem), NEW a1 \in Seq(WItem), Match(r1, a1),
           NEW r2 \in Seq(RItem), NEW a2 \in Seq(WItem), Match(r2, a2)
    PROVE  Match(r1 \o r2, a1 \o a2)
<1>1. PICK n \in Nat : n = Len(r1) /\ n = Len(a1)
    BY LenProperties DEF Match
<1>2. PICK m \in Nat : m = Len(r2) /\ m = Len(a2)
    BY LenProperties DEF Match
<1>3. PICK r, a : r = r1 \o r2 /\ a = a1 \o a2
    OBVIOUS
<1>4. /\ Len(r) = n + m
      /\ \A i \in 1 .. n + m : r[i] = IF i <= n THEN r1[i] ELSE r2[i - n]
  <2>1. r = r1 \o r2 /\ n = Len(r1) /\ m = Len(r2)
      BY <1>1, <1>2, <1>3
  <2>. QED  BY <2>1, JoinIs
<1>5. /\ Len(a) = n + m
      /\ \A i \in 1 .. n + m : a[i] = IF i <= n THEN a1[i] ELSE a2[i - n]
  <2>1. a = a1 \o a2 /\ n = Len(a1) /\ m = Len(a2)
      BY <1>1, <1>2, <1>3
  <2>. QED  BY <2>1, JoinIs
<1>6. ASSUME NEW i \in 1 .. n + m PROVE Fits(r[i], a[i])
  <2>1. CASE i <= n
    <3>1. i \in 1 .. n /\ r[i] = r1[i] /\ a[i] = a1[i]
        BY <1>4, <1>5, <2>1
    <3>. QED  BY <1>1, <3>1 DEF Match
  <2>2. CASE i > n
    <3>1. PICK j \in 1 .. m : j = i - n
        BY <2>2
    <3>2. r[i] = r2[j] /\ a[i] = a2[j]
        BY <1>4, <1>5, <2>2, <3>1
    <3>. QED  BY <1>2, <3>2 DEF Match
  <2>. QED  BY <2>1, <2>2
<1>. QED  BY <1>3, <1>4, <1>5, <1>6 DEF Match

LEMMA MatchPush ==
    ASSUME NEW x \in RItem, NEW y \in WItem, Fits(x, y),
           NEW r \in Seq(RItem), NEW a \in Seq(WItem), Match(r, a)
    PROVE  Match(Push(x, r), Push(y, a))
<1>1. PICK r1 : r1 = <<x>>
    OBVIOUS
<1>2. PICK a1 : a1 = <<y>>
    OBVIOUS
<1>3. r1 \in Seq(RItem) /\ Len(r1) = 1 /\ r1[1] = x
    BY <1>1
<1>4. a1 \in Seq(WItem) /\ Len(a1) = 1 /\ a1[1] = y
    BY <1>2
<1>5. Match(r1, a1)
    BY <1>3, <1>4 DEF Match
<1>6. Match(r1 \o r, a1 \o a)
    BY <1>3, <1>4, <1>5, MatchJoin
<1>. QED  BY <1>1, <1>2, <1>6 DEF Push

(* What the reader has to do.                                               *)
LEMMA RItems ==
    /\ \A t \in Goals : Item(t, TRUE) \in RItem
    /\ \A t \in Types : Levels(Item(t, TRUE)) = 0
    /\ \A x \in Words : Item(<<x>>, FALSE) \in RItem
    /\ \A x : x # "fields" => Levels(Item(<<x>>, FALSE)) = 0
<1>1. ASSUME NEW t \in Goals PROVE Item(t, TRUE) \in RItem
  <2>1. t \in Seq(Words)
      BY GoalIs
  <2>. QED  BY <2>1 DEF RItem, Item
<1>2. ASSUME NEW t \in Types PROVE Levels(Item(t, TRUE)) = 0
  <2>1. Levels(Value(t)) = 0
      BY WItems
  <2>. QED  BY <2>1 DEF Levels, Kind, Item, Value
<1>3. ASSUME NEW x \in Words PROVE Item(<<x>>, FALSE) \in RItem
  <2>1. <<x>> \in Seq(Words)
      OBVIOUS
  <2>. QED  BY <2>1 DEF RItem, Item
<1>4. ASSUME NEW x, x # "fields" PROVE Levels(Item(<<x>>, FALSE)) = 0
  <2>1. Head(<<x>>) = x
      OBVIOUS
  <2>. QED  BY <1>4, <2>1 DEF Levels, Kind, Item
<1>. QED  BY <1>1, <1>2, <1>3, <1>4

LEMMA RItemIs ==
    ASSUME NEW r \in RItem
    PROVE  /\ r.known \in BOOLEAN
           /\ r.known => r.type \in Goals /\ Kind(r) = r.type[1]
           /\ ~r.known => Kind(r) \in Words /\ r.type = <<Kind(r)>>
           /\ r.known /\ Kind(r) \in {"struct", "fields"} => RecordParts(r.type)
           /\ r.known /\ Kind(r) = "list" => ListParts(r.type)
           /\ r.known /\ Kind(r) = "map" => MapParts(r.type)
<1>1. r.known \in BOOLEAN
    BY DEF RItem
<1>2. ASSUME r.known
      PROVE  /\ r.type \in Goals /\ Kind(r) = r.type[1]
             /\ Kind(r) \in {"struct", "fields"} => RecordParts(r.type)
             /\ Kind(r) = "list" => ListParts(r.type)
             /\ Kind(r) = "map" => MapParts(r.type)
  <2>1. r.type \in Goals
      BY <1>2 DEF RItem
  <2>2. PICK g \in Goals : g = r.type
      BY <2>1
  <2>3. Kind(r) = g[1]
      BY <2>2, GoalIs DEF Kind
  <2>4. g[1] = "fields" => RecordParts(g)
      BY GoalIs
  <2>5. g[1] # "fields" => g \in Types
      BY GoalIs
  <2>6. /\ g[1] = "struct" => RecordParts(g)
        /\ g[1] = "list" => ListParts(g)
        /\ g[1] = "map" => MapParts(g)
      BY <2>5, TypeIs
  <2>. QED  BY <2>2, <2>3, <2>4, <2>6
<1>3. ASSUME ~r.known PROVE Kind(r) \in Words /\ r.type = <<Kind(r)>>
  <2>1. PICK x \in Words : r.type = <<x>>
      BY <1>3 DEF RItem
  <2>2. Kind(r) = x
      BY <2>1, SomeSeqs DEF Kind
  <2>. QED  BY <2>1, <2>2
<1>. QED  BY <1>1, <1>2, <1>3

(* The word that is read from a header or a container.                       *)
LEMMA WordRead ==
    ASSUME NEW x \in Nibbles
    PROVE  /\ ToTType(x) \in Words /\ ToTType(x) # "fields"
           /\ Item(<<ToTType(x)>>, FALSE) \in RItem
           /\ Levels(Item(<<ToTType(x)>>, FALSE)) = 0
<1>1. ToTType(x) \in TTypes \cup {"none"}
    BY DEF ToTType, Nibbles, Bools, TTypes
<1>2. ToTType(x) \in Words /\ ToTType(x) # "fields"
    BY <1>1, WordsAre DEF TTypes
<1>. QED  BY <1>2, RItems

LEMMA FitsKind ==
    ASSUME NEW r \in RItem, NEW y \in WItem, Fits(r, y)
    PROVE  Kind(r) = Kind(y) /\ (r.known => r.type = y.type)
<1>1. CASE r.known
    BY <1>1 DEF Fits, Kind
<1>2. CASE ~r.known
  <2>1. r.type = <<Kind(y)>>
      BY <1>2 DEF Fits
  <2>2. Kind(r) = Kind(y)
      BY <2>1, SomeSeqs DEF Kind
  <2>. QED  BY <1>2, <2>2
<1>. QED  BY <1>1, <1>2

LEMMA Joined == ASSUME NEW a, NEW b PROVE <<a>> \o <<b>> = <<a, b>>
<1> DEFINE S == {a, b}
<1>1. PICK s : s = <<a>>
    OBVIOUS
<1>2. PICK t : t = <<b>>
    OBVIOUS
<1>3. PICK u : u = <<a, b>>
    OBVIOUS
<1>4. s \in Seq(S) /\ Len(s) = 1 /\ s[1] = a
    BY <1>1
<1>5. t \in Seq(S) /\ Len(t) = 1 /\ t[1] = b
    BY <1>2
<1>6. u \in Seq(S) /\ Len(u) = 2 /\ u[1] = a /\ u[2] = b
    BY <1>3
<1> HIDE DEF S
<1>7. PICK v : v = s \o t
    OBVIOUS
<1>8. /\ v \in Seq(S) /\ Len(v) = 2
      /\ \A i \in 1 .. 2 : v[i] = IF i <= 1 THEN s[i] ELSE t[i - 1]
    BY <1>4, <1>5, <1>7, ConcatProperties
<1>9. v[1] = a /\ v[2] = b
    BY <1>4, <1>5, <1>8
<1>10. \A i \in 1 .. 2 : v[i] = u[i]
  <2>1. \A i \in 1 .. 2 : i = 1 \/ i = 2
      OBVIOUS
  <2>. QED  BY <1>6, <1>9, <2>1
<1>11. v = u
    BY <1>6, <1>8, <1>10, SeqEqual
<1>. QED  BY <1>1, <1>2, <1>3, <1>7, <1>11

(* A struct that is begun.                                                  *)
Begun(r) == [r EXCEPT !.type = <<"fields">> \o Tail(@)]

LEMMA BegunType ==
    ASSUME NEW S, NEW T, NEW r \in [type : S, known : T]
    PROVE  Begun(r) = [type |-> <<"fields">> \o Tail(r.type), known |-> r.known]
<1>1. PICK s : s = <<"fields">> \o Tail(r.type)
    OBVIOUS
<1>2. [r EXCEPT !.type = s] = [type |-> s, known |-> r.known]
    OBVIOUS
<1>. QED  BY <1>1, <1>2 DEF Begun

LEMMA BegunIs ==
    ASSUME NEW r \in RItem, Kind(r) = "struct"
    PROVE  /\ Begun(r) \in RItem /\ Levels(Begun(r)) = 1
           /\ \A y \in WItem : Fits(r, y) => Fits(Begun(r), Fields(y.type[2], 1))
<1>1. r.known \in BOOLEAN /\ r \in [type : Seq(Words), known : BOOLEAN]
    BY DEF RItem
<1>2. PICK t : t = <<"fields">> \o Tail(r.type)
    OBVIOUS
<1>3. Begun(r).type = t /\ Begun(r).known = r.known /\ Begun(r) = Item(t, r.known)
  <2>1. Begun(r) = [type |-> <<"fields">> \o Tail(r.type), known |-> r.known]
      BY <1>1, BegunType
  <2>. QED  BY <1>2, <2>1 DEF Item
<1>4. CASE r.known
  <2>1. RecordParts(r.type) /\ r.type \in Goals /\ Kind(r) = r.type[1]
      BY <1>4, RItemIs
  <2>2. PICK s \in DOMAIN Structs : s = r.type[2] /\ r.type = <<"struct", s>>
      BY <2>1 DEF RecordParts
  <2>3. Tail(<<"struct", s>>) = <<s>>
      OBVIOUS
  <2>4. t = <<"fields", s>>
      BY <1>2, <2>2, <2>3, Joined
  <2>5. Begun(r) = Item(t, TRUE)
      BY <1>1, <1>3, <1>4
  <2>6. Begun(r) \in RItem
      BY <2>4, <2>5, RItems DEF Goals
  <2>7. Kind(Begun(r)) = "fields"
      BY <1>3, <2>4, SomeSeqs DEF Kind
  <2>8. ASSUME NEW y \in WItem, Fits(r, y) PROVE Fits(Begun(r), Fields(y.type[2], 1))
    <3>1. y.type = r.type
        BY <1>4, <2>8 DEF Fits
    <3>. QED  BY <1>3, <1>4, <2>2, <2>4, <3>1 DEF Fits, Fields
  <2>. QED  BY <2>6, <2>7, <2>8 DEF Levels
<1>5. CASE ~r.known
  <2>1. r.type = <<"struct">>
      BY <1>5, RItemIs
  <2>2. Tail(<<"struct">>) = << >> /\ <<"fields">> \o << >> = <<"fields">>
      OBVIOUS
  <2>3. t = <<"fields">>
      BY <1>2, <2>1, <2>2
  <2>4. Begun(r) = Item(<<"fields">>, FALSE)
      BY <1>1, <1>3, <1>5, <2>3
  <2>5. Begun(r) \in RItem
      BY <2>4, RItems, WordsAre
  <2>6. Kind(Begun(r)) = "fields"
      BY <1>3, <2>3, SomeSeqs DEF Kind
  <2>7. ASSUME NEW y PROVE Fits(Begun(r), Fields(y.type[2], 1))
    <3>1. Kind(Fields(y.type[2], 1)) = "fields"
        BY SomeSeqs DEF Kind, Fields
    <3>. QED  BY <1>3, <1>5, <2>3, <3>1 DEF Fits
  <2>. QED  BY <2>5, <2>6, <2>7 DEF Levels
<1>. QED  BY <1>1, <1>4, <1>5

(* What the reader takes the value of a field for.                           *)
LEMMA LookupIs ==
    ASSUME NEW item \in RItem, Kind(item) = "fields", NEW id,
           NEW f, f \in Lookup(item, id)
    PROVE  /\ item.known /\ item.type[2] \in DOMAIN Structs
           /\ f \in FieldsOf(item.type[2]) /\ f.id = id /\ f.type \in Types
<1>1. item.known /\ f \in FieldsOf(item.type[2]) /\ f.id = id
    BY DEF Lookup
<1>2. item.type[2] \in DOMAIN Structs
    BY <1>1, RItemIs DEF RecordParts
<1>3. f.type \in Types
    BY <1>1, <1>2, TypesAre
<1>. QED  BY <1>1, <1>2, <1>3

LEMMA ValueIs ==
    ASSUME NEW item \in RItem, Kind(item) = "fields", NEW id, NEW type \in Nibbles
    PROVE  FieldValue(item, id, type) \in RItem /\ Levels(FieldValue(item, id, type)) = 0
<1>1. CASE Lookup(item, id) = {}
    BY <1>1, WordRead DEF FieldValue
<1>2. CASE Lookup(item, id) # {}
  <2>1. PICK f \in Lookup(item, id) : f = CHOOSE g \in Lookup(item, id) : TRUE
      BY <1>2
  <2>2. f.type \in Types
      BY <2>1, LookupIs
  <2>3. FieldValue(item, id, type) = Item(f.type, TRUE)
      BY <1>2, <2>1 DEF FieldValue
  <2>4. f.type \in Goals
      BY <2>2 DEF Goals
  <2>. QED  BY <2>2, <2>3, <2>4, RItems
<1>. QED  BY <1>1, <1>2

LEMMA KindOfValue == ASSUME NEW t \in Types PROVE Kind(Value(t)) = t[1]
<1>1. t \in Goals
    BY DEF Goals
<1>2. Head(t) = t[1]
    BY <1>1, GoalIs
<1>. QED  BY <1>2 DEF Kind, Value

LEMMA ValueFits ==
    ASSUME OneTypePerId, NEW item \in RItem, NEW y \in WItem, Fits(item, y), Kind(item) = "fields",
           NEW f \in FieldsOf(y.type[2]), y.type[2] \in DOMAIN Structs,
           NEW type, ToTType(type) = f.type[1]
    PROVE  Fits(FieldValue(item, f.id, type), Value(f.type))
<1>1. f.type \in Types
    BY TypesAre
<1>2. CASE Lookup(item, f.id) = {}
  <2>1. FieldValue(item, f.id, type) = Item(<<f.type[1]>>, FALSE)
      BY <1>2 DEF FieldValue
  <2>. QED  BY <1>1, <2>1, KindOfValue DEF Fits, Item
<1>3. CASE Lookup(item, f.id) # {}
  <2>1. PICK g \in Lookup(item, f.id) : g = CHOOSE h \in Lookup(item, f.id) : TRUE
      BY <1>3
  <2>2. item.known /\ g \in FieldsOf(item.type[2]) /\ g.id = f.id
      BY <2>1, LookupIs
  <2>3. item.type = y.type
      BY <2>2 DEF Fits
  <2>4. g.type = f.type
      BY <2>2, <2>3 DEF OneTypePerId
  <2>5. FieldValue(item, f.id, type) = Item(g.type, TRUE)
      BY <1>3, <2>1 DEF FieldValue
  <2>. QED  BY <2>4, <2>5 DEF Fits, Item, Value
<1>. QED  BY <1>2, <1>3

(* The items of a container.                                                *)
RCopies(n, elem, known)     == [k \in 1 .. n |-> Item(elem, known)]
RPairs(n, key, val, known) ==
    [k \in 1 .. 2 * n |-> Item(IF k % 2 = 1 THEN key ELSE val, known)]

Flat(items) == \A i \in 1 .. Len(items) : Levels(items[i]) = 0

LEMMA RCopiesAre ==
    ASSUME NEW n \in Nat, NEW elem, NEW known,
           Item(elem, known) \in RItem, Levels(Item(elem, known)) = 0
    PROVE  /\ RCopies(n, elem, known) \in Seq(RItem) /\ Flat(RCopies(n, elem, known))
           /\ \A t \in Types : (n # 0 => Fits(Item(elem, known), Value(t)))
                                 => Match(RCopies(n, elem, known), Copies(n, t))
<1>1. PICK v : v = Item(elem, known)
    OBVIOUS
<1>2. PICK c : c = [k \in 1 .. n |-> v]
    OBVIOUS
<1>3. c = RCopies(n, elem, known) /\ v \in RItem /\ Levels(v) = 0
    BY <1>1, <1>2 DEF RCopies
<1>4. c \in Seq(RItem) /\ Len(c) = n /\ \A i \in 1 .. n : c[i] = v
    BY <1>2, <1>3
<1>5. Flat(c)
    BY <1>3, <1>4 DEF Flat
<1>6. ASSUME NEW t \in Types, n # 0 => Fits(v, Value(t)) PROVE Match(c, Copies(n, t))
  <2>1. Len(Copies(n, t)) = n /\ \A i \in 1 .. n : Copies(n, t)[i] = Value(t)
      BY CopiesAre
  <2>2. ASSUME NEW i \in 1 .. n PROVE Fits(c[i], Copies(n, t)[i])
      BY <1>4, <1>6, <2>1
  <2>. QED  BY <1>4, <2>1, <2>2 DEF Match
<1>. QED  BY <1>1, <1>3, <1>4, <1>5, <1>6

LEMMA RPairsAre ==
    ASSUME NEW n \in Nat, NEW key, NEW val, NEW known,
           n # 0 => Item(key, known) \in RItem /\ Item(val, known) \in RItem,
           n # 0 => Levels(Item(key, known)) = 0 /\ Levels(Item(val, known)) = 0
    PROVE  /\ RPairs(n, key, val, known) \in Seq(RItem) /\ Flat(RPairs(n, key, val, known))
           /\ \A t, u \in Types :
                (n # 0 => Fits(Item(key, known), Value(t)) /\ Fits(Item(val, known), Value(u)))
                  => Match(RPairs(n, key, val, known), Pairs(n, t, u))
<1>1. PICK m \in Nat : m = 2 * n
    OBVIOUS
<1>2. PICK c : c = [k \in 1 .. m |-> Item(IF k % 2 = 1 THEN key ELSE val, known)]
    OBVIOUS
<1>3. c = RPairs(n, key, val, known)
    BY <1>1, <1>2 DEF RPairs
<1>4. ASSUME NEW k \in 1 .. m
      PROVE  /\ c[k] = IF k % 2 = 1 THEN Item(key, known) ELSE Item(val, known)
             /\ c[k] \in RItem /\ Levels(c[k]) = 0 /\ n # 0
  <2>1. n # 0 /\ c[k] = Item(IF k % 2 = 1 THEN key ELSE val, known)
      BY <1>1, <1>2
  <2>2. CASE k % 2 = 1
      BY <2>1, <2>2
  <2>3. CASE k % 2 # 1
      BY <2>1, <2>3
  <2>. QED  BY <2>2, <2>3
<1>5. c \in Seq(RItem) /\ Len(c) = m
    BY <1>2, <1>4
<1>6. Flat(c)
    BY <1>4, <1>5 DEF Flat
<1>7. ASSUME NEW t \in Types, NEW u \in Types,
             n # 0 => Fits(Item(key, known), Value(t)) /\ Fits(Item(val, known), Value(u))
      PROVE  Match(c, Pairs(n, t, u))
  <2>1. /\ Len(Pairs(n, t, u)) = m
        /\ \A i \in 1 .. m : Pairs(n, t, u)[i] = Value(IF i % 2 = 1 THEN t ELSE u)
      BY <1>1, PairsAre
  <2>2. ASSUME NEW i \in 1 .. m PROVE Fits(c[i], Pairs(n, t, u)[i])
    <3>1. CASE i % 2 = 1
        BY <1>4, <1>7, <2>1, <3>1
    <3>2. CASE i % 2 # 1
        BY <1>4, <1>7, <2>1, <3>2
    <3>. QED  BY <3>1, <3>2
  <2>. QED  BY <1>5, <2>1, <2>2 DEF Match
<1>. QED  BY <1>3, <1>5, <1>6, <1>7

-----------------------------------------------------------------------------
(* The reader is at the place p, before a call with the tokens e to e2 that    *)
(* ends at q.                                                               *)
Faces(tr, cnt, pts, p, q, e, e2) ==
    /\ p = Len(seen) /\ p \in Nat /\ q = p + Width(e.tok) /\ q \in pts /\ q <= Len(out)
    /\ e \in Written /\ e2 \in Written /\ e = out[p + 1] /\ e2 = out[q]
    /\ tr[p] \in Seq(WItem) /\ tr[p] # << >> /\ Leads(e, e2, tr[p], tr[q])
    /\ cnt[p] \in Nat /\ Gives(e.tok, given, cnt[p], cnt[q])
    /\ Match(rtodo, tr[p]) /\ Len(got) = cnt[p] /\ GotRight

LEMMA WriterDone ==
    ASSUME NEW a \in Seq(WItem), WriterAt(a), wtodo = << >>
    PROVE  a = << >>
<1>1. ASSUME PutOff(a) PROVE FALSE
  <2>1. PICK f \in FieldsOf(Head(a).type[2]), k \in Nat :
          wtodo = Push(Value(<<"bool">>), Push(Fields(Head(a).type[2], k), Tail(a)))
      BY <1>1 DEF PutOff
  <2>2. a # << >> /\ Kind(Head(a)) = "fields"
      BY <1>1 DEF PutOff
  <2>3. Tail(a) \in Seq(WItem) /\ Head(a).type[2] \in DOMAIN Structs
      BY <2>2, FirstIs DEF RecordParts
  <2>4. Fields(Head(a).type[2], k) \in WItem /\ Value(<<"bool">>) \in WItem
      BY <2>3, WItems, SimpleTypes
  <2>5. Push(Fields(Head(a).type[2], k), Tail(a)) \in Seq(WItem)
      BY <2>3, <2>4, PushSeq
  <2>. QED  BY <2>1, <2>4, <2>5, PushIs
<1>. QED  BY <1>1 DEF WriterAt

LEMMA NextFaced ==
    ASSUME NEW tr, NEW cnt, NEW pts, Both(tr, cnt, pts), ~Astray,
           wtodo = << >>, rtodo # << >>, rbool = "none"
    PROVE  \E p, q, e, e2 : Faces(tr, cnt, pts, p, q, e, e2)
<1>1. /\ Trace(out, given, tr, cnt, pts) /\ WriterAt(tr[Len(out)]) /\ ReaderAt(tr, cnt, pts)
      /\ rtodo \in Seq(RItem) /\ out \in Seq(Written)
    BY DEF Both, Synced, ItemsInv, Inv, WriterInv
<1>2. PICK n \in Nat : n = Len(out)
    BY <1>1, LenProperties
<1>3. PICK p : p = Len(seen)
    OBVIOUS
<1>4. p \in pts /\ Match(rtodo, tr[p]) /\ Len(got) = cnt[p] /\ GotRight
    BY <1>1, <1>3 DEF ReaderAt, InStep
<1>5. p \in 0 .. n
    BY <1>1, <1>2, <1>4 DEF Trace
<1>6. tr[p] \in Seq(WItem) /\ cnt[p] \in Nat
  <2>1. tr \in [Nat -> Seq(WItem)] /\ cnt \in [Nat -> Nat]
      BY <1>1 DEF Trace
  <2>2. p \in Nat
      BY <1>5
  <2>. QED  BY <2>1, <2>2
<1>7. tr[p] # << >>
    BY <1>1, <1>4, <1>6, MatchHead
<1>8. tr[n] = << >>
    BY <1>1, <1>2, WriterDone DEF Both
<1>9. p # n
    BY <1>7, <1>8
<1>10. PICK q : q = After(out, p)
    OBVIOUS
<1>11. q \in pts /\ Goes(out, given, tr, cnt, p, q)
    BY <1>1, <1>2, <1>4, <1>9, <1>10 DEF Trace
<1>12. PICK e : e = out[p + 1]
    OBVIOUS
<1>13. PICK e2 : e2 = out[q]
    OBVIOUS
<1>14. PICK d \in {1, 2} : d = Width(e.tok)
    BY WidthIs
<1>15. q = p + d /\ q \in 1 .. n /\ p + 1 \in 1 .. n
  <2>1. q = p + d
      BY <1>10, <1>12, <1>14 DEF After
  <2>2. q \in 0 .. n
      BY <1>1, <1>2, <1>11 DEF Trace
  <2>. QED  BY <1>5, <1>9, <2>1, <2>2
<1>16. e \in Written /\ e2 \in Written
    BY <1>1, <1>2, <1>12, <1>13, <1>15, ElementOfSeq
<1>17. Leads(e, e2, tr[p], tr[q]) /\ Gives(e.tok, given, cnt[p], cnt[q])
    BY <1>11, <1>12, <1>13 DEF Goes
<1>18. p \in Nat /\ q <= Len(out) /\ q = p + Width(e.tok)
    BY <1>2, <1>5, <1>14, <1>15
<1>19. Faces(tr, cnt, pts, p, q, e, e2)
    BY <1>3, <1>4, <1>6, <1>7, <1>11, <1>12, <1>13, <1>16, <1>17, <1>18 DEF Faces
<1>. QED  BY <1>19

LEMMA FacedTokens ==
    ASSUME NEW tr, NEW cnt, NEW pts, NEW p, NEW q, NEW e, NEW e2,
           Faces(tr, cnt, pts, p, q, e, e2), Len(out) \in Nat
    PROVE  /\ Tok(1) = e.tok /\ e.tok \in Tokens /\ e2.tok \in Tokens
           /\ Width(e.tok) = 2 => Tok(2) = e2.tok
           /\ Len(seen) + Width(e.tok) <= Len(out) /\ Len(seen) + 1 <= Len(out)
<1>1. PICK d \in {1, 2} : d = Width(e.tok)
    BY WidthIs
<1>2. p = Len(seen) /\ p \in Nat /\ q = p + d /\ q <= Len(out)
    BY <1>1 DEF Faces
<1>3. Tok(1) = e.tok
    BY <1>2 DEF Tok, Faces
<1>4. d = 2 => Tok(2) = e2.tok
    BY <1>2 DEF Tok, Faces
<1>5. e.tok \in Tokens /\ e2.tok \in Tokens
    BY DEF Faces, Written
<1>6. p + d <= Len(out) /\ p + 1 <= Len(out)
    BY <1>2
<1>. QED  BY <1>1, <1>2, <1>3, <1>4, <1>5, <1>6

LEMMA FacedItems ==
    ASSUME NEW tr, NEW cnt, NEW pts, NEW p, NEW q, NEW e, NEW e2,
           Faces(tr, cnt, pts, p, q, e, e2), rtodo \in Seq(RItem), rtodo # << >>
    PROVE  /\ Head(rtodo) \in RItem /\ Tail(rtodo) \in Seq(RItem)
           /\ Head(tr[p]) \in WItem /\ Tail(tr[p]) \in Seq(WItem)
           /\ Fits(Head(rtodo), Head(tr[p])) /\ Match(Tail(rtodo), Tail(tr[p]))
           /\ Kind(Head(tr[p])) = Kind(Head(rtodo))
<1>1. tr[p] \in Seq(WItem) /\ tr[p] # << >> /\ Match(rtodo, tr[p])
    BY DEF Faces
<1>2. Head(rtodo) \in RItem /\ Tail(rtodo) \in Seq(RItem)
    BY HeadTailProperties
<1>3. Head(tr[p]) \in WItem /\ Tail(tr[p]) \in Seq(WItem)
    BY <1>1, FirstIs
<1>4. Fits(Head(rtodo), Head(tr[p])) /\ Match(Tail(rtodo), Tail(tr[p]))
    BY <1>1, MatchHead
<1>. QED  BY <1>2, <1>3, <1>4, FitsKind

(* The kind of the first thing to do tells the call.                         *)
LEMMA LeadsBy ==
    ASSUME NEW e, NEW e2, NEW a, NEW b, Leads(e, e2, a, b)
    PROVE  /\ Kind(Head(a)) = "struct" => LeadsBegin(e, a, b)
           /\ Kind(Head(a)) = "fields" => LeadsStop(e, a, b) \/ LeadsHeader(e, a, b)
           /\ Kind(Head(a)) = "bool" => LeadsBool(e, a, b)
           /\ Kind(Head(a)) = "scalar" => LeadsScalar(e, a, b)
           /\ Kind(Head(a)) = "list" => LeadsList(e, e2, a, b)
           /\ Kind(Head(a)) = "map" => LeadsMap(e, e2, a, b)
           /\ Kind(Head(a)) \in {"struct", "fields", "bool", "scalar", "list", "map"}
BY DEF Leads, LeadsBegin, LeadsStop, LeadsHeader, LeadsBool, LeadsScalar, LeadsList, LeadsMap

(* A boolean is in hand only when one is to be read.                         *)
LEMMA NothingInHand ==
    ASSUME NEW tr, NEW cnt, NEW pts, Both(tr, cnt, pts), ~Astray,
           NEW t, t # "bool", Reads(t)
    PROVE  rbool = "none"
<1>1. SUFFICES ASSUME rbool # "none" PROVE FALSE
    OBVIOUS
<1>2. Head(rtodo).type = <<"bool">>
    BY <1>1 DEF Both, Synced, ReaderAt, InStep
<1>3. Head(Head(rtodo).type) = "bool"
    BY <1>2, SomeSeqs
<1>. QED  BY <1>3 DEF Reads

LEMMA FacedBy ==
    ASSUME NEW tr, NEW cnt, NEW pts, Both(tr, cnt, pts), ~Astray, NEW t, Reads(t),
           t # "bool" \/ rbool = "none"
    PROVE  \E p, q, e, e2 :
             /\ Faces(tr, cnt, pts, p, q, e, e2) /\ Kind(Head(tr[p])) = t
             /\ rbool = "none" /\ rtodo # << >> /\ rtodo \in Seq(RItem)
<1>1. rbool = "none"
    BY NothingInHand
<1>2. wtodo = << >> /\ rtodo # << >> /\ Kind(Head(rtodo)) = t
    BY DEF Reads, Kind
<1>3. rtodo \in Seq(RItem)
    BY DEF Both, ItemsInv
<1>4. PICK p, q, e, e2 : Faces(tr, cnt, pts, p, q, e, e2)
    BY <1>1, <1>2, NextFaced
<1>5. Kind(Head(tr[p])) = t
    BY <1>2, <1>3, <1>4, FacedItems
<1>. QED  BY <1>1, <1>2, <1>3, <1>4, <1>5

(* What the reader has done after a call.                                    *)
Moves(tok, b) ==
    IF tok.kind # "bool" /\ IsBool(tok)
    THEN /\ got' = got /\ rbool' = tok.type /\ tok.type \in Bools
         /\ rtodo' # << >> /\ Head(rtodo').type = <<"bool">> /\ Match(Tail(rtodo'), b)
    ELSE /\ rbool' = "none" /\ Match(rtodo', b)
         /\ got' = IF IsBool(tok) THEN Append(got, tok.type) ELSE got

LEMMA Moved ==
    ASSUME NEW tr, NEW cnt, NEW pts, Both(tr, cnt, pts), UNCHANGED writer,
           NEW p, NEW q, NEW e, NEW e2, Faces(tr, cnt, pts, p, q, e, e2),
           Len(seen') = q, Moves(e.tok, tr[q])
    PROVE  ReaderAt(tr, cnt, pts)'
<1>1. /\ q \in pts /\ cnt[p] \in Nat /\ Gives(e.tok, given, cnt[p], cnt[q])
      /\ Len(got) = cnt[p] /\ GotRight /\ given' = given
    BY DEF Faces, writer
<1>2. got \in Seq(Bools) /\ Len(got) \in Nat
    BY LenProperties DEF Both, ItemsInv
<1>3. CASE e.tok.kind # "bool" /\ IsBool(e.tok)
  <2>1. /\ got' = got /\ rbool' = e.tok.type /\ e.tok.type \in Bools
        /\ rtodo' # << >> /\ Head(rtodo').type = <<"bool">> /\ Match(Tail(rtodo'), tr[q])
      BY <1>3 DEF Moves
  <2>2. cnt[q] = cnt[p] + 1 /\ given[cnt[q]] = e.tok.type
      BY <1>1, <1>3 DEF Gives
  <2>3. rbool' # "none"
      BY <2>1 DEF Bools
  <2>4. PICK a, c : a = tr[q] /\ c = cnt[q]
      OBVIOUS
  <2>5. InStep(a, c)'
      BY <1>1, <2>1, <2>2, <2>3, <2>4 DEF InStep
  <2>6. GotRight'
      BY <1>1, <2>1 DEF GotRight
  <2>. QED  BY <1>1, <2>4, <2>5, <2>6 DEF ReaderAt
<1>4. CASE IsBool(e.tok) /\ e.tok.kind = "bool"
  <2>1. rbool' = "none" /\ Match(rtodo', tr[q]) /\ got' = Append(got, e.tok.type)
      BY <1>4 DEF Moves
  <2>2. cnt[q] = cnt[p] + 1 /\ given[cnt[q]] = e.tok.type
      BY <1>1, <1>4 DEF Gives
  <2>3. PICK x \in Bools : x = e.tok.type
    <3>1. BoolsOnly(out) /\ out \in Seq(Written)
        BY DEF Both, ItemsInv, Inv, WriterInv
    <3>2. Len(out) \in Nat
        BY <3>1, LenProperties
    <3>3. p \in Nat /\ e = out[p + 1] /\ p + 1 <= Len(out)
        BY <3>2, FacedTokens DEF Faces
    <3>. QED  BY <1>4, <3>1, <3>2, <3>3 DEF BoolsOnly
  <2>4. /\ Len(got') = Len(got) + 1 /\ got'[Len(got) + 1] = x
        /\ \A i \in 1 .. Len(got) : got'[i] = got[i]
      BY <1>2, <2>1, <2>3, AppendProperties
  <2>5. PICK a, c : a = tr[q] /\ c = cnt[q]
      OBVIOUS
  <2>6. InStep(a, c)'
      BY <1>1, <2>1, <2>2, <2>4, <2>5 DEF InStep
  <2>7. ASSUME NEW k \in 1 .. Len(got) + 1 PROVE got'[k] = given[k]
    <3>1. CASE k = Len(got) + 1
        BY <1>1, <2>2, <2>3, <2>4, <3>1
    <3>2. CASE k # Len(got) + 1
      <4>1. k \in 1 .. Len(got)
          BY <1>2, <3>2
      <4>. QED  BY <1>1, <2>4, <4>1 DEF GotRight
    <3>. QED  BY <3>1, <3>2
  <2>8. GotRight'
      BY <1>1, <2>4, <2>7 DEF GotRight
  <2>. QED  BY <1>1, <2>5, <2>6, <2>8 DEF ReaderAt
<1>5. CASE ~IsBool(e.tok)
  <2>1. rbool' = "none" /\ Match(rtodo', tr[q]) /\ got' = got
      BY <1>5 DEF Moves
  <2>2. cnt[q] = cnt[p]
      BY <1>1, <1>5 DEF Gives
  <2>3. PICK a, c : a = tr[q] /\ c = cnt[q]
      OBVIOUS
  <2>4. InStep(a, c)'
      BY <1>1, <2>1, <2>2, <2>3 DEF InStep
  <2>5. GotRight'
      BY <1>1, <2>1 DEF GotRight
  <2>. QED  BY <1>1, <2>3, <2>4, <2>5 DEF ReaderAt
<1>. QED  BY <1>3, <1>4, <1>5

LEMMA ReadKeeps ==
    ASSUME NEW tr, NEW cnt, NEW pts, Both(tr, cnt, pts), UNCHANGED writer,
           ~Astray' => ~garbled' /\ ReaderAt(tr, cnt, pts)'
    PROVE  SyncInv'
<1>1. Trace(out, given, tr, cnt, pts)' /\ WriterAt(tr[Len(out)])'
  <2>1. Trace(out, given, tr, cnt, pts) /\ WriterAt(tr[Len(out)])
      BY DEF Both, Synced
  <2>2. UNCHANGED <<wtodo, wlast, pending, out, given>>
      BY DEF writer
  <2>. QED  BY <2>1, <2>2 DEF WriterAt, PutOff
<1>2. Synced(tr, cnt, pts)'
    BY <1>1 DEF Synced
<1>. QED  BY <1>2 DEF SyncInv

-----------------------------------------------------------------------------
(* The actions of the reader.                                               *)
LEMMA TakeLen ==
    ASSUME Inv, NEW n \in {1, 2}, Take(n)
    PROVE  Len(seen') = Len(seen) + n
<1>1. n \in Nat
    OBVIOUS
<1>2. PICK t \in Seq(Nat) : t = [k \in 1 .. n |-> 0] /\ Len(t) = n
    BY <1>1, Zeros
<1>3. seen' = seen \o t /\ seen \in Seq(Nat)
    BY <1>2 DEF Take, Inv, ReaderInv, ReaderTypes
<1>4. PICK m \in Nat : m = Len(seen)
    BY <1>3, LenProperties
<1>5. Len(seen \o t) = m + n
    BY <1>1, <1>2, <1>3, <1>4, JoinIs
<1>. QED  BY <1>3, <1>4, <1>5

LEMMA Depths ==
    ASSUME Inv, ItemsInv
    PROVE  /\ rtodo \in Seq(RItem) /\ rlast \in Seq(Nat) /\ Len(rlast) \in Nat
           /\ DepthOK(rtodo, Len(rlast)) /\ rlast # << >>
           /\ got \in Seq(Bools) /\ rbool \in Bools \cup {"none"} /\ garbled \in BOOLEAN
           /\ Len(out) \in Nat
<1>1. PICK n \in Nat : n = Len(rlast)
    BY LenProperties DEF Inv, ReaderInv, ReaderTypes
<1>2. PICK d \in [1 .. Len(rtodo) + 1 -> Nat] : d[1] = n /\ Descends(rtodo, d)
    BY <1>1 DEF ItemsInv, DepthOK
<1>3. Len(rtodo) \in Nat
    BY LenProperties DEF ItemsInv
<1>4. d[1] >= 1
    BY <1>2, <1>3 DEF Descends
<1>5. rlast # << >>
    BY <1>1, <1>2, <1>4, EmptySeq DEF Inv, ReaderInv, ReaderTypes
<1>6. Len(out) \in Nat
    BY LenProperties DEF Inv, WriterInv
<1>. QED  BY <1>1, <1>5, <1>6 DEF ItemsInv, Inv, ReaderInv, ReaderTypes

LEMMA ItemsKept ==
    ASSUME ItemsInv, UNCHANGED writer, rtodo' \in Seq(RItem), DepthOK(rtodo', Len(rlast')),
           got' \in Seq(Bools), rbool' \in Bools \cup {"none"}, garbled' \in BOOLEAN
    PROVE  ItemsInv'
BY DEF ItemsInv, writer

LEMMA BeginRead ==
    ASSUME Inv, SyncInv, ItemsInv, ReadStructBegin
    PROVE  SyncInv' /\ ItemsInv'
<1>1. PICK tr, cnt, pts : Both(tr, cnt, pts)
    BY Unfold
<1>2. PICK r : r = Head(rtodo)
    OBVIOUS
<1>3. /\ rtodo \in Seq(RItem) /\ rtodo # << >> /\ r \in RItem /\ Tail(rtodo) \in Seq(RItem)
      /\ Kind(r) = "struct" /\ Reads("struct") /\ ~garbled
    BY <1>2, HeadTailProperties DEF ReadStructBegin, Reads, Kind, ItemsInv
<1>4. Begun(r) \in RItem /\ Levels(Begun(r)) = 1
    BY <1>3, BegunIs
<1>5. /\ rtodo' = Push(Begun(r), Tail(rtodo)) /\ rlast' = Push(0, rlast) /\ Take(1)
      /\ UNCHANGED <<rbool, garbled, got, misled, writer>>
    BY <1>2 DEF ReadStructBegin, Begun
<1>6. ItemsInv'
  <2>1. PICK n \in Nat : n = Len(rlast)
      BY Depths
  <2>2. DepthOK(Tail(rtodo), n)
    <3>1. DepthOK(rtodo, n) /\ Kind(Head(rtodo)) # "fields"
        BY <1>2, <1>3, <2>1, Depths
    <3>. QED  BY <1>3, <3>1, TopDropped
  <2>3. DepthOK(rtodo', n + 1) /\ rtodo' \in Seq(RItem)
      BY <1>3, <1>4, <1>5, <2>2, PushDepth, PushSeq
  <2>4. Len(rlast') = n + 1
      BY <1>5, <2>1, Depths, StackSizes
  <2>5. garbled' \in BOOLEAN
      BY <1>5, Depths, Zenon
  <2>6. got' \in Seq(Bools) /\ rbool' \in Bools \cup {"none"} /\ UNCHANGED writer
      BY <1>5, Depths
  <2>7. DepthOK(rtodo', Len(rlast'))
      BY <2>3, <2>4
  <2>. QED  BY <2>3, <2>5, <2>6, <2>7, ItemsKept
<1>7. ASSUME ~Astray' PROVE ~garbled' /\ ReaderAt(tr, cnt, pts)'
  <2>1. ~Astray /\ ~garbled'
      BY <1>3, <1>5, <1>7 DEF Astray
  <2>2. PICK p, q, e, e2 :
          /\ Faces(tr, cnt, pts, p, q, e, e2) /\ Kind(Head(tr[p])) = "struct"
          /\ rbool = "none"
    <3>1. "struct" # "bool"
        OBVIOUS
    <3>. QED  BY <1>1, <1>3, <2>1, <3>1, FacedBy
  <2>3. PICK a, b : a \in Seq(WItem) /\ a = tr[p] /\ b = tr[q]
      BY <2>2 DEF Faces
  <2>4. a # << >> /\ LeadsBegin(e, a, b)
      BY <2>2, <2>3, LeadsBy DEF Faces
  <2>5. Width(e.tok) = 1 /\ ~IsBool(e.tok)
      BY <2>4 DEF LeadsBegin, Width, IsBool
  <2>6. Len(seen') = q
      BY <1>5, <2>2, <2>5, TakeLen DEF Faces
  <2>7. Head(a) \in WItem /\ Fits(r, Head(a)) /\ Match(Tail(rtodo), Tail(a)) /\ Tail(a) \in Seq(WItem)
      BY <1>2, <1>3, <2>2, <2>3, FacedItems
  <2>8. Fields(Head(a).type[2], 1) \in WItem
    <3>1. Head(a).type[2] \in DOMAIN Structs
        BY <2>2, <2>3, <2>4, FirstIs DEF RecordParts
    <3>. QED  BY <3>1, WItems
  <2>9. Fits(Begun(r), Fields(Head(a).type[2], 1))
      BY <1>3, <2>7, BegunIs
  <2>10. Match(rtodo', b)
    <3>1. b = Push(Fields(Head(a).type[2], 1), Tail(a))
        BY <2>4 DEF LeadsBegin
    <3>. QED  BY <1>3, <1>4, <1>5, <2>7, <2>8, <2>9, <3>1, MatchPush
  <2>11. Moves(e.tok, tr[q])
      BY <1>5, <2>2, <2>3, <2>5, <2>10 DEF Moves
  <2>. QED  BY <1>1, <1>5, <2>1, <2>2, <2>6, <2>11, Moved
<1>. QED  BY <1>1, <1>5, <1>6, <1>7, ReadKeeps

(* A call that leaves the reader the rest of what it had to do.               *)
Rest ==
    /\ Inv /\ ItemsInv /\ rtodo # << >> /\ UNCHANGED writer
    /\ Kind(Head(rtodo)) # "fields" /\ UNCHANGED <<rlast, garbled>>
    /\ got' \in Seq(Bools) /\ rbool' \in Bools \cup {"none"}

LEMMA RestItems ==
    ASSUME Rest, rtodo' = Tail(rtodo)
    PROVE  ItemsInv'
<1>1. /\ Inv /\ ItemsInv /\ rtodo # << >> /\ UNCHANGED writer /\ Kind(Head(rtodo)) # "fields"
      /\ rlast' = rlast /\ garbled' = garbled
      /\ got' \in Seq(Bools) /\ rbool' \in Bools \cup {"none"}
    BY DEF Rest
<1>2. PICK n : n = Len(rlast)
    OBVIOUS
<1>3. rtodo \in Seq(RItem) /\ DepthOK(rtodo, n) /\ garbled \in BOOLEAN
    BY <1>1, <1>2, Depths
<1>4. rtodo' \in Seq(RItem)
    BY <1>1, <1>3, HeadTailProperties
<1>5. DepthOK(rtodo', n)
    BY <1>1, <1>3, TopDropped
<1>6. DepthOK(rtodo', Len(rlast'))
    BY <1>1, <1>2, <1>5
<1>7. garbled' \in BOOLEAN
    BY <1>1, <1>3, Zenon
<1>. QED  BY <1>1, <1>4, <1>6, <1>7, ItemsKept

LEMMA JoinedItems ==
    ASSUME Rest, NEW items \in Seq(RItem), Flat(items), rtodo' = items \o Tail(rtodo)
    PROVE  ItemsInv'
<1>1. /\ Inv /\ ItemsInv /\ rtodo # << >> /\ UNCHANGED writer /\ Kind(Head(rtodo)) # "fields"
      /\ rlast' = rlast /\ garbled' = garbled
      /\ got' \in Seq(Bools) /\ rbool' \in Bools \cup {"none"}
    BY DEF Rest
<1>2. PICK n : n = Len(rlast)
    OBVIOUS
<1>3. rtodo \in Seq(RItem) /\ DepthOK(rtodo, n) /\ garbled \in BOOLEAN
    BY <1>1, <1>2, Depths
<1>4. PICK rest \in Seq(RItem) : rest = Tail(rtodo)
    BY <1>1, <1>3, HeadTailProperties
<1>5. DepthOK(rest, n)
    BY <1>1, <1>3, <1>4, TopDropped
<1>6. DepthOK(items \o rest, n)
    BY <1>5, JoinDepth DEF Flat
<1>7. rtodo' \in Seq(RItem)
    BY <1>4, ConcatProperties
<1>8. DepthOK(rtodo', Len(rlast'))
    BY <1>1, <1>2, <1>4, <1>6
<1>9. garbled' \in BOOLEAN
    BY <1>1, <1>3, Zenon
<1>. QED  BY <1>1, <1>7, <1>8, <1>9, ItemsKept

LEMMA StopRead ==
    ASSUME Inv, SyncInv, ItemsInv, ReadFieldStop
    PROVE  SyncInv' /\ ItemsInv'
<1>1. PICK tr, cnt, pts : Both(tr, cnt, pts)
    BY Unfold
<1>2. /\ rtodo \in Seq(RItem) /\ rtodo # << >> /\ Tail(rtodo) \in Seq(RItem)
      /\ Kind(Head(rtodo)) = "fields" /\ Reads("fields") /\ ~garbled
    BY HeadTailProperties DEF ReadFieldStop, Reads, Kind, ItemsInv
<1>3. /\ rtodo' = Tail(rtodo) /\ rlast' = Pop(rlast) /\ Take(1) /\ Comes(<<"stop">>)
      /\ UNCHANGED <<rbool, garbled, got, misled, writer>>
    BY DEF ReadFieldStop
<1>4. ItemsInv'
  <2>1. PICK n \in Nat : n = Len(rlast)
      BY Depths
  <2>2. DepthOK(Tail(rtodo), n - 1)
    <3>1. DepthOK(rtodo, n)
        BY <2>1, Depths
    <3>. QED  BY <1>2, <3>1, TopDropped
  <2>3. Len(rlast') = n - 1
      BY <1>3, <2>1, Depths, StackSizes
  <2>4. DepthOK(rtodo', Len(rlast'))
      BY <1>3, <2>2, <2>3
  <2>5. garbled' \in BOOLEAN
      BY <1>3, Depths, Zenon
  <2>6. got' \in Seq(Bools) /\ rbool' \in Bools \cup {"none"} /\ UNCHANGED writer
      BY <1>3, Depths
  <2>. QED  BY <1>2, <1>3, <2>4, <2>5, <2>6, ItemsKept
<1>5. ASSUME ~Astray' PROVE ~garbled' /\ ReaderAt(tr, cnt, pts)'
  <2>1. ~Astray /\ ~garbled'
      BY <1>2, <1>3, <1>5 DEF Astray
  <2>2. PICK p, q, e, e2 :
          /\ Faces(tr, cnt, pts, p, q, e, e2) /\ Kind(Head(tr[p])) = "fields"
          /\ rbool = "none"
    <3>1. "fields" # "bool"
        OBVIOUS
    <3>. QED  BY <1>1, <1>2, <2>1, <3>1, FacedBy
  <2>3. PICK a, b : a \in Seq(WItem) /\ a = tr[p] /\ b = tr[q]
      BY <2>2 DEF Faces
  <2>4. e.tok.kind = "stop"
    <3>1. Tok(1).kind = "stop"
        BY <1>3, ComesOne
    <3>2. Tok(1) = e.tok
        BY <2>2, Depths, FacedTokens
    <3>. QED  BY <3>1, <3>2
  <2>5. LeadsStop(e, a, b)
    <3>1. LeadsStop(e, a, b) \/ LeadsHeader(e, a, b)
        BY <2>2, <2>3, LeadsBy DEF Faces
    <3>. QED  BY <2>4, <3>1 DEF LeadsHeader
  <2>6. Width(e.tok) = 1 /\ ~IsBool(e.tok)
      BY <2>4 DEF Width, IsBool
  <2>7. Len(seen') = q
      BY <1>3, <2>2, <2>6, TakeLen DEF Faces
  <2>8. Match(rtodo', b)
    <3>1. Match(Tail(rtodo), Tail(a))
        BY <1>2, <2>2, <2>3, FacedItems
    <3>. QED  BY <1>3, <2>5, <3>1 DEF LeadsStop
  <2>9. Moves(e.tok, tr[q])
      BY <1>3, <2>2, <2>3, <2>6, <2>8 DEF Moves
  <2>. QED  BY <1>1, <1>3, <2>1, <2>2, <2>7, <2>9, Moved
<1>. QED  BY <1>1, <1>3, <1>4, <1>5, ReadKeeps

LEMMA ScalarRead ==
    ASSUME Inv, SyncInv, ItemsInv, ReadScalar
    PROVE  SyncInv' /\ ItemsInv'
<1>1. PICK tr, cnt, pts : Both(tr, cnt, pts)
    BY Unfold
<1>2. /\ rtodo \in Seq(RItem) /\ rtodo # << >>
      /\ Kind(Head(rtodo)) = "scalar" /\ Reads("scalar") /\ ~garbled
    BY DEF ReadScalar, Reads, Kind, ItemsInv
<1>3. /\ rtodo' = Tail(rtodo) /\ Take(1)
      /\ UNCHANGED <<rlast, rbool, garbled, got, misled, writer>>
    BY DEF ReadScalar
<1>4. ItemsInv'
  <2>1. got' \in Seq(Bools) /\ rbool' \in Bools \cup {"none"}
      BY <1>3, Depths
  <2>2. Rest
      BY <1>2, <1>3, <2>1 DEF Rest
  <2>. QED  BY <1>3, <2>2, RestItems
<1>5. ASSUME ~Astray' PROVE ~garbled' /\ ReaderAt(tr, cnt, pts)'
  <2>1. ~Astray /\ ~garbled'
      BY <1>2, <1>3, <1>5 DEF Astray
  <2>2. PICK p, q, e, e2 :
          /\ Faces(tr, cnt, pts, p, q, e, e2) /\ Kind(Head(tr[p])) = "scalar"
          /\ rbool = "none"
    <3>1. "scalar" # "bool"
        OBVIOUS
    <3>. QED  BY <1>1, <1>2, <2>1, <3>1, FacedBy
  <2>3. PICK a, b : a = tr[p] /\ b = tr[q]
      OBVIOUS
  <2>4. LeadsScalar(e, a, b)
      BY <2>2, <2>3, LeadsBy DEF Faces
  <2>5. Width(e.tok) = 1 /\ ~IsBool(e.tok)
      BY <2>4 DEF LeadsScalar, Width, IsBool
  <2>6. Len(seen') = q
      BY <1>3, <2>2, <2>5, TakeLen DEF Faces
  <2>7. Match(rtodo', b)
    <3>1. Match(Tail(rtodo), Tail(a))
        BY <1>2, <2>2, <2>3, FacedItems
    <3>. QED  BY <1>3, <2>4, <3>1 DEF LeadsScalar
  <2>8. Moves(e.tok, tr[q])
      BY <1>3, <2>2, <2>3, <2>5, <2>7 DEF Moves
  <2>. QED  BY <1>1, <1>3, <2>1, <2>2, <2>6, <2>8, Moved
<1>. QED  BY <1>1, <1>3, <1>4, <1>5, ReadKeeps

(* The boolean of a header is taken from the reader's hand.                   *)
LEMMA BoolInHand ==
    ASSUME NEW tr, NEW cnt, NEW pts, Both(tr, cnt, pts), ~Astray, UNCHANGED <<seen, writer>>,
           rbool # "none", rbool' = "none", rtodo' = Tail(rtodo), got' = Append(got, rbool)
    PROVE  ReaderAt(tr, cnt, pts)'
<1>1. PICK a, c : a = tr[Len(seen)] /\ c = cnt[Len(seen)]
    OBVIOUS
<1>2. /\ Len(seen) \in pts /\ GotRight /\ Match(Tail(rtodo), a)
      /\ Len(got) + 1 = c /\ given[c] = rbool
    BY <1>1 DEF Both, Synced, ReaderAt, InStep
<1>3. got \in Seq(Bools) /\ rbool \in Bools
    BY DEF Both, ItemsInv
<1>4. PICK n \in Nat : n = Len(got)
    BY <1>3, LenProperties
<1>5. Len(got') = n + 1 /\ got'[n + 1] = rbool /\ \A i \in 1 .. n : got'[i] = got[i]
    BY <1>3, <1>4, AppendProperties
<1>6. seen' = seen /\ given' = given
    BY DEF writer
<1>7. Len(got') = c
    BY <1>2, <1>4, <1>5
<1>8. InStep(a, c)'
    BY <1>2, <1>7 DEF InStep
<1>9. ASSUME NEW k \in 1 .. n + 1 PROVE got'[k] = given[k]
  <2>1. CASE k = n + 1
    <3>1. c = n + 1
        BY <1>2, <1>4
    <3>. QED  BY <1>2, <1>5, <2>1, <3>1
  <2>2. CASE k # n + 1
    <3>1. k \in 1 .. n
        BY <2>2
    <3>. QED  BY <1>2, <1>4, <1>5, <3>1 DEF GotRight
  <2>. QED  BY <2>1, <2>2
<1>10. GotRight'
    BY <1>5, <1>6, <1>9 DEF GotRight
<1>. QED  BY <1>1, <1>2, <1>6, <1>8, <1>10 DEF ReaderAt

LEMMA BoolRead ==
    ASSUME Inv, SyncInv, ItemsInv, ReadBool
    PROVE  SyncInv' /\ ItemsInv'
<1>1. PICK tr, cnt, pts : Both(tr, cnt, pts)
    BY Unfold
<1>2. /\ rtodo \in Seq(RItem) /\ rtodo # << >>
      /\ Kind(Head(rtodo)) = "bool" /\ Reads("bool") /\ ~garbled
    BY DEF ReadBool, Reads, Kind, ItemsInv
<1>3. rtodo' = Tail(rtodo) /\ UNCHANGED <<rlast, garbled, misled, writer>>
    BY DEF ReadBool
<1>4. got \in Seq(Bools) /\ rbool \in Bools \cup {"none"}
    BY Depths
<1>5. CASE rbool # "none"
  <2>1. got' = Append(got, rbool) /\ rbool' = "none" /\ seen' = seen
      BY <1>5 DEF ReadBool
  <2>2. got' \in Seq(Bools)
      BY <1>4, <1>5, <2>1, AppendProperties
  <2>3. ItemsInv'
    <3>1. Rest
        BY <1>2, <1>3, <2>1, <2>2 DEF Rest
    <3>. QED  BY <1>3, <3>1, RestItems
  <2>4. ASSUME ~Astray' PROVE ~garbled' /\ ReaderAt(tr, cnt, pts)'
    <3>1. ~Astray /\ ~garbled'
        BY <1>2, <1>3, <2>4 DEF Astray
    <3>. QED  BY <1>1, <1>3, <1>5, <2>1, <3>1, BoolInHand
  <2>. QED  BY <1>1, <1>3, <2>3, <2>4, ReadKeeps
<1>6. CASE rbool = "none"
  <2>1. Comes(<<"bool">>) /\ Take(1) /\ got' = Append(got, Tok(1).type) /\ rbool' = "none"
      BY <1>6 DEF ReadBool
  <2>2. Tok(1).kind = "bool" /\ Len(seen) + 1 <= Len(out)
      BY <2>1, ComesOne
  <2>3. Tok(1).type \in Bools
    <3>1. PICK n \in Nat : n = Len(seen)
        BY LenProperties DEF Inv, ReaderInv, ReaderTypes
    <3>2. BoolsOnly(out) /\ Tok(1) = out[n + 1].tok /\ n + 1 \in 1 .. Len(out)
        BY <2>2, <3>1, Depths DEF ItemsInv, Tok
    <3>. QED  BY <2>2, <3>2 DEF BoolsOnly
  <2>4. got' \in Seq(Bools)
      BY <1>4, <2>1, <2>3, AppendProperties
  <2>5. ItemsInv'
    <3>1. Rest
        BY <1>2, <1>3, <2>1, <2>4 DEF Rest
    <3>. QED  BY <1>3, <3>1, RestItems
  <2>6. ASSUME ~Astray' PROVE ~garbled' /\ ReaderAt(tr, cnt, pts)'
    <3>1. ~Astray /\ ~garbled'
        BY <1>2, <1>3, <2>6 DEF Astray
    <3>2. PICK p, q, e, e2 :
            Faces(tr, cnt, pts, p, q, e, e2) /\ Kind(Head(tr[p])) = "bool"
        BY <1>1, <1>2, <1>6, <3>1, FacedBy
    <3>3. PICK a, b : a = tr[p] /\ b = tr[q]
        OBVIOUS
    <3>4. LeadsBool(e, a, b)
        BY <3>2, <3>3, LeadsBy DEF Faces
    <3>5. Width(e.tok) = 1 /\ IsBool(e.tok) /\ e.tok.kind = "bool"
        BY <3>4 DEF LeadsBool, Width, IsBool
    <3>6. Len(seen') = q
        BY <2>1, <3>2, <3>5, TakeLen DEF Faces
    <3>7. Match(rtodo', b)
      <4>1. Match(Tail(rtodo), Tail(a))
          BY <1>2, <3>2, <3>3, FacedItems
      <4>. QED  BY <1>3, <3>4, <4>1 DEF LeadsBool
    <3>8. Tok(1) = e.tok
        BY <3>2, Depths, FacedTokens
    <3>9. Moves(e.tok, tr[q])
        BY <2>1, <3>3, <3>5, <3>7, <3>8 DEF Moves
    <3>. QED  BY <1>1, <1>3, <3>1, <3>2, <3>6, <3>9, Moved
  <2>. QED  BY <1>1, <1>3, <2>5, <2>6, ReadKeeps
<1>. QED  BY <1>5, <1>6

(* The header of a field, and the value that follows it.                      *)
LEMMA SameStruct ==
    ASSUME NEW r \in RItem, NEW y \in WItem, Fits(r, y), Kind(y) = "fields", NEW k \in Nat
    PROVE  /\ y.type[2] \in DOMAIN Structs /\ Fields(y.type[2], k) \in WItem
           /\ Fits(r, Fields(y.type[2], k))
<1>1. y.type \in Goals
    BY DEF WItem
<1>2. y.type[1] = "fields"
    BY <1>1, GoalIs DEF Kind
<1>3. RecordParts(y.type)
    BY <1>1, <1>2, GoalIs
<1>4. PICK s \in DOMAIN Structs : s = y.type[2] /\ y.type = <<"fields", s>>
    BY <1>2, <1>3 DEF RecordParts
<1>5. Fields(s, k) \in WItem
    BY WItems
<1>6. Kind(Fields(s, k)) = "fields"
    BY SomeSeqs DEF Kind, Fields
<1>7. Fits(r, Fields(s, k))
  <2>1. CASE r.known
      BY <1>4, <2>1 DEF Fits, Fields
  <2>2. CASE ~r.known
      BY <1>6, <2>2 DEF Fits
  <2>. QED  BY <2>1, <2>2
<1>. QED  BY <1>4, <1>5, <1>7

LEMMA NibbleRead ==
    ASSUME NEW f, f.type \in Types, NEW e, NEW next, NEW rest, NEW b, Headed(e, f, next, rest, b)
    PROVE  /\ ToTType(e.tok.type) = f.type[1]
           /\ e.tok.type \in Bools <=> f.type = <<"bool">>
<1>1. CASE f.type = <<"bool">>
  <2>1. e.tok.type \in Bools
      BY <1>1 DEF Headed
  <2>2. <<"bool">>[1] = "bool"
      OBVIOUS
  <2>. QED  BY <1>1, <2>1, <2>2 DEF ToTType
<1>2. CASE f.type # <<"bool">>
  <2>1. e.tok.type = FromTType(f.type[1])
      BY <1>2 DEF Headed
  <2>. QED  BY <1>2, <2>1, NibbleBack
<1>. QED  BY <1>1, <1>2

LEMMA HeaderItems ==
    ASSUME Inv, ItemsInv, Reads("fields"), Len(seen) + 1 <= Len(out),
           NEW id \in Nat, NEW last \in Nat, ReadHeader(id, last)
    PROVE  /\ ItemsInv' /\ Len(seen') = Len(seen) + 1 /\ seen'[Len(seen) + 1] = id
           /\ FieldValue(Head(rtodo), id, Tok(1).type) \in RItem
<1>1. PICK r \in RItem : r = Head(rtodo)
    BY HeadTailProperties DEF Reads, ItemsInv
<1>2. Kind(r) = "fields" /\ rtodo \in Seq(RItem)
    BY <1>1 DEF Reads, Kind, ItemsInv
<1>3. PICK type \in Nibbles : type = Tok(1).type
  <2>1. Tok(1) \in Tokens
      BY TokenAt
  <2>. QED  BY <2>1 DEF Tokens
<1>4. PICK v : v = FieldValue(r, id, type)
    OBVIOUS
<1>5. v \in RItem /\ Levels(v) = 0
    BY <1>2, <1>4, ValueIs
<1>6. /\ seen' = seen \o <<id>> /\ rtodo' = Push(v, rtodo)
      /\ rlast' = Push(last, Tail(rlast)) /\ rbool' = IF type \in Bools THEN type ELSE rbool
      /\ UNCHANGED <<garbled, got, writer>>
    BY <1>1, <1>3, <1>4 DEF ReadHeader
<1>7. PICK n \in Nat : n = Len(rlast)
    BY Depths
<1>8. DepthOK(rtodo', n) /\ rtodo' \in Seq(RItem)
  <2>1. DepthOK(rtodo, n)
      BY <1>7, Depths
  <2>2. DepthOK(rtodo', n + Levels(v))
      BY <1>2, <1>5, <1>6, <2>1, PushDepth
  <2>3. n + Levels(v) = n
      BY <1>5
  <2>. QED  BY <1>2, <1>5, <1>6, <2>2, <2>3, PushSeq
<1>9. Len(rlast') = n
    BY <1>6, <1>7, Depths, StackSizes
<1>10. DepthOK(rtodo', Len(rlast'))
    BY <1>8, <1>9
<1>11. garbled' \in BOOLEAN
    BY <1>6, Depths, Zenon
<1>12. got' \in Seq(Bools) /\ rbool' \in Bools \cup {"none"}
    BY <1>6, Depths
<1>13. ItemsInv'
    BY <1>6, <1>8, <1>10, <1>11, <1>12, ItemsKept
<1>14. Len(seen') = Len(seen) + 1 /\ seen'[Len(seen) + 1] = id
  <2>1. seen \in Seq(Nat)
      BY DEF Inv, ReaderInv, ReaderTypes
  <2>2. PICK t : t = <<id>>
      OBVIOUS
  <2>3. t \in Seq(Nat) /\ Len(t) = 1 /\ t[1] = id
      BY <2>2
  <2>4. PICK m \in Nat : m = Len(seen)
      BY <2>1, LenProperties
  <2>5. PICK sn \in Seq(Nat) : sn = seen /\ m = Len(sn)
      BY <2>1, <2>4
  <2>6. PICK k \in Nat : k = 1
      OBVIOUS
  <2>7. PICK z \in Seq(Nat) : z = t
      BY <2>3
  <2>8. PICK u : u = sn \o z
      OBVIOUS
  <2>9. k = Len(z)
      BY <2>3, <2>6, <2>7
  <2>10. m = Len(sn)
      BY <2>5
  <2>11. Len(u) = m + k /\ \A i \in 1 .. m + k : u[i] = IF i <= m THEN sn[i] ELSE z[i - m]
    <3>1. u = sn \o z /\ k = Len(z) /\ m = Len(sn)
        BY <2>8, <2>9, <2>10
    <3>. QED  BY <3>1, JoinIs
  <2>12. u[m + 1] = id
      BY <2>3, <2>6, <2>7, <2>11
  <2>. QED  BY <1>6, <2>2, <2>4, <2>5, <2>6, <2>7, <2>8, <2>11, <2>12
<1>. QED  BY <1>1, <1>3, <1>4, <1>5, <1>13, <1>14

LEMMA HeaderRead ==
    ASSUME Inv, Inv', SyncInv, ItemsInv, Reads("fields"), Len(seen) + 1 <= Len(out),
           Tok(1).kind \in {"short", "long"}, misled => misled',
           NEW id \in Nat, NEW last \in Nat, ReadHeader(id, last)
    PROVE  SyncInv' /\ ItemsInv'
<1>1. PICK tr, cnt, pts : Both(tr, cnt, pts)
    BY Unfold
<1>2. PICK r \in RItem : r = Head(rtodo) /\ rtodo # << >> /\ ~garbled
    BY HeadTailProperties DEF Reads, ItemsInv
<1>3. PICK v : v = FieldValue(r, id, Tok(1).type)
    OBVIOUS
<1>4. /\ rtodo' = Push(v, rtodo) /\ rbool' = IF Tok(1).type \in Bools THEN Tok(1).type ELSE rbool
      /\ UNCHANGED <<garbled, got, writer>>
    BY <1>2, <1>3 DEF ReadHeader
<1>5. /\ ItemsInv' /\ v \in RItem
      /\ Len(seen') = Len(seen) + 1 /\ seen'[Len(seen) + 1] = id
    BY <1>2, <1>3, HeaderItems
<1>6. ASSUME ~Astray' PROVE ~garbled' /\ ReaderAt(tr, cnt, pts)'
  <2>1. ~Astray /\ ~garbled'
      BY <1>2, <1>4, <1>6 DEF Astray
  <2>2. PICK p, q, e, e2 :
          /\ Faces(tr, cnt, pts, p, q, e, e2) /\ Kind(Head(tr[p])) = "fields"
          /\ rbool = "none" /\ rtodo \in Seq(RItem)
    <3>1. "fields" # "bool"
        OBVIOUS
    <3>. QED  BY <1>1, <2>1, <3>1, FacedBy
  <2>3. PICK a, b : a \in Seq(WItem) /\ a = tr[p] /\ b = tr[q]
      BY <2>2 DEF Faces
  <2>4. Tok(1) = e.tok
      BY <2>2, Depths, FacedTokens
  <2>5. LeadsHeader(e, a, b)
    <3>1. LeadsStop(e, a, b) \/ LeadsHeader(e, a, b)
        BY <2>2, <2>3, LeadsBy DEF Faces
    <3>. QED  BY <2>4, <3>1 DEF LeadsStop
  <2>6. PICK y \in WItem : y = Head(a) /\ Kind(y) = "fields" /\ Fits(r, y)
      BY <1>2, <2>2, <2>3, FacedItems
  <2>7. PICK f \in FieldsOf(y.type[2]), k \in Nat :
          e.id = f.id /\ Headed(e, f, Fields(y.type[2], k), Tail(a), b)
      BY <2>5, <2>6 DEF LeadsHeader
  <2>8. PICK next \in WItem : next = Fields(y.type[2], k) /\ Fits(r, next)
      BY <2>6, SameStruct
  <2>9. f.type \in Types /\ y.type[2] \in DOMAIN Structs
      BY <2>6, <2>7, SameStruct, TypesAre
  <2>10. ToTType(e.tok.type) = f.type[1] /\ (e.tok.type \in Bools <=> f.type = <<"bool">>)
      BY <2>7, <2>9, NibbleRead
  <2>11. id = f.id
    <3>1. PICK n \in Nat : n = Len(seen)
        BY LenProperties DEF Inv, ReaderInv, ReaderTypes
    <3>2. SeenRight(seen', out')
        BY <1>6 DEF Inv, ReaderInv, Astray
    <3>3. n + 1 \in 1 .. Len(seen') /\ out' = out
        BY <1>4, <1>5, <3>1 DEF writer
    <3>4. seen'[n + 1] = out[n + 1].id
        BY <3>2, <3>3 DEF SeenRight
    <3>5. e = out[n + 1]
        BY <2>2, <3>1 DEF Faces
    <3>. QED  BY <1>5, <2>7, <3>1, <3>4, <3>5
  <2>12. Kind(r) = "fields"
      BY <2>6, FitsKind
  <2>13. Fits(v, Value(f.type))
      BY <1>3, <1>6, <2>4, <2>6, <2>9, <2>10, <2>11, <2>12, ValueFits DEF Astray
  <2>14. Match(rtodo, Push(next, Tail(a))) /\ Tail(a) \in Seq(WItem)
    <3>1. /\ Match(Tail(rtodo), Tail(a)) /\ Tail(a) \in Seq(WItem)
          /\ Tail(rtodo) \in Seq(RItem)
        BY <1>2, <2>2, <2>3, FacedItems
    <3>2. rtodo = Push(r, Tail(rtodo))
        BY <1>2, <2>2, PushHeadTail
    <3>3. Match(Push(r, Tail(rtodo)), Push(next, Tail(a)))
        BY <2>8, <3>1, MatchPush
    <3>. QED  BY <3>1, <3>2, <3>3
  <2>15. Width(e.tok) = 1 /\ e.tok.kind # "bool" /\ (IsBool(e.tok) <=> e.tok.type \in Bools)
      BY <2>5 DEF LeadsHeader, Width, IsBool
  <2>16. Len(seen') = q
      BY <1>5, <2>2, <2>15 DEF Faces
  <2>17. Moves(e.tok, b)
    <3>1. CASE f.type = <<"bool">>
      <4>1. b = Push(next, Tail(a)) /\ e.tok.type \in Bools
          BY <2>7, <2>8, <3>1 DEF Headed
      <4>2. v.type = <<"bool">>
        <5>1. CASE v.known
            BY <2>13, <3>1, <5>1 DEF Fits, Value
        <5>2. CASE ~v.known
            BY <2>13, <3>1, <5>2, SomeSeqs DEF Fits, Value, Kind
        <5>. QED  BY <5>1, <5>2
      <4>3. rtodo' # << >> /\ Head(rtodo') = v /\ Tail(rtodo') = rtodo
          BY <1>4, <1>5, <2>2, PushIs
      <4>4. got' = got /\ rbool' = e.tok.type
          BY <1>4, <2>4, <4>1
      <4>. QED  BY <2>14, <2>15, <4>1, <4>2, <4>3, <4>4 DEF Moves
    <3>2. CASE f.type # <<"bool">>
      <4>1. PICK rest : rest = Push(next, Tail(a))
          OBVIOUS
      <4>2. b = Push(Value(f.type), rest)
          BY <2>7, <2>8, <3>2, <4>1 DEF Headed
      <4>3. rest \in Seq(WItem) /\ Match(rtodo, rest)
          BY <2>14, <4>1, PushSeq
      <4>4. Value(f.type) \in WItem
          BY <2>9, WItems
      <4>5. Match(rtodo', b)
          BY <1>4, <1>5, <2>2, <2>13, <4>2, <4>3, <4>4, MatchPush
      <4>6. got' = got /\ rbool' = "none" /\ ~IsBool(e.tok)
          BY <1>4, <2>2, <2>4, <2>10, <2>15, <3>2
      <4>. QED  BY <4>5, <4>6 DEF Moves
    <3>. QED  BY <3>1, <3>2
  <2>18. Moves(e.tok, tr[q])
      BY <2>3, <2>17
  <2>19. UNCHANGED writer
      BY <1>4
  <2>. QED  BY <1>1, <2>1, <2>2, <2>16, <2>18, <2>19, Moved
<1>7. UNCHANGED writer
    BY <1>4
<1>. QED  BY <1>1, <1>5, <1>6, <1>7, ReadKeeps

LEMMA ShortHeaderRead ==
    ASSUME Inv, Inv', SyncInv, ItemsInv, ReadShortHeader
    PROVE  SyncInv' /\ ItemsInv'
<1>1. Len(seen) + 1 <= Len(out) /\ Tok(1).kind = "short" /\ Reads("fields")
    BY ComesOne DEF ReadShortHeader
<1>2. PICK id : id = Head(rlast) + Tok(1).n
    OBVIOUS
<1>3. id \in Nat
  <2>1. Tok(1).n \in Nat
    <3>1. Tok(1) \in Tokens
        BY <1>1, TokenAt
    <3>. QED  BY <3>1 DEF Tokens
  <2>2. Head(rlast) \in Nat
      BY Depths, HeadTailProperties
  <2>. QED  BY <1>2, <2>1, <2>2
<1>4. ReadHeader(id, id) /\ (misled => misled')
    BY <1>2 DEF ReadShortHeader
<1>. QED  BY <1>1, <1>3, <1>4, HeaderRead

LEMMA LongHeaderRead ==
    ASSUME Inv, Inv', SyncInv, ItemsInv, ReadLongHeader
    PROVE  SyncInv' /\ ItemsInv'
<1>1. Len(seen) + 1 <= Len(out) /\ Tok(1).kind = "long" /\ Reads("fields")
    BY ComesOne DEF ReadLongHeader
<1>2. PICK id, last : id = Tok(1).n /\ last = Head(rlast)
    OBVIOUS
<1>3. id \in Nat
  <2>1. Tok(1) \in Tokens
      BY <1>1, TokenAt
  <2>. QED  BY <1>2, <2>1 DEF Tokens
<1>4. last \in Nat
    BY <1>2, Depths, HeadTailProperties
<1>5. ReadHeader(id, last) /\ (misled => misled')
    BY <1>2 DEF ReadLongHeader
<1>. QED  BY <1>1, <1>3, <1>4, <1>5, HeaderRead

(* The parts of a container: those of the schema, or what the tokens name.     *)
LEMMA PartKnown ==
    ASSUME NEW t \in Types
    PROVE  /\ Item(t, TRUE) \in RItem /\ Levels(Item(t, TRUE)) = 0
           /\ Fits(Item(t, TRUE), Value(t))
<1>1. t \in Goals
    BY DEF Goals
<1>2. Fits(Item(t, TRUE), Value(t))
    BY DEF Fits, Item, Value
<1>. QED  BY <1>1, <1>2, RItems

LEMMA PartSkipped ==
    ASSUME NEW t \in Types
    PROVE  Fits(Item(<<ToTType(FromTType(t[1]))>>, FALSE), Value(t))
<1>1. ToTType(FromTType(t[1])) = t[1] /\ Kind(Value(t)) = t[1]
    BY NibbleBack, KindOfValue
<1>. QED  BY <1>1 DEF Fits, Item

LEMMA KeyIs ==
    ASSUME NEW x, <<x>> \in Types
    PROVE  Fits(Item(<<ToTType(FromTType(x))>>, FALSE), Value(<<x>>))
<1>1. PICK t \in Types : t = <<x>> /\ t[1] = x
    BY SomeSeqs
<1>. QED  BY <1>1, PartSkipped

(* What a list that is read has for elements.                                 *)
Elem(r) == IF r.known THEN Tail(r.type) ELSE <<ToTType(Tok(1).type)>>

ListSize == IF ListIsLong THEN Tok(2).n ELSE Tok(1).n

LEMMA ListRead ==
    ASSUME Inv, SyncInv, ItemsInv, ReadListBegin
    PROVE  SyncInv' /\ ItemsInv'
<1>1. PICK tr, cnt, pts : Both(tr, cnt, pts)
    BY Unfold
<1>2. PICK r \in RItem : r = Head(rtodo) /\ rtodo # << >> /\ rtodo \in Seq(RItem)
    BY HeadTailProperties DEF ReadListBegin, Reads, ItemsInv
<1>3. Kind(r) = "list" /\ Reads("list") /\ ~garbled
    BY <1>2 DEF ReadListBegin, Reads, Kind
<1>4. /\ rtodo' = RCopies(ListSize, Elem(r), r.known) \o Tail(rtodo)
      /\ Take(IF ListIsLong THEN 2 ELSE 1)
      /\ UNCHANGED <<rlast, rbool, garbled, got, misled, writer>>
    BY <1>2 DEF ReadListBegin, RCopies, Elem, ListSize
<1>5. Len(seen) + 1 <= Len(out) /\ Tok(1) \in Tokens /\ Tok(1).kind = "list"
  <2>1. Len(seen) + 1 <= Len(out) /\ Tok(1).kind = "list"
      BY ComesOne DEF ReadListBegin
  <2>. QED  BY <2>1, TokenAt
<1>6. PICK n \in Nat : n = ListSize
  <2>1. CASE ListIsLong
    <3>1. Len(seen) + 2 <= Len(out)
        BY <2>1, ComesTwo DEF ReadListBegin
    <3>2. Tok(2) \in Tokens
        BY <3>1, TokenAt
    <3>. QED  BY <2>1, <3>2 DEF Tokens, ListSize
  <2>2. CASE ~ListIsLong
      BY <1>5, <2>2 DEF Tokens, ListSize
  <2>. QED  BY <2>1, <2>2
<1>7. PICK type \in Nibbles : type = Tok(1).type
    BY <1>5 DEF Tokens
<1>8. PICK elem, known : elem = Elem(r) /\ known = r.known
    OBVIOUS
<1>9. r.known => elem = Tail(r.type) /\ elem \in Types /\ known = TRUE
  <2>1. ASSUME r.known PROVE ListParts(r.type) /\ known = TRUE
      BY <1>3, <1>8, <2>1, RItemIs
  <2>. QED  BY <1>8, <2>1 DEF Elem, ListParts
<1>10. ~r.known => elem = <<ToTType(type)>> /\ known = FALSE
    BY <1>2, <1>7, <1>8, RItemIs DEF Elem
<1>11. Item(elem, known) \in RItem /\ Levels(Item(elem, known)) = 0
    BY <1>9, <1>10, PartKnown, WordRead
<1>12. PICK items \in Seq(RItem) : items = RCopies(n, elem, known) /\ Flat(items)
    BY <1>11, RCopiesAre
<1>13. rtodo' = items \o Tail(rtodo)
    BY <1>4, <1>6, <1>8, <1>12
<1>14. ItemsInv'
  <2>1. got' \in Seq(Bools) /\ rbool' \in Bools \cup {"none"}
      BY <1>4, Depths
  <2>2. Rest
      BY <1>2, <1>3, <1>4, <2>1 DEF Rest
  <2>. QED  BY <1>12, <1>13, <2>2, JoinedItems
<1>15. ASSUME ~Astray' PROVE ~garbled' /\ ReaderAt(tr, cnt, pts)'
  <2>1. ~Astray /\ ~garbled'
      BY <1>3, <1>4, <1>15 DEF Astray
  <2>2. PICK p, q, e, e2 :
          /\ Faces(tr, cnt, pts, p, q, e, e2) /\ Kind(Head(tr[p])) = "list"
          /\ rbool = "none"
    <3>1. "list" # "bool"
        OBVIOUS
    <3>. QED  BY <1>1, <1>3, <2>1, <3>1, FacedBy
  <2>3. PICK a, b : a \in Seq(WItem) /\ a = tr[p] /\ b = tr[q]
      BY <2>2 DEF Faces
  <2>4. Tok(1) = e.tok /\ (Width(e.tok) = 2 => Tok(2) = e2.tok)
      BY <2>2, Depths, FacedTokens
  <2>5. LeadsList(e, e2, a, b) /\ a # << >>
      BY <2>2, <2>3, LeadsBy DEF Faces
  <2>6. (ListIsLong <=> Width(e.tok) = 2) /\ ~IsBool(e.tok)
      BY <1>5, <2>4 DEF ListIsLong, Width, IsBool
  <2>7. Width(e.tok) = IF ListIsLong THEN 2 ELSE 1
      BY <2>6, WidthIs
  <2>8. Len(seen') = q
    <3>1. PICK w \in {1, 2} : w = Width(e.tok)
        BY WidthIs
    <3>2. Take(w)
        BY <1>4, <2>7, <3>1
    <3>3. Len(seen') = Len(seen) + w
        BY <3>2, TakeLen
    <3>. QED  BY <2>2, <3>1, <3>3 DEF Faces
  <2>9. SizeOf(e, e2) = n
      BY <1>6, <2>4, <2>6 DEF SizeOf, ListSize
  <2>10. PICK y \in WItem : y = Head(a) /\ Fits(r, y)
      BY <1>2, <2>2, <2>3, FacedItems
  <2>11. PICK t \in Types : t = Tail(y.type)
      BY <2>2, <2>3, <2>5, <2>10, FirstIs DEF ListParts
  <2>12. b = Copies(n, t) \o Tail(a) /\ (n # 0 => type = FromTType(t[1]))
      BY <1>7, <2>4, <2>5, <2>9, <2>10, <2>11 DEF LeadsList
  <2>13. n # 0 => Fits(Item(elem, known), Value(t))
    <3>1. CASE r.known
      <4>1. elem = t
          BY <1>9, <2>10, <2>11, <3>1 DEF Fits
      <4>. QED  BY <1>9, <3>1, <4>1, PartKnown
    <3>2. CASE ~r.known
        BY <1>10, <2>12, <3>2, PartSkipped
    <3>. QED  BY <3>1, <3>2
  <2>14. Match(items, Copies(n, t)) /\ Copies(n, t) \in Seq(WItem)
      BY <1>11, <1>12, <2>13, RCopiesAre, CopiesAre
  <2>15. Match(rtodo', b)
    <3>1. /\ Match(Tail(rtodo), Tail(a)) /\ Tail(a) \in Seq(WItem)
          /\ Tail(rtodo) \in Seq(RItem)
        BY <1>2, <2>2, <2>3, FacedItems
    <3>. QED  BY <1>13, <2>12, <2>14, <3>1, MatchJoin
  <2>16. Moves(e.tok, tr[q])
      BY <1>4, <2>2, <2>3, <2>6, <2>15 DEF Moves
  <2>17. UNCHANGED writer
      BY <1>4
  <2>. QED  BY <1>1, <2>1, <2>2, <2>8, <2>16, <2>17, Moved
<1>16. UNCHANGED writer
    BY <1>4
<1>. QED  BY <1>1, <1>14, <1>15, <1>16, ReadKeeps

(* The keys and values of a map.                                             *)
KeyPart(r) == IF r.known THEN <<r.type[2]>> ELSE <<ToTType(Tok(2).key)>>
ValPart(r) == IF r.known THEN Tail(Tail(r.type)) ELSE <<ToTType(Tok(2).type)>>

LEMMA MapRead ==
    ASSUME Inv, SyncInv, ItemsInv, ReadMapBegin
    PROVE  SyncInv' /\ ItemsInv'
<1>1. PICK tr, cnt, pts : Both(tr, cnt, pts)
    BY Unfold
<1>2. PICK r \in RItem : r = Head(rtodo) /\ rtodo # << >> /\ rtodo \in Seq(RItem)
    BY HeadTailProperties DEF ReadMapBegin, Reads, ItemsInv
<1>3. Kind(r) = "map" /\ Reads("map") /\ ~garbled
    BY <1>2 DEF ReadMapBegin, Reads, Kind
<1>4. /\ rtodo' = RPairs(Tok(1).n, KeyPart(r), ValPart(r), r.known) \o Tail(rtodo)
      /\ Take(IF Tok(1).n = 0 THEN 1 ELSE 2)
      /\ UNCHANGED <<rlast, rbool, garbled, got, misled, writer>>
    BY <1>2 DEF ReadMapBegin, RPairs, KeyPart, ValPart
<1>5. Len(seen) + 1 <= Len(out) /\ Tok(1) \in Tokens /\ Tok(1).kind = "size"
  <2>1. Len(seen) + 1 <= Len(out) /\ Tok(1).kind = "size"
      BY ComesOne DEF ReadMapBegin
  <2>. QED  BY <2>1, TokenAt
<1>6. PICK n \in Nat : n = Tok(1).n
    BY <1>5 DEF Tokens
<1>7. PICK type, word : type = Tok(2).type /\ word = Tok(2).key
    OBVIOUS
<1>8. n # 0 => type \in Nibbles /\ word \in Nibbles
  <2>1. SUFFICES ASSUME n # 0 PROVE type \in Nibbles /\ word \in Nibbles
      OBVIOUS
  <2>2. Len(seen) + 2 <= Len(out)
      BY <1>6, <2>1, ComesTwo DEF ReadMapBegin
  <2>3. Tok(2) \in Tokens
      BY <2>2, TokenAt
  <2>. QED  BY <1>7, <2>3 DEF Tokens
<1>9. PICK key, val, known : key = KeyPart(r) /\ val = ValPart(r) /\ known = r.known
    OBVIOUS
<1>10. r.known => /\ key = <<r.type[2]>> /\ key \in Types
                  /\ val = Tail(Tail(r.type)) /\ val \in Types /\ known = TRUE
  <2>1. ASSUME r.known PROVE MapParts(r.type) /\ known = TRUE
      BY <1>3, <1>9, <2>1, RItemIs
  <2>. QED  BY <1>9, <2>1 DEF KeyPart, ValPart, MapParts
<1>11. ~r.known => key = <<ToTType(word)>> /\ val = <<ToTType(type)>> /\ known = FALSE
    BY <1>7, <1>9, RItemIs DEF KeyPart, ValPart
<1>12. n # 0 => Item(key, known) \in RItem /\ Item(val, known) \in RItem
    BY <1>8, <1>10, <1>11, PartKnown, WordRead
<1>13. n # 0 => Levels(Item(key, known)) = 0 /\ Levels(Item(val, known)) = 0
    BY <1>8, <1>10, <1>11, PartKnown, WordRead
<1>14. PICK items \in Seq(RItem) : items = RPairs(n, key, val, known) /\ Flat(items)
    BY <1>12, <1>13, RPairsAre
<1>15. rtodo' = items \o Tail(rtodo)
    BY <1>4, <1>6, <1>9, <1>14
<1>16. ItemsInv'
  <2>1. got' \in Seq(Bools) /\ rbool' \in Bools \cup {"none"}
      BY <1>4, Depths
  <2>2. Rest
      BY <1>2, <1>3, <1>4, <2>1 DEF Rest
  <2>. QED  BY <1>14, <1>15, <2>2, JoinedItems
<1>17. ASSUME ~Astray' PROVE ~garbled' /\ ReaderAt(tr, cnt, pts)'
  <2>1. ~Astray /\ ~garbled'
      BY <1>3, <1>4, <1>17 DEF Astray
  <2>2. PICK p, q, e, e2 :
          /\ Faces(tr, cnt, pts, p, q, e, e2) /\ Kind(Head(tr[p])) = "map"
          /\ rbool = "none"
    <3>1. "map" # "bool"
        OBVIOUS
    <3>. QED  BY <1>1, <1>3, <2>1, <3>1, FacedBy
  <2>3. PICK a, b : a \in Seq(WItem) /\ a = tr[p] /\ b = tr[q]
      BY <2>2 DEF Faces
  <2>4. Tok(1) = e.tok /\ (Width(e.tok) = 2 => Tok(2) = e2.tok)
      BY <2>2, Depths, FacedTokens
  <2>5. LeadsMap(e, e2, a, b) /\ a # << >>
      BY <2>2, <2>3, LeadsBy DEF Faces
  <2>6. (n # 0 <=> Width(e.tok) = 2) /\ ~IsBool(e.tok) /\ n = e.tok.n
      BY <1>5, <1>6, <2>4 DEF Width, IsBool
  <2>7. Width(e.tok) = IF n = 0 THEN 1 ELSE 2
      BY <2>6, WidthIs
  <2>8. Len(seen') = q
    <3>1. PICK w \in {1, 2} : w = Width(e.tok)
        BY WidthIs
    <3>2. Take(w)
        BY <1>4, <1>6, <2>7, <3>1
    <3>3. Len(seen') = Len(seen) + w
        BY <3>2, TakeLen
    <3>. QED  BY <2>2, <3>1, <3>3 DEF Faces
  <2>9. PICK y \in WItem : y = Head(a) /\ Fits(r, y)
      BY <1>2, <2>2, <2>3, FacedItems
  <2>10. PICK t, u : t = <<y.type[2]>> /\ u = Tail(Tail(y.type))
      OBVIOUS
  <2>11. t \in Types /\ u \in Types
      BY <2>2, <2>3, <2>5, <2>9, <2>10, FirstIs DEF MapParts
  <2>12. b = Pairs(n, t, u) \o Tail(a)
      BY <2>5, <2>6, <2>9, <2>10 DEF LeadsMap
  <2>13. n # 0 => word = FromTType(y.type[2]) /\ type = FromTType(u[1])
      BY <1>7, <2>4, <2>5, <2>6, <2>9, <2>10 DEF LeadsMap, PairTypes
  <2>14. n # 0 => Fits(Item(key, known), Value(t)) /\ Fits(Item(val, known), Value(u))
    <3>1. CASE r.known
      <4>1. key = t /\ val = u
          BY <1>10, <2>9, <2>10, <3>1 DEF Fits
      <4>. QED  BY <1>10, <2>11, <3>1, <4>1, PartKnown
    <3>2. CASE ~r.known
      <4>1. Fits(Item(<<ToTType(FromTType(y.type[2]))>>, FALSE), Value(t))
          BY <2>10, <2>11, KeyIs
      <4>2. Fits(Item(<<ToTType(FromTType(u[1]))>>, FALSE), Value(u))
          BY <2>11, PartSkipped
      <4>. QED  BY <1>11, <2>13, <3>2, <4>1, <4>2
    <3>. QED  BY <3>1, <3>2
  <2>15. Match(items, Pairs(n, t, u)) /\ Pairs(n, t, u) \in Seq(WItem)
      BY <1>12, <1>13, <1>14, <2>11, <2>14, RPairsAre, PairsAre
  <2>16. Match(rtodo', b)
    <3>1. /\ Match(Tail(rtodo), Tail(a)) /\ Tail(a) \in Seq(WItem)
          /\ Tail(rtodo) \in Seq(RItem)
        BY <1>2, <2>2, <2>3, FacedItems
    <3>. QED  BY <1>15, <2>12, <2>15, <3>1, MatchJoin
  <2>17. Moves(e.tok, tr[q])
      BY <1>4, <2>2, <2>3, <2>6, <2>16 DEF Moves
  <2>18. UNCHANGED writer
      BY <1>4
  <2>. QED  BY <1>1, <2>1, <2>2, <2>8, <2>17, <2>18, Moved
<1>18. UNCHANGED writer
    BY <1>4
<1>. QED  BY <1>1, <1>16, <1>17, <1>18, ReadKeeps

(* The bytes are what the reader expects, unless it is misled.                *)
LEMMA OneComes ==
    ASSUME NEW a, Len(seen) + 1 <= Len(out), Tok(1).kind = a
    PROVE  Comes(<<a>>)
<1>1. PICK kinds : kinds = <<a>>
    OBVIOUS
<1>2. Len(kinds) = 1 /\ DOMAIN kinds = {1} /\ kinds[1] = a
    BY <1>1
<1>3. Comes(kinds)
    BY <1>2 DEF Comes
<1>. QED  BY <1>1, <1>3

LEMMA TwoCome ==
    ASSUME NEW a, NEW b, Len(seen) + 2 <= Len(out), Tok(1).kind = a, Tok(2).kind = b
    PROVE  Comes(<<a, b>>)
<1>1. PICK kinds : kinds = <<a, b>>
    OBVIOUS
<1>2. Len(kinds) = 2 /\ DOMAIN kinds = {1, 2} /\ kinds[1] = a /\ kinds[2] = b
    BY <1>1
<1>3. Comes(kinds)
    BY <1>2 DEF Comes
<1>. QED  BY <1>1, <1>3

LEMMA BytesExpected ==
    ASSUME Inv, SyncInv, ItemsInv, ~Astray, wtodo = << >>, rtodo # << >>
    PROVE  Expected
<1>1. PICK tr, cnt, pts : Both(tr, cnt, pts)
    BY Unfold
<1>2. PICK t : t = Head(Head(rtodo).type)
    OBVIOUS
<1>3. CASE rbool # "none"
  <2>1. Head(rtodo).type = <<"bool">>
      BY <1>1, <1>3 DEF Both, Synced, ReaderAt, InStep
  <2>2. t = "bool"
      BY <1>2, <2>1, SomeSeqs
  <2>. QED  BY <1>2, <1>3, <2>2 DEF Expected
<1>4. CASE rbool = "none"
  <2>1. PICK p, q, e, e2 : Faces(tr, cnt, pts, p, q, e, e2)
      BY <1>1, <1>4, NextFaced
  <2>2. PICK a, b : a = tr[p] /\ b = tr[q]
      OBVIOUS
  <2>3. Kind(Head(a)) = t
    <3>1. rtodo \in Seq(RItem)
        BY Depths
    <3>. QED  BY <1>2, <2>1, <2>2, <3>1, FacedItems DEF Kind
  <2>4. Leads(e, e2, a, b)
      BY <2>1, <2>2 DEF Faces
  <2>5. /\ Tok(1) = e.tok /\ Len(seen) + 1 <= Len(out)
        /\ Width(e.tok) = 2 => Tok(2) = e2.tok
        /\ Len(seen) + Width(e.tok) <= Len(out)
      BY <2>1, Depths, FacedTokens
  <2>6. CASE t = "struct"
    <3>1. Tok(1).kind = "begin"
        BY <2>3, <2>4, <2>5, <2>6, LeadsBy DEF LeadsBegin
    <3>. QED  BY <1>2, <2>5, <2>6, <3>1, OneComes DEF Expected
  <2>7. CASE t = "fields"
    <3>1. Tok(1).kind = "stop" \/ Tok(1).kind = "short" \/ Tok(1).kind = "long"
        BY <2>3, <2>4, <2>5, <2>7, LeadsBy DEF LeadsStop, LeadsHeader
    <3>2. Comes(<<"stop">>) \/ Comes(<<"short">>) \/ Comes(<<"long">>)
        BY <2>5, <3>1, OneComes
    <3>3. rlast # << >>
        BY Depths
    <3>. QED  BY <1>2, <2>7, <3>2, <3>3 DEF Expected
  <2>8. CASE t = "bool"
    <3>1. Tok(1).kind = "bool"
        BY <2>3, <2>4, <2>5, <2>8, LeadsBy DEF LeadsBool
    <3>. QED  BY <1>2, <2>5, <2>8, <3>1, OneComes DEF Expected
  <2>9. CASE t = "scalar"
    <3>1. Tok(1).kind = "scalar"
        BY <2>3, <2>4, <2>5, <2>9, LeadsBy DEF LeadsScalar
    <3>. QED  BY <1>2, <2>5, <2>9, <3>1, OneComes DEF Expected
  <2>10. CASE t = "list"
    <3>1. LeadsList(e, e2, a, b)
        BY <2>3, <2>4, <2>10, LeadsBy
    <3>2. Tok(1).kind = "list"
        BY <2>5, <3>1 DEF LeadsList
    <3>3. ASSUME ListIsLong PROVE Comes(<<"list", "size">>)
      <4>1. Width(e.tok) = 2
          BY <2>5, <3>2, <3>3 DEF ListIsLong, Width
      <4>2. Len(seen) + 2 <= Len(out) /\ Tok(2).kind = "size"
          BY <2>5, <3>1, <4>1 DEF LeadsList
      <4>. QED  BY <3>2, <4>2, TwoCome
    <3>. QED  BY <1>2, <2>5, <2>10, <3>2, <3>3, OneComes DEF Expected
  <2>11. CASE t = "map"
    <3>1. LeadsMap(e, e2, a, b)
        BY <2>3, <2>4, <2>11, LeadsBy
    <3>2. Tok(1).kind = "size"
        BY <2>5, <3>1 DEF LeadsMap
    <3>3. ASSUME Tok(1).n # 0 PROVE Comes(<<"size", "types">>)
      <4>1. Width(e.tok) = 2
          BY <2>5, <3>2, <3>3 DEF Width
      <4>2. Len(seen) + 2 <= Len(out) /\ Tok(2).kind = "types"
          BY <2>5, <3>1, <3>3, <4>1 DEF LeadsMap, PairTypes
      <4>. QED  BY <3>2, <4>2, TwoCome
    <3>. QED  BY <1>2, <2>5, <2>11, <3>2, <3>3, OneComes DEF Expected
  <2>12. t \in {"struct", "fields", "bool", "scalar", "list", "map"}
      BY <2>3, <2>4, LeadsBy
  <2>. QED  BY <2>6, <2>7, <2>8, <2>9, <2>10, <2>11, <2>12
<1>. QED  BY <1>3, <1>4

LEMMA GarbleSync ==
    ASSUME Inv, SyncInv, ItemsInv, Garble
    PROVE  SyncInv' /\ ItemsInv'
<1>1. PICK tr, cnt, pts : Both(tr, cnt, pts)
    BY Unfold
<1>2. Astray
    BY BytesExpected DEF Garble
<1>3. /\ garbled' = TRUE
      /\ UNCHANGED <<rtodo, rlast, rbool, seen, got, rmark, misled, writer>>
    BY DEF Garble
<1>4. UNCHANGED writer /\ Astray'
    BY <1>2, <1>3 DEF Astray
<1>5. SyncInv'
    BY <1>1, <1>4, ReadKeeps
<1>6. garbled' \in BOOLEAN
    BY <1>3
<1>7. /\ rtodo' \in Seq(RItem) /\ got' \in Seq(Bools) /\ rbool' \in Bools \cup {"none"}
      /\ DepthOK(rtodo', Len(rlast'))
    BY <1>3, Depths
<1>. QED  BY <1>4, <1>5, <1>6, <1>7, ItemsKept

LEMMA StutterSync ==
    ASSUME SyncInv, ItemsInv, UNCHANGED vars
    PROVE  SyncInv' /\ ItemsInv'
<1>1. /\ UNCHANGED <<wtodo, wlast, pending, out, given>>
      /\ UNCHANGED <<rtodo, rlast, rbool, garbled, seen, got, rmark, misled>>
    BY DEF vars, writer, reader
<1>2. PICK tr, cnt, pts : Synced(tr, cnt, pts)
    BY DEF SyncInv
<1>3. Synced(tr, cnt, pts)'
    BY <1>1, <1>2 DEF Synced, WriterAt, PutOff, ReaderAt, InStep, GotRight, Astray
<1>4. SyncInv'
    BY <1>1, <1>3 DEF SyncInv, Astray
<1>5. ItemsInv'
    BY <1>1 DEF ItemsInv
<1>. QED  BY <1>4, <1>5

-----------------------------------------------------------------------------
(* Both sides begin in step.                                                *)
LEMMA OneThing ==
    ASSUME NEW S, NEW x \in S, Levels(x) = 0
    PROVE  DepthOK(<<x>>, 1)
<1>1. PICK s : s = <<x>>
    OBVIOUS
<1>2. Len(s) = 1 /\ s[1] = x
    BY <1>1
<1>3. PICK d : d = [i \in 1 .. 2 |-> 1]
    OBVIOUS
<1>4. d \in [1 .. Len(s) + 1 -> Nat] /\ d[1] = 1 /\ d[2] = 1
    BY <1>2, <1>3
<1>5. Descends(s, d)
    BY <1>2, <1>3 DEF Descends
<1>6. DepthOK(s, 1)
    BY <1>4, <1>5 DEF DepthOK
<1>. QED  BY <1>1, <1>6

LEMMA SingleIs ==
    ASSUME NEW S, NEW x \in S
    PROVE  <<x>> \in Seq(S) /\ Len(<<x>>) = 1 /\ <<x>>[1] = x
OBVIOUS

LEMMA InitSync == Init => SyncInv /\ ItemsInv
<1> SUFFICES ASSUME Init PROVE SyncInv /\ ItemsInv
    OBVIOUS
<1>1. PICK t \in Types : t = <<"struct", Root>> /\ t \in Goals
    BY CodecAssumption, SimpleTypes DEF Goals
<1>2. PICK y \in WItem : y = Value(t) /\ Levels(y) = 0
    BY WItems
<1>3. PICK r \in RItem : r = Item(t, TRUE) /\ Levels(r) = 0 /\ Fits(r, y)
    BY <1>2, PartKnown
<1>4. /\ wtodo = <<y>> /\ wlast = <<0>> /\ pending = None
      /\ rtodo = <<r>> /\ rlast = <<0>> /\ rbool = "none"
      /\ out = << >> /\ given = << >> /\ seen = << >> /\ got = << >>
      /\ garbled = FALSE /\ misled = FALSE
    BY <1>1, <1>2, <1>3 DEF Init
<1>5. PICK a \in Seq(WItem) : a = wtodo /\ Len(a) = 1 /\ a[1] = y
  <2>1. PICK a : a = <<y>>
      OBVIOUS
  <2>2. a \in Seq(WItem) /\ Len(a) = 1 /\ a[1] = y
      BY <2>1, SingleIs
  <2>. QED  BY <1>4, <2>1, <2>2
<1>6. rtodo \in Seq(RItem) /\ Len(rtodo) = 1 /\ rtodo[1] = r
    BY <1>4
<1>7. PICK tr, cnt, pts : tr = [n \in Nat |-> a] /\ cnt = [n \in Nat |-> 0] /\ pts = {0}
    OBVIOUS
<1>8. Len(out) = 0 /\ Len(given) = 0 /\ Len(seen) = 0 /\ Len(got) = 0
    BY <1>4
<1>9. tr[0] = a /\ cnt[0] = 0
    BY <1>7
<1>10. Trace(out, given, tr, cnt, pts)
  <2>1. tr \in [Nat -> Seq(WItem)] /\ cnt \in [Nat -> Nat]
      BY <1>7
  <2>. QED  BY <1>7, <1>8, <1>9, <2>1 DEF Trace
<1>11. Len(wlast) = 1 /\ Len(rlast) = 1
    BY <1>4
<1>12. WriterAt(tr[Len(out)])
  <2>1. DepthOK(a, 1)
      BY <1>2, <1>4, <1>5, OneThing
  <2>. QED  BY <1>4, <1>5, <1>8, <1>9, <1>11, <2>1 DEF WriterAt
<1>13. Match(rtodo, a)
  <2>1. PICK s : s = rtodo /\ Len(s) = 1 /\ s[1] = r
      BY <1>6
  <2>2. \A i \in 1 .. 1 : i = 1
      OBVIOUS
  <2>3. \A i \in 1 .. 1 : Fits(s[i], a[i])
      BY <1>3, <1>5, <2>1, <2>2
  <2>4. Match(s, a)
      BY <1>5, <2>1, <2>3 DEF Match
  <2>. QED  BY <2>1, <2>4
<1>14. ReaderAt(tr, cnt, pts)
    BY <1>4, <1>7, <1>8, <1>9, <1>13 DEF ReaderAt, InStep, GotRight
<1>15. SyncInv
    BY <1>4, <1>10, <1>12, <1>14 DEF SyncInv, Synced
<1>16. DepthOK(rtodo, Len(rlast))
    BY <1>3, <1>4, <1>11, OneThing
<1>17. ItemsInv
  <2>1. given \in Seq(Bools) /\ got \in Seq(Bools) /\ rbool \in Bools \cup {"none"}
      BY <1>4
  <2>2. garbled \in BOOLEAN
      BY <1>4
  <2>3. BoolsOnly(out)
      BY <1>8 DEF BoolsOnly
  <2>. QED  BY <1>6, <1>16, <2>1, <2>2, <2>3 DEF ItemsInv
<1>. QED  BY <1>15, <1>17

(* What the writer and the reader know of each other.                        *)
StepInv == Inv /\ SyncInv /\ ItemsInv

LEMMA NextSync == StepInv /\ [Next]_vars => StepInv'
<1> SUFFICES ASSUME Inv, SyncInv, ItemsInv, [Next]_vars PROVE StepInv'
    BY DEF StepInv
<1>1. Inv'
    BY NextInv
<1>2. CASE Write
    BY <1>1, <1>2, StructBeginSync, FieldBeginSync, FieldStopSync, BoolSync, ScalarSync,
       ListSync, MapSync DEF Write, StepInv
<1>3. CASE Read
    BY <1>1, <1>3, BeginRead, ShortHeaderRead, LongHeaderRead, StopRead, BoolRead, ScalarRead,
       ListRead, MapRead, GarbleSync DEF Read, StepInv
<1>4. CASE UNCHANGED vars
    BY <1>1, <1>4, StutterSync DEF StepInv
<1>. QED  BY <1>2, <1>3, <1>4 DEF Next

LEMMA InitStep == Init => StepInv
BY InitInv, InitSync DEF StepInv

-----------------------------------------------------------------------------
LEMMA Wider ==
    ASSUME NEW S, NEW T, S \subseteq T, NEW s \in Seq(S)
    PROVE  s \in Seq(T)
OBVIOUS

LEMMA WriterTypes ==
    ASSUME Inv, SyncInv, ItemsInv
    PROVE  wtodo \in Seq(WItem) /\ wlast # << >>
<1>1. PICK tr, cnt, pts : Both(tr, cnt, pts)
    BY Unfold
<1>2. PICK a \in Seq(WItem) : a = tr[Len(out)] /\ WriterAt(a)
    BY <1>1 DEF Both, Synced
<1>3. wtodo \in Seq(WItem)
  <2>1. CASE pending = None
      BY <1>2, <2>1 DEF WriterAt
  <2>2. CASE pending # None
    <3>1. PutOff(a)
        BY <1>2, <2>2 DEF WriterAt
    <3>2. PICK f \in FieldsOf(Head(a).type[2]), k \in Nat :
            wtodo = Push(Value(<<"bool">>), Push(Fields(Head(a).type[2], k), Tail(a)))
        BY <3>1 DEF PutOff
    <3>3. a # << >> /\ Kind(Head(a)) = "fields"
        BY <3>1 DEF PutOff
    <3>4. Tail(a) \in Seq(WItem) /\ Head(a).type[2] \in DOMAIN Structs
        BY <3>3, FirstIs DEF RecordParts
    <3>5. Fields(Head(a).type[2], k) \in WItem /\ Value(<<"bool">>) \in WItem
        BY <3>4, WItems, SimpleTypes
    <3>. QED  BY <3>2, <3>4, <3>5, PushSeq
  <2>. QED  BY <2>1, <2>2
<1>4. PICK n : n = Len(wlast)
    OBVIOUS
<1>5. DepthOK(a, n)
    BY <1>2, <1>4 DEF WriterAt
<1>6. PICK d \in [1 .. Len(a) + 1 -> Nat] : d[1] = n /\ Descends(a, d)
    BY <1>5 DEF DepthOK
<1>7. Len(a) \in Nat
    BY LenProperties
<1>8. d[1] >= 1
    BY <1>6, <1>7 DEF Descends
<1>9. wlast # << >>
    BY <1>4, <1>6, <1>8, EmptySeq DEF Inv, WriterInv
<1>. QED  BY <1>3, <1>9

LEMMA StepTypes == StepInv => TypeOK
<1> SUFFICES ASSUME Inv, SyncInv, ItemsInv PROVE TypeOK
    BY DEF StepInv
<1>1. wtodo \in Seq([type : Seq(Words), next : Nat])
  <2>1. WItem \subseteq [type : Seq(Words), next : Nat]
      BY GoalIs DEF WItem
  <2>. QED  BY <2>1, WriterTypes, Wider
<1>2. rtodo \in Seq([type : Seq(Words), known : BOOLEAN])
  <2>1. RItem \subseteq [type : Seq(Words), known : BOOLEAN]
      BY DEF RItem
  <2>. QED  BY <2>1, Depths, Wider
<1>3. wlast \in Seq(Nat) /\ wlast # << >> /\ pending \in Nat \cup {None} /\ out \in Seq(Written)
    BY WriterTypes DEF Inv, WriterInv, PendingOK
<1>4. rlast \in Seq(Nat) /\ rlast # << >>
    BY Depths
<1>5. given \in Seq(Bools) /\ got \in Seq(Bools) /\ rbool \in Bools \cup {"none"}
    BY DEF ItemsInv
<1>6. seen \in Seq(Nat) /\ Len(seen) <= Len(out) /\ rmark \in Seq(Marks)
    BY DEF Inv, ReaderInv, ReaderTypes
<1>7. garbled \in BOOLEAN /\ misled \in BOOLEAN
    BY Zenon DEF ItemsInv, Inv, ReaderInv, ReaderTypes
<1>. QED  BY <1>1, <1>2, <1>3, <1>4, <1>5, <1>6, <1>7, Zenon DEF TypeOK

LEMMA StepReads == OneTypePerId /\ StepInv => ReadsItAll
<1> SUFFICES ASSUME Inv, SyncInv, ItemsInv, ~Astray PROVE ReadsItAll
    BY DEF StepInv, ReadsItAll, Astray
<1>1. PICK tr, cnt, pts : Both(tr, cnt, pts)
    BY Unfold
<1>2. ~garbled
    BY DEF SyncInv
<1>3. ASSUME rtodo = << >> PROVE Len(seen) = Len(out) /\ rbool = "none"
  <2>1. ReaderAt(tr, cnt, pts) /\ Trace(out, given, tr, cnt, pts)
      BY <1>1 DEF Both, Synced
  <2>2. PICK p : p = Len(seen)
      OBVIOUS
  <2>3. rbool = "none" /\ Match(rtodo, tr[p]) /\ p \in pts
      BY <1>3, <2>1, <2>2 DEF ReaderAt, InStep
  <2>4. p \in Nat
      BY <2>2, LenProperties DEF Inv, ReaderInv, ReaderTypes
  <2>5. tr[p] \in Seq(WItem)
    <3>1. tr \in [Nat -> Seq(WItem)]
        BY <2>1 DEF Trace
    <3>. QED  BY <2>4, <3>1
  <2>6. tr[p] = << >>
      BY <1>3, <2>3, <2>5, Depths, MatchHead
  <2>7. p = Len(out)
    <3>1. SUFFICES ASSUME p # Len(out) PROVE FALSE
        OBVIOUS
    <3>2. Goes(out, given, tr, cnt, p, After(out, p))
        BY <2>1, <2>3, <3>1 DEF Trace
    <3>. QED  BY <2>6, <3>2 DEF Goes, Leads
  <2>. QED  BY <2>2, <2>3, <2>7
<1>. QED  BY <1>2, <1>3 DEF ReadsItAll

LEMMA StepBools == OneTypePerId /\ StepInv => BoolsRight
<1> SUFFICES ASSUME Inv, SyncInv, ItemsInv, ~Astray PROVE \A k \in DOMAIN got : got[k] = given[k]
    BY DEF StepInv, BoolsRight, Astray
<1>1. GotRight
    BY DEF SyncInv, Synced, ReaderAt
<1>2. DOMAIN got = 1 .. Len(got)
    BY LenProperties DEF ItemsInv
<1>. QED  BY <1>1, <1>2 DEF GotRight

-----------------------------------------------------------------------------
(* Whatever is written and read, neither stack of ids is ever empty, so that   *)
(* last_mut().unwrap() does not panic, and the reader's mistakes stay within   *)
(* the types.                                                               *)
THEOREM CodecTypes == Spec => []TypeOK
BY InitStep, NextSync, StepTypes, PTL DEF Spec

(* If no struct has two types for one id, the reader never takes one thing for *)
(* another and ends where the writer ended, for every schema, every nesting    *)
(* and whatever the reader's schema leaves out, unless a short header misled   *)
(* it.                                                                      *)
THEOREM StaysInStep ==
    ASSUME OneTypePerId
    PROVE  Spec => []ReadsItAll
<1>1. StepInv => ReadsItAll
    BY StepReads
<1>. QED  BY <1>1, InitStep, NextSync, PTL DEF Spec

(* For such structs each boolean is read with the value it was written with,   *)
(* in headers and in containers, whether its field is read or skipped.        *)
THEOREM BoolsArrive ==
    ASSUME OneTypePerId
    PROVE  Spec => []BoolsRight
<1>1. StepInv => BoolsRight
    BY StepBools
<1>. QED  BY <1>1, InitStep, NextSync, PTL DEF Spec
=============================================================================
