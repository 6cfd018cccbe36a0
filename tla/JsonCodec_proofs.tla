-------------------------- MODULE JsonCodec_proofs --------------------------
(***************************************************************************)
(* Proofs about JsonCodec, the JSON protocol of src/protocol/json.rs: the  *)
(* types of a run and the agreement of the two stacks of frames with the   *)
(* calls that are still to come, for every struct schema and every value.  *)
(*                                                                         *)
(* The calls a value makes are described without recursion: Fits says what *)
(* a sequence of calls closes and opens, one call at a time, and the       *)
(* frames of the reader and of the writer keep the kinds Fits asks for.    *)
(* The parts follow in this order: sequences; the schema's types; counting *)
(* what is open; the chain of kinds Fits; the JSON shapes a frame holds;   *)
(* the writer on its way (OnWay); the reader on its way (OnRead); the      *)
(* inductive invariant JsonInv, with a lemma per action, and the theorems. *)
(***************************************************************************)
EXTENDS JsonCodec, FunctionTheorems, SequenceTheorems, FiniteSetTheorems,
        WellFoundedInduction, TLAPS

(* Sequences with something put in front of them or taken from them.        *)
LEMMA SomeSeqs ==
    /\ \A a : Len(<<a>>) = 1 /\ <<a>>[1] = a /\ <<a>> # << >> /\ Head(<<a>>) = a
    /\ \A a, b : Len(<<a, b>>) = 2 /\ <<a, b>>[1] = a /\ <<a, b>>[2] = b
OBVIOUS

LEMMA SingleSeq == ASSUME NEW S, NEW a \in S PROVE <<a>> \in Seq(S)
OBVIOUS

LEMMA PairSeq == ASSUME NEW S, NEW a \in S, NEW b \in S PROVE <<a, b>> \in Seq(S)
OBVIOUS

LEMMA TailOfOne == \A a : Tail(<<a>>) = << >>
OBVIOUS

LEMMA Pushed ==
    ASSUME NEW S, NEW x \in S, NEW s \in Seq(S)
    PROVE  /\ Push(x, s) \in Seq(S) /\ Push(x, s) # << >>
           /\ Len(Push(x, s)) = Len(s) + 1
           /\ Push(x, s)[1] = x /\ Head(Push(x, s)) = x /\ Tail(Push(x, s)) = s
           /\ \A i \in 1 .. Len(s) : Push(x, s)[i + 1] = s[i]
<1> DEFINE p == Push(x, s)
<1>1. <<x>> \in Seq(S) /\ Len(<<x>>) = 1 /\ <<x>>[1] = x
    OBVIOUS
<1>2. PICK n \in Nat : n = Len(s)
    BY LenProperties
<1>3. /\ p \in Seq(S) /\ Len(p) = n + 1
      /\ \A i \in 1 .. n + 1 : p[i] = IF i <= 1 THEN <<x>>[i] ELSE s[i - 1]
    BY <1>1, <1>2, ConcatProperties DEF Push
<1> HIDE DEF p
<1>4. p # << >> /\ p[1] = x /\ Head(p) = p[1]
    BY <1>1, <1>2, <1>3, EmptySeq
<1>5. ASSUME NEW i \in 1 .. n PROVE p[i + 1] = s[i]
  <2>1. i + 1 \in 1 .. n + 1 /\ ~(i + 1 <= 1) /\ i + 1 - 1 = i
      OBVIOUS
  <2>. QED  BY <1>3, <2>1
<1>6. /\ Tail(p) \in Seq(S) /\ Len(Tail(p)) = n
      /\ \A i \in 1 .. n : Tail(p)[i] = p[i + 1]
    BY <1>2, <1>3, <1>4, HeadTailProperties
<1>7. Tail(p) = s
    BY <1>2, <1>5, <1>6, SeqEqual
<1>. QED  BY <1>2, <1>3, <1>4, <1>5, <1>7 DEF p

LEMMA PushedIs ==
    ASSUME NEW S, NEW x \in S, NEW s \in Seq(S), NEW p, p = Push(x, s)
    PROVE  /\ p \in Seq(S) /\ p # << >> /\ Len(p) = Len(s) + 1
           /\ p[1] = x /\ Head(p) = x /\ Tail(p) = s
<1>1. Push(x, s) \in Seq(S) /\ Push(x, s) # << >>
    BY Pushed
<1>2. Len(Push(x, s)) = Len(s) + 1
    BY Pushed
<1>3. Push(x, s)[1] = x /\ Head(Push(x, s)) = x /\ Tail(Push(x, s)) = s
    BY Pushed
<1>. QED  BY <1>1, <1>2, <1>3

LEMMA PushedUnder ==
    ASSUME NEW S, NEW x \in S, NEW s \in Seq(S), NEW p, p = Push(x, s)
    PROVE  \A i \in 1 .. Len(s) : p[i + 1] = s[i]
BY Pushed DEF Push

LEMMA Taken ==
    ASSUME NEW S, NEW s \in Seq(S), s # << >>
    PROVE  /\ Len(s) \in Nat \ {0} /\ s[1] \in S
           /\ Head(s) = s[1] /\ Tail(s) \in Seq(S) /\ Len(Tail(s)) = Len(s) - 1
           /\ \A i \in 1 .. Len(s) - 1 : Tail(s)[i] = s[i + 1]
<1>1. Len(s) \in Nat \ {0}
    BY EmptySeq
<1>. QED  BY <1>1, HeadTailProperties, ElementOfSeq

LEMMA Rest ==
    ASSUME NEW S, NEW s \in Seq(S), s # << >>
    PROVE  \E r \in Seq(S), n \in Nat :
              /\ r = Tail(s) /\ Len(r) = n /\ Len(s) = n + 1 /\ Head(s) = s[1]
              /\ \A i \in 1 .. n : r[i] = s[i + 1]
<1> DEFINE r == Tail(s)
           n == Len(s) - 1
<1>1. n \in Nat /\ Len(s) = n + 1
    BY Taken
<1>2. r \in Seq(S) /\ Len(r) = n /\ Head(s) = s[1] /\ \A i \in 1 .. n : r[i] = s[i + 1]
    BY Taken
<1> HIDE DEF r, n
<1>3. r = Tail(s)
    BY DEF r
<1>. QED  BY <1>1, <1>2, <1>3

LEMMA SameEnds ==
    ASSUME NEW S, NEW p \in Seq(S), NEW q \in Seq(S), p # << >>, q # << >>,
           Head(p) = Head(q), Tail(p) = Tail(q)
    PROVE  p = q
<1>1. PICK r \in Seq(S), n \in Nat :
         /\ r = Tail(p) /\ Len(r) = n /\ Len(p) = n + 1 /\ Head(p) = p[1]
         /\ \A i \in 1 .. n : r[i] = p[i + 1]
    BY Rest
<1>2. /\ Len(q) \in Nat /\ Head(q) = q[1] /\ Len(Tail(q)) = Len(q) - 1
      /\ \A i \in 1 .. Len(q) - 1 : Tail(q)[i] = q[i + 1]
    BY Taken
<1>3. Len(p) = n + 1 /\ Len(q) = n + 1 /\ p[1] = q[1] /\ \A i \in 1 .. n : r[i] = q[i + 1]
  <2>0. Tail(q) = r
      BY <1>1
  <2>1. Len(q) = n + 1
    <3>1. Len(Tail(q)) = n
        BY <1>1, <2>0
    <3>2. Len(q) \in Nat /\ Len(Tail(q)) = Len(q) - 1
        BY <1>2
    <3>. QED  BY <3>1, <3>2
  <2>2. ASSUME NEW i \in 1 .. n PROVE r[i] = q[i + 1]
    <3>1. i \in 1 .. Len(q) - 1 /\ r = Tail(q)
        BY <1>1, <2>1
    <3>. QED  BY <1>2, <3>1
  <2>. QED  BY <1>1, <1>2, <2>1, <2>2
<1>4. ASSUME NEW i \in 1 .. n + 1 PROVE p[i] = q[i]
  <2>1. CASE i = 1
      BY <1>3, <2>1
  <2>2. CASE i # 1
    <3>1. i - 1 \in 1 .. n /\ (i - 1) + 1 = i
        BY <2>2
    <3>2. r[i - 1] = p[(i - 1) + 1] /\ r[i - 1] = q[(i - 1) + 1]
        BY <1>1, <1>3, <3>1
    <3>. QED  BY <3>1, <3>2
  <2>. QED  BY <2>1, <2>2
<1>. QED  BY <1>3, <1>4, SeqEqual

LEMMA JoinOne ==
    ASSUME NEW S, NEW a \in S, NEW e \in Seq(S)
    PROVE  LET t == <<a>> \o e IN
           t \in Seq(S) /\ t # << >> /\ t[1] = a /\ Tail(t) = e
BY Pushed DEF Push

LEMMA JoinTwo ==
    ASSUME NEW S, NEW a \in S, NEW b \in S, NEW e \in Seq(S),
           NEW r, r = <<a, b>> \o e
    PROVE  /\ r = <<a>> \o (<<b>> \o e)
           /\ r \in Seq(S) /\ r # << >> /\ r[1] = a /\ r[2] = b /\ Tail(Tail(r)) = e
<1> DEFINE t == <<a, b>> \o e
           u == <<a>> \o (<<b>> \o e)
<1>1. <<a, b>> \in Seq(S) /\ Len(<<a, b>>) = 2 /\ <<a, b>>[1] = a /\ <<a, b>>[2] = b
    OBVIOUS
<1>2. PICK n \in Nat : n = Len(e)
    BY LenProperties
<1>3. /\ t \in Seq(S) /\ Len(t) = n + 2
      /\ \A i \in 1 .. n + 2 : t[i] = IF i <= 2 THEN <<a, b>>[i] ELSE e[i - 2]
    BY <1>1, <1>2, ConcatProperties
<1>4. PICK v \in Seq(S) : /\ v = <<b>> \o e /\ Len(v) = n + 1 /\ v[1] = b /\ Tail(v) = e
                          /\ \A i \in 1 .. n : v[i + 1] = e[i]
  <2> DEFINE v == <<b>> \o e
  <2>1. /\ v \in Seq(S) /\ Len(v) = n + 1 /\ v[1] = b /\ Tail(v) = e
        /\ \A i \in 1 .. n : v[i + 1] = e[i]
      BY <1>2, Pushed DEF Push
  <2> HIDE DEF v
  <2>2. v = <<b>> \o e
      BY DEF v
  <2>. QED  BY <2>1, <2>2
<1>5. /\ u \in Seq(S) /\ Len(u) = n + 2 /\ u[1] = a /\ Tail(u) = v /\ u # << >>
      /\ \A i \in 1 .. n + 1 : u[i + 1] = v[i]
    BY <1>2, <1>4, Pushed DEF Push
<1> HIDE DEF t, u
<1>6. ASSUME NEW i \in 1 .. n + 2 PROVE t[i] = u[i]
  <2>1. CASE i = 1
      BY <1>1, <1>3, <1>5, <2>1
  <2>2. CASE i = 2
    <3>1. u[2] = v[1]
        BY <1>5
    <3>. QED  BY <1>1, <1>3, <1>4, <2>2, <3>1
  <2>3. CASE i > 2
    <3>1. i - 2 \in 1 .. n /\ i - 1 \in 1 .. n + 1 /\ ~(i <= 2) /\ (i - 1) + 1 = i
          /\ (i - 2) + 1 = i - 1
        BY <2>3
    <3>2. u[i] = v[i - 1]
        BY <1>5, <3>1
    <3>3. v[i - 1] = e[i - 2]
        BY <1>4, <3>1
    <3>. QED  BY <1>3, <3>1, <3>2, <3>3
  <2>. QED  BY <2>1, <2>2, <2>3
<1>7. t = u
    BY <1>3, <1>5, <1>6, SeqEqual
<1>8. t[2] = b
    BY <1>1, <1>3
<1>9. t = <<a>> \o (<<b>> \o e)
    BY <1>7 DEF u
<1>. QED  BY <1>3, <1>4, <1>5, <1>7, <1>8, <1>9 DEF t

(* The index of the last element of a sequence that something is under.     *)
LEMMA Joined ==
    ASSUME NEW S, NEW f \in Seq(S), NEW c \in S, NEW t \in Seq(S)
    PROVE  f \o <<c>> \o t = f \o Push(c, t)
<1>1. <<c>> \in Seq(S)
    OBVIOUS
<1>. QED  BY <1>1, ConcatAssociative DEF Push

-----------------------------------------------------------------------------
(* The types: those of the fields and what they are made of.                *)
AreTypes(types) ==
    types \subseteq Seq(Words) /\ FieldTypes \subseteq types /\ Closed(types)

Records == {<<"struct", s>> : s \in DOMAIN Structs}

Types == (CHOOSE types : AreTypes(types)) \cup Records

LEMMA FieldIs ==
    ASSUME NEW s \in DOMAIN Structs, NEW f \in Range(Structs[s])
    PROVE  f \in Field
<1>1. Structs[s] \in Seq(Field)
    BY JsonAssumption
<1>. QED  BY <1>1, RangeOfSeq

LEMMA SomeTypes == AreTypes(CHOOSE types : AreTypes(types))
<1>1. PICK types \in SUBSET UNION {Parts(t) : t \in FieldTypes} :
        FieldTypes \subseteq types /\ Closed(types)
    BY SchemaAssumption
<1>2. ASSUME NEW t \in FieldTypes PROVE Parts(t) \subseteq Seq(Words)
  <2>1. PICK s \in DOMAIN Structs : \E f \in Range(Structs[s]) : t = f.type
      BY DEF FieldTypes
  <2>2. PICK f \in Range(Structs[s]) : t = f.type
      BY <2>1
  <2>3. t \in Seq(Words)
      BY <2>2, FieldIs DEF Field
  <2> SUFFICES ASSUME NEW k \in DOMAIN t PROVE SubSeq(t, k, Len(t)) \in Seq(Words)
      BY DEF Parts
  <2>4. DOMAIN t = 1 .. Len(t) /\ Len(t) \in Nat
      BY <2>3, LenProperties
  <2>5. k \in Int /\ Len(t) \in Int /\ \A i \in k .. Len(t) : t[i] \in Words
      BY <2>3, <2>4, ElementOfSeq
  <2>. QED  BY <2>5, SubSeqProperties
<1>3. types \subseteq Seq(Words)
    BY <1>1, <1>2
<1>4. AreTypes(types)
    BY <1>1, <1>3 DEF AreTypes
<1>. QED  BY <1>4

(* What a type can be.                                                      *)
MadeOf(t) ==
    \/ \E kind \in Kinds : t = <<kind>>
    \/ \E s \in DOMAIN Structs : t = <<"struct", s>>
    \/ \E elem \in Types : t = <<"list">> \o elem
    \/ \E key \in {"num", "str"}, val \in Types : t = <<"map", key>> \o val

LEMMA TypesAre ==
    /\ Types \subseteq Seq(Words)
    /\ \A s \in DOMAIN Structs : \A f \in Range(Structs[s]) : f.type \in Types
    /\ \A t \in Types : MadeOf(t)
<1> DEFINE types == CHOOSE types : AreTypes(types)
<1>1. types \subseteq Seq(Words) /\ FieldTypes \subseteq types /\ Closed(types)
    BY SomeTypes DEF AreTypes
<1>2. Types = types \cup Records
    BY DEF Types
<1> HIDE DEF types
<1>3. Records \subseteq Seq(Words)
  <2>1. "struct" \in Words /\ \A s \in DOMAIN Structs : s \in Words
      BY DEF Words, TTypes
  <2>. QED  BY <2>1, PairSeq DEF Records
<1>4. \A s \in DOMAIN Structs : \A f \in Range(Structs[s]) : f.type \in types
    BY <1>1 DEF FieldTypes
<1>5. ASSUME NEW t \in Types PROVE MadeOf(t)
  <2>1. CASE t \in Records
      BY <2>1 DEF MadeOf, Records
  <2>2. CASE t \in types
      BY <1>1, <1>2, <2>2, Zenon DEF Closed, MadeOf
  <2>. QED  BY <1>2, <2>1, <2>2
<1>. QED  BY <1>1, <1>2, <1>3, <1>4, <1>5

(* A type tells by its first word what it is.                               *)
LEMMA TypeIs ==
    ASSUME NEW t \in Types
    PROVE  /\ t \in Seq(Words) /\ t # << >> /\ Head(t) = t[1]
           /\ t[1] \in TTypes
           /\ t[1] = "struct" => t[2] \in DOMAIN Structs
           /\ t[1] = "list" => Tail(t) \in Types
           /\ t[1] = "map" => t[2] \in {"num", "str"} /\ Tail(Tail(t)) \in Types
<1>1. t \in Seq(Words) /\ MadeOf(t)
    BY TypesAre
<1>2. TTypes = {"num", "str", "dbl", "struct", "list", "map"}
    BY DEF TTypes, Kinds
<1>3. CASE \E kind \in Kinds : t = <<kind>>
  <2>1. PICK kind \in Kinds : t = <<kind>>
      BY <1>3
  <2>2. t # << >> /\ t[1] = kind
      BY <2>1, SomeSeqs
  <2>. QED  BY <1>1, <1>2, <2>2, Taken DEF Kinds
<1>4. CASE \E s \in DOMAIN Structs : t = <<"struct", s>>
  <2>1. PICK s \in DOMAIN Structs : t = <<"struct", s>>
      BY <1>4
  <2>2. t[1] = "struct" /\ t[2] = s /\ Len(t) = 2
      BY <2>1, SomeSeqs
  <2>3. t # << >>
      BY <2>2, EmptySeq
  <2>. QED  BY <1>1, <1>2, <2>2, <2>3, Taken
<1>5. CASE \E elem \in Types : t = <<"list">> \o elem
  <2>1. PICK elem \in Types : t = <<"list">> \o elem
      BY <1>5
  <2>2. "list" \in Words /\ elem \in Seq(Words)
      BY TypesAre DEF Words, TTypes, Kinds
  <2>3. t # << >> /\ t[1] = "list" /\ Tail(t) = elem
      BY <2>1, <2>2, JoinOne
  <2>. QED  BY <1>1, <1>2, <2>3, Taken
<1>6. CASE \E key \in {"num", "str"}, val \in Types : t = <<"map", key>> \o val
  <2>1. PICK key \in {"num", "str"}, val \in Types : t = <<"map", key>> \o val
      BY <1>6
  <2>2. "map" \in Words /\ key \in Words /\ val \in Seq(Words)
      BY TypesAre DEF Words, TTypes, Kinds
  <2>3. t # << >> /\ t[1] = "map" /\ t[2] = key /\ Tail(Tail(t)) = val
      BY <2>1, <2>2, JoinTwo, SMTT(30)
  <2>. QED  BY <1>1, <1>2, <2>3, Taken
<1>. QED  BY <1>1, <1>3, <1>4, <1>5, <1>6 DEF MadeOf

LEMMA StructType == \A s \in DOMAIN Structs : <<"struct", s>> \in Types
BY DEF Types, Records

-----------------------------------------------------------------------------
(* Counting.                                                                *)
LEMMA Below == \E R : IsWellFoundedOn(R, Nat) /\ \A m, n \in Nat : <<m, n>> \in R <=> m < n
<1>1. IsWellFoundedOn(OpToRel(<, Nat), Nat)
    BY NatLessThanWellFounded
<1>2. \A m, n \in Nat : <<m, n>> \in OpToRel(<, Nat) <=> m < n
    BY DEF OpToRel
<1>. QED  BY <1>1, <1>2, Zenon

LEMMA Least ==
    ASSUME NEW S, S \subseteq Nat, S # {}
    PROVE  \E n \in S : \A m \in S : n <= m
<1>1. PICK R : IsWellFoundedOn(R, Nat) /\ \A m, n \in Nat : <<m, n>> \in R <=> m < n
    BY Below
<1>2. PICK n \in S : \A m \in S : ~(<<m, n>> \in R)
  <2>1. IsWellFoundedOn(R, Nat) /\ S \in SUBSET Nat /\ S # {}
      BY <1>1
  <2>. QED  BY ONLY <2>1, WFMin
<1>3. ASSUME NEW m \in S PROVE n <= m
  <2>1. m \in Nat /\ n \in Nat
      OBVIOUS
  <2>2. ~(m < n)
      BY <1>1, <1>2, <2>1
  <2>. QED  BY <2>1, <2>2
<1>. QED  BY <1>3

LEMMA Up ==
    ASSUME NEW S, 0 \in S, \A n \in Nat : n \in S => n + 1 \in S
    PROVE  Nat \subseteq S
<1> SUFFICES ASSUME Nat \ S # {} PROVE FALSE
    OBVIOUS
<1>1. PICK n \in Nat \ S : \A m \in Nat \ S : n <= m
  <2>1. Nat \ S \subseteq Nat
      OBVIOUS
  <2>. QED  BY <2>1, Least
<1>2. n # 0 /\ n - 1 \in Nat
    BY <1>1
<1>3. n - 1 \in S
    BY <1>1, <1>2
<1>. QED  BY <1>2, <1>3

(* The keys of an object have one order as text.                            *)
Ordered(order, keys, n) ==
    /\ order \in [1 .. n -> keys]
    /\ \A k \in keys : \E i \in 1 .. n : order[i] = k
    /\ \A i, j \in 1 .. n : i < j => TextRank(order[i]) < TextRank(order[j])

LEMMA Ranks ==
    /\ \A n \in Nat : TextRank(n) \in Nat
    /\ \A m, n \in Nat : TextRank(m) = TextRank(n) => m = n
BY DEF TextRank

LEMMA OrderOf ==
    ASSUME NEW keys, keys \subseteq Nat, IsFiniteSet(keys)
    PROVE  \E order : Ordered(order, keys, Cardinality(keys))
<1> DEFINE S == {n \in Nat : \A ks \in SUBSET Nat : IsFiniteSet(ks) /\ Cardinality(ks) = n =>
                                \E order : Ordered(order, ks, n)}
<1>1. 0 \in S
  <2> SUFFICES ASSUME NEW ks \in SUBSET Nat, IsFiniteSet(ks), Cardinality(ks) = 0
               PROVE  \E order : Ordered(order, ks, 0)
      OBVIOUS
  <2>1. ks = {}
      BY FS_EmptySet
  <2> DEFINE o == [i \in 1 .. 0 |-> 0]
  <2>2. o \in [1 .. 0 -> ks] /\ \A i \in 1 .. 0 : FALSE
      OBVIOUS
  <2> HIDE DEF o
  <2>3. Ordered(o, ks, 0)
      BY <2>1, <2>2 DEF Ordered
  <2>. QED  BY <2>3
<1>2. ASSUME NEW n \in Nat, n \in S PROVE n + 1 \in S
  <2> SUFFICES ASSUME NEW ks \in SUBSET Nat, IsFiniteSet(ks), Cardinality(ks) = n + 1
               PROVE  \E order : Ordered(order, ks, n + 1)
      OBVIOUS
  <2>1. ks # {}
      BY FS_EmptySet
  <2> DEFINE R == {TextRank(k) : k \in ks}
  <2>2. R \subseteq Nat /\ R # {}
      BY <2>1, Ranks
  <2>3. PICK r \in R : \A m \in R : r <= m
      BY <2>2, Least
  <2>4. PICK a \in ks : r = TextRank(a)
      OBVIOUS
  <2>5. ASSUME NEW k \in ks, k # a PROVE TextRank(a) < TextRank(k)
    <3>1. TextRank(k) \in R /\ TextRank(a) \in Nat /\ TextRank(k) \in Nat
        BY Ranks
    <3>2. TextRank(k) # TextRank(a)
        BY <2>5, Ranks
    <3>. QED  BY <2>3, <2>4, <3>1, <3>2
  <2> DEFINE rest == ks \ {a}
  <2>6. IsFiniteSet(rest) /\ Cardinality(rest) = n /\ rest \in SUBSET Nat
    <3>1. IsFiniteSet(rest) /\ Cardinality(rest) = (n + 1) - 1
        BY FS_RemoveElement
    <3>. QED  BY <3>1
  <2>7. PICK o : Ordered(o, rest, n)
      BY <1>2, <2>6
  <2> DEFINE u == [i \in 1 .. n + 1 |-> IF i = 1 THEN a ELSE o[i - 1]]
  <2>8. \A i \in 1 .. n + 1 : i # 1 => i - 1 \in 1 .. n
      OBVIOUS
  <2>9. /\ o \in [1 .. n -> rest]
        /\ \A k \in rest : \E i \in 1 .. n : o[i] = k
        /\ \A i, j \in 1 .. n : i < j => TextRank(o[i]) < TextRank(o[j])
      BY <2>7 DEF Ordered
  <2>10. /\ u \in [1 .. n + 1 -> ks] /\ u[1] = a
         /\ \A i \in 1 .. n + 1 : i # 1 => u[i] = o[i - 1] /\ u[i] \in rest
      BY <2>8, <2>9
  <2> HIDE DEF u
  <2>11. ASSUME NEW k \in ks PROVE \E i \in 1 .. n + 1 : u[i] = k
    <3>1. CASE k = a
        BY <2>10, <3>1
    <3>2. CASE k # a
      <4>1. PICK i \in 1 .. n : o[i] = k
          BY <2>9, <3>2
      <4>2. i + 1 \in 1 .. n + 1 /\ i + 1 # 1 /\ (i + 1) - 1 = i
          OBVIOUS
      <4>. QED  BY <2>10, <4>1, <4>2
    <3>. QED  BY <3>1, <3>2
  <2>12. ASSUME NEW i \in 1 .. n + 1, NEW j \in 1 .. n + 1, i < j
         PROVE  TextRank(u[i]) < TextRank(u[j])
    <3>1. j # 1 /\ u[j] \in rest
        BY <2>10, <2>12
    <3>2. CASE i = 1
        BY <2>5, <2>10, <3>1, <3>2
    <3>3. CASE i # 1
      <4>1. i - 1 \in 1 .. n /\ j - 1 \in 1 .. n /\ i - 1 < j - 1
          BY <2>12, <3>3
      <4>. QED  BY <2>9, <2>10, <3>1, <3>3, <4>1
    <3>. QED  BY <3>2, <3>3
  <2>13. Ordered(u, ks, n + 1)
      BY <2>10, <2>11, <2>12 DEF Ordered
  <2>. QED  BY <2>13
<1> HIDE DEF S
<1>3. Nat \subseteq S
    BY <1>1, <1>2, Up
<1>4. Cardinality(keys) \in Nat
    BY FS_CardinalityType
<1>. QED  BY <1>3, <1>4 DEF S

LEMMA InOrder ==
    ASSUME NEW keys, keys \subseteq Nat, IsFiniteSet(keys)
    PROVE  /\ Cardinality(keys) \in Nat
           /\ InTextOrder(keys) \in Seq(keys)
           /\ Len(InTextOrder(keys)) = Cardinality(keys)
           /\ Ordered(InTextOrder(keys), keys, Cardinality(keys))
<1>1. PICK n \in Nat : n = Cardinality(keys)
    BY FS_CardinalityType
<1> DEFINE Is(order) == /\ Range(order) = keys
                        /\ \A i, j \in DOMAIN order :
                              i < j => TextRank(order[i]) < TextRank(order[j])
<1>2. PICK o : Ordered(o, keys, n)
    BY <1>1, OrderOf
<1>3. o \in [1 .. n -> keys] /\ DOMAIN o = 1 .. n
    BY <1>2 DEF Ordered
<1>4. Is(o)
    BY <1>2, <1>3 DEF Ordered, Range
<1> DEFINE u == CHOOSE order \in [1 .. n -> keys] : Is(order)
<1>5. u \in [1 .. n -> keys] /\ Is(u)
    BY <1>3, <1>4
<1>6. InTextOrder(keys) = u
    BY <1>1 DEF InTextOrder
<1> HIDE DEF u
<1>7. Ordered(u, keys, n)
    BY <1>5 DEF Ordered, Range
<1>8. u \in Seq(keys) /\ Len(u) = n
    BY <1>5
<1>. QED  BY <1>1, <1>6, <1>7, <1>8

-----------------------------------------------------------------------------
(* How many of the calls still to make close something.                     *)
Closes(call) == call.op \in DOMAIN FrameOf

LEMMA OpenIs ==
    ASSUME NEW S, NEW t \in Seq(S)
    PROVE  /\ Open(t) = {i \in 1 .. Len(t) : Closes(t[i])}
           /\ Open(t) \subseteq Nat /\ IsFiniteSet(Open(t))
           /\ \A i \in Nat : Depth(t, i) \in Nat
<1>1. Len(t) \in Nat /\ DOMAIN t = 1 .. Len(t)
    BY LenProperties
<1>2. Open(t) = {i \in 1 .. Len(t) : Closes(t[i])}
    BY <1>1 DEF Open, Closes
<1>3. IsFiniteSet(1 .. Len(t))
    BY <1>1, FS_Interval
<1>4. IsFiniteSet(Open(t)) /\ Open(t) \subseteq Nat
  <2>1. Open(t) \in SUBSET (1 .. Len(t))
      BY <1>2
  <2>. QED  BY <1>1, <1>3, <2>1, FS_Subset
<1>5. ASSUME NEW i \in Nat PROVE Depth(t, i) \in Nat
  <2>1. {j \in Open(t) : j >= i} \in SUBSET Open(t)
      OBVIOUS
  <2>2. IsFiniteSet({j \in Open(t) : j >= i})
      BY <1>4, <2>1, FS_Subset
  <2>. QED  BY <2>2, FS_CardinalityType DEF Depth
<1>. QED  BY <1>2, <1>4, <1>5

LEMMA DepthOfTail ==
    ASSUME NEW S, NEW t \in Seq(S), t # << >>
    PROVE  /\ \A i \in 1 .. Len(t) : Depth(t, i + 1) = Depth(Tail(t), i)
           /\ Depth(t, 1) = Depth(Tail(t), 1) + (IF Closes(Head(t)) THEN 1 ELSE 0)
<1>2. PICK r \in Seq(S), n \in Nat :
         /\ r = Tail(t) /\ Len(r) = n /\ Len(t) = n + 1 /\ Head(t) = t[1]
         /\ \A i \in 1 .. n : r[i] = t[i + 1]
    BY Rest
<1>1. n + 1 = Len(t)
    BY <1>2
<1>3. /\ Open(t) = {i \in 1 .. n + 1 : Closes(t[i])}
      /\ Open(r) = {i \in 1 .. n : Closes(r[i])}
      /\ IsFiniteSet(Open(r)) /\ IsFiniteSet(Open(t))
    BY <1>1, <1>2, OpenIs
<1>4. ASSUME NEW i \in 1 .. n + 1 PROVE Depth(t, i + 1) = Depth(r, i)
  <2> DEFINE A == {j \in Open(r) : j >= i}
             B == {j \in Open(t) : j >= i + 1}
             F == [j \in A |-> j + 1]
  <2>1. ASSUME NEW j \in A PROVE j + 1 \in B
    <3>1. j \in 1 .. n /\ Closes(r[j]) /\ j >= i
        BY <1>3
    <3>2. j + 1 \in 1 .. n + 1 /\ t[j + 1] = r[j]
        BY <1>2, <3>1
    <3>. QED  BY <1>3, <3>1, <3>2
  <2>2. ASSUME NEW j \in B PROVE j - 1 \in A /\ (j - 1) + 1 = j
    <3>1. j \in 1 .. n + 1 /\ Closes(t[j]) /\ j >= i + 1
        BY <1>3
    <3>2. j - 1 \in 1 .. n /\ (j - 1) + 1 = j
        BY <3>1
    <3>3. r[j - 1] = t[j]
        BY <1>2, <3>2
    <3>. QED  BY <1>3, <3>1, <3>2, <3>3
  <2>3. A \subseteq Int
      BY <1>3
  <2>4. IsFiniteSet(A)
    <3>1. A \in SUBSET Open(r)
        OBVIOUS
    <3>. QED  BY <1>3, <3>1, FS_Subset
  <2> HIDE DEF A, B
  <2>5. F \in [A -> B] /\ \A j \in A : F[j] = j + 1
      BY <2>1
  <2>6. F \in Bijection(A, B)
    <3>1. \A j, k \in A : F[j] = F[k] => j = k
        BY <2>3, <2>5
    <3>2. \A k \in B : \E j \in A : F[j] = k
        BY <2>2, <2>5
    <3>. QED  BY <2>5, <3>1, <3>2, Fun_IsBij
  <2>7. Cardinality(B) = Cardinality(A)
      BY <2>4, <2>6, FS_Bijection DEF ExistsBijection
  <2>. QED  BY <2>7 DEF A, B, Depth
<1>5. Depth(t, 1) = Depth(t, 2) + (IF Closes(Head(t)) THEN 1 ELSE 0)
  <2> DEFINE A == {j \in Open(t) : j >= 2}
  <2>1. Head(t) = t[1]
      BY Taken
  <2>2. IsFiniteSet(A)
    <3>1. A \in SUBSET Open(t)
        OBVIOUS
    <3>. QED  BY <1>3, <3>1, FS_Subset
  <2> HIDE DEF A
  <2>3. Cardinality(A) \in Nat /\ ~(1 \in A)
      BY <2>2, FS_CardinalityType DEF A
  <2>4. \A j \in Open(t) : j \in Int /\ j >= 1
      BY <1>3
  <2>0. Depth(t, 2) = Cardinality(A)
      BY DEF Depth, A
  <2>5. CASE Closes(Head(t))
    <3>1. 1 \in Open(t)
        BY <1>3, <2>1, <2>5
    <3>2. {j \in Open(t) : j >= 1} = A \cup {1}
        BY <2>4, <3>1 DEF A
    <3>3. Cardinality(A \cup {1}) = Cardinality(A) + 1
        BY <2>2, <2>3, FS_AddElement
    <3>4. Depth(t, 1) = Cardinality(A) + 1
        BY <3>2, <3>3 DEF Depth
    <3>. QED  BY <2>0, <2>5, <3>4
  <2>6. CASE ~Closes(Head(t))
    <3>1. ~(1 \in Open(t))
        BY <1>3, <2>1, <2>6
    <3>2. {j \in Open(t) : j >= 1} = A
        BY <2>4, <3>1 DEF A
    <3>3. Depth(t, 1) = Cardinality(A)
        BY <3>2 DEF Depth
    <3>. QED  BY <2>0, <2>3, <2>6, <3>3
  <2>. QED  BY <2>5, <2>6
<1>6. Depth(t, 2) = Depth(r, 1)
  <2>1. 1 \in 1 .. n + 1 /\ 1 + 1 = 2
      OBVIOUS
  <2>. QED  BY <1>4, <2>1
<1>. QED  BY <1>1, <1>2, <1>4, <1>5, <1>6

(***************************************************************************)
(* What the calls do to the kinds of the frames, from the one that is next   *)
(* to the last: a set of pairs <<stack, calls>>, with one in it whenever it   *)
(* has the one before.  A value is taken when its call begins, so a "pair",   *)
(* which is a map that waits for the value of a key, is only on top.          *)
(***************************************************************************)
FrameKinds == {"struct", "list", "map", "pair"}
KindOf(k)  == IF k = "pair" THEN "map" ELSE k
Took(s)    == IF s # << >> /\ Head(s) = "pair" THEN Push("map", Tail(s)) ELSE s

Goes(P, s, t) ==
    LET c == Head(t) IN
    /\ Closes(c) =>
         /\ s # << >> /\ Head(s) = FrameOf[c.op]
         /\ Tail(s) = << >> <=> Tail(t) = << >>
         /\ Tail(t) = << >> => c.op = "fields"
         /\ <<Tail(s), Tail(t)>> \in P
    /\ c.op = "key" => s # << >> /\ Head(s) = "map" /\ <<s, Tail(t)>> \in P
    /\ c.op \in TTypes =>
         /\ IF s = << >> THEN c.op = "struct" /\ Tail(t) = << >> ELSE Head(s) # "map"
         /\ <<Took(s), Tail(t)>> \in P

Runs(P) ==
    /\ P \subseteq Seq(FrameKinds) \X Seq(Calls)
    /\ \A s \in Seq(FrameKinds), t \in Seq(Calls) : <<s, t>> \in P =>
         IF t = << >> THEN s = << >> ELSE Goes(P, s, t)

Fits(s, t) == \E P : Runs(P) /\ <<s, t>> \in P

LEMMA OpsAre ==
    /\ DOMAIN FrameOf = {"fields", "listend", "mapend"}
    /\ TTypes = {"num", "str", "dbl", "struct", "list", "map"}
    /\ \A c \in Calls : Closes(c) \/ c.op = "key" \/ c.op \in TTypes
    /\ \A c : ~(Closes(c) /\ c.op = "key") /\ ~(Closes(c) /\ c.op \in TTypes)
    /\ \A c : ~(c.op = "key" /\ c.op \in TTypes)
BY DEF FrameOf, TTypes, Kinds, Calls, Closes

LEMMA TookIs ==
    ASSUME NEW s \in Seq(FrameKinds)
    PROVE  /\ Took(s) \in Seq(FrameKinds) /\ Len(Took(s)) = Len(s)
           /\ Took(s) = << >> <=> s = << >>
           /\ \A i \in 1 .. Len(s) : KindOf(Took(s)[i]) = KindOf(s[i])
<1>1. CASE s # << >> /\ Head(s) = "pair"
  <2>1. PICK r \in Seq(FrameKinds), n \in Nat :
           /\ r = Tail(s) /\ Len(r) = n /\ Len(s) = n + 1 /\ Head(s) = s[1]
           /\ \A i \in 1 .. n : r[i] = s[i + 1]
      BY <1>1, Rest
  <2>2. "map" \in FrameKinds /\ Took(s) = Push("map", r)
      BY <1>1, <2>1 DEF FrameKinds, Took
  <2>3. /\ Took(s) \in Seq(FrameKinds) /\ Took(s) # << >> /\ Len(Took(s)) = n + 1
        /\ Took(s)[1] = "map"
        /\ \A i \in 1 .. n : Took(s)[i + 1] = r[i]
    <3>1. /\ Took(s) \in Seq(FrameKinds) /\ Took(s) # << >> /\ Len(Took(s)) = n + 1
          /\ Took(s)[1] = "map"
        BY <2>1, <2>2, PushedIs DEF Push
    <3>2. \A i \in 1 .. n : Took(s)[i + 1] = r[i]
        BY <2>1, <2>2, PushedUnder DEF Push
    <3>. QED  BY <3>1, <3>2
  <2>4. Len(s) = n + 1 /\ s[1] = "pair"
      BY <1>1, <2>1
  <2>5. ASSUME NEW i \in 1 .. Len(s) PROVE KindOf(Took(s)[i]) = KindOf(s[i])
    <3>1. CASE i = 1
        BY <2>3, <2>4, <3>1 DEF KindOf
    <3>2. CASE i # 1
      <4>1. i - 1 \in 1 .. n /\ (i - 1) + 1 = i
          BY <2>1, <2>4, <3>2
      <4>2. Took(s)[i] = s[i]
          BY <2>1, <2>3, <4>1
      <4>. QED  BY <4>2
    <3>. QED  BY <3>1, <3>2
  <2>6. Len(Took(s)) = Len(s)
      BY <2>3, <2>4
  <2>7. Took(s) # << >> /\ s # << >>
      BY <1>1, <2>3
  <2>. QED  BY <2>3, <2>5, <2>6, <2>7
<1>2. CASE ~(s # << >> /\ Head(s) = "pair")
    BY <1>2 DEF Took
<1>. QED  BY <1>1, <1>2

(* One call more or less.                                                   *)
FitsFrom(s, t) ==
    LET c == Head(t) IN
    /\ Closes(c) =>
         /\ s # << >> /\ Head(s) = FrameOf[c.op]
         /\ Tail(s) = << >> <=> Tail(t) = << >>
         /\ Tail(t) = << >> => c.op = "fields"
         /\ Fits(Tail(s), Tail(t))
    /\ c.op = "key" => s # << >> /\ Head(s) = "map" /\ Fits(s, Tail(t))
    /\ c.op \in TTypes =>
         /\ IF s = << >> THEN c.op = "struct" /\ Tail(t) = << >> ELSE Head(s) # "map"
         /\ Fits(Took(s), Tail(t))

LEMMA FitsTypes ==
    ASSUME NEW s, NEW t, Fits(s, t)
    PROVE  /\ s \in Seq(FrameKinds) /\ t \in Seq(Calls)
           /\ t = << >> => s = << >>
BY DEF Fits, Runs

LEMMA FitsNext ==
    ASSUME NEW s, NEW t, Fits(s, t), t # << >>
    PROVE  FitsFrom(s, t)
<1>1. PICK P : Runs(P) /\ <<s, t>> \in P
    BY DEF Fits
<1>2. s \in Seq(FrameKinds) /\ t \in Seq(Calls)
    BY FitsTypes
<1>3. Goes(P, s, t)
    BY <1>1, <1>2 DEF Runs
<1>. QED  BY <1>1, <1>3, Zenon DEF Goes, FitsFrom, Fits

LEMMA FitsBefore ==
    ASSUME NEW s \in Seq(FrameKinds), NEW t \in Seq(Calls), t # << >>, FitsFrom(s, t)
    PROVE  Fits(s, t)
<1> DEFINE c == Head(t)
<1>1. c \in Calls
    BY Taken
<1>2. PICK u : /\ Fits(u, Tail(t))
               /\ Closes(c) => u = Tail(s)
               /\ c.op = "key" => u = s
               /\ c.op \in TTypes => u = Took(s)
  <2>1. CASE Closes(c)
      BY <2>1, OpsAre DEF FitsFrom
  <2>2. CASE c.op = "key"
      BY <2>2, OpsAre DEF FitsFrom
  <2>3. CASE c.op \in TTypes
      BY <2>3, OpsAre DEF FitsFrom
  <2>. QED  BY <1>1, <2>1, <2>2, <2>3, OpsAre
<1>3. PICK P : Runs(P) /\ <<u, Tail(t)>> \in P
    BY <1>2 DEF Fits
<1> DEFINE Q == P \cup {<<s, t>>}
<1>4. Q \subseteq Seq(FrameKinds) \X Seq(Calls)
    BY <1>3 DEF Runs
<1>5. Goes(Q, s, t)
  <2>1. Closes(c) => /\ s # << >> /\ Head(s) = FrameOf[c.op]
                     /\ Tail(s) = << >> <=> Tail(t) = << >>
                     /\ Tail(t) = << >> => c.op = "fields"
      BY DEF FitsFrom
  <2>2. c.op = "key" => s # << >> /\ Head(s) = "map"
      BY DEF FitsFrom
  <2>3. c.op \in TTypes =>
          IF s = << >> THEN c.op = "struct" /\ Tail(t) = << >> ELSE Head(s) # "map"
      BY DEF FitsFrom
  <2>4. <<u, Tail(t)>> \in Q
      BY <1>3
  <2> HIDE DEF c, Q
  <2>5. /\ Closes(c) => <<Tail(s), Tail(t)>> \in Q
        /\ c.op = "key" => <<s, Tail(t)>> \in Q
        /\ c.op \in TTypes => <<Took(s), Tail(t)>> \in Q
      BY <1>2, <2>4
  <2>. QED  BY <2>1, <2>2, <2>3, <2>5, Zenon DEF Goes, c
<1>6. ASSUME NEW s1 \in Seq(FrameKinds), NEW t1 \in Seq(Calls), <<s1, t1>> \in Q
      PROVE  IF t1 = << >> THEN s1 = << >> ELSE Goes(Q, s1, t1)
  <2>1. CASE <<s1, t1>> \in P
    <3>1. CASE t1 = << >>
        BY <1>3, <2>1, <3>1 DEF Runs
    <3>2. CASE t1 # << >>
      <4>1. Goes(P, s1, t1)
          BY <1>3, <2>1, <3>2 DEF Runs
      <4>2. P \subseteq Q
          OBVIOUS
      <4>. QED  BY <3>2, <4>1, <4>2, Zenon DEF Goes
    <3>. QED  BY <3>1, <3>2
  <2>2. CASE <<s1, t1>> = <<s, t>>
      BY <1>5, <2>2
  <2>. QED  BY <1>6, <2>1, <2>2
<1>7. Runs(Q)
    BY <1>4, <1>6 DEF Runs
<1>. QED  BY <1>7 DEF Fits

LEMMA FitsEnd == Fits(<< >>, << >>)
<1>1. ASSUME NEW e, e = << >> PROVE Fits(e, e)
  <2>1. e \in Seq(FrameKinds) /\ e \in Seq(Calls)
      BY <1>1, EmptySeq
  <2> DEFINE P == {<<e, e>>}
  <2>2. P \subseteq Seq(FrameKinds) \X Seq(Calls)
      BY <2>1
  <2>3. \A s \in Seq(FrameKinds), t \in Seq(Calls) : <<s, t>> \in P => s = e /\ t = e
      OBVIOUS
  <2>4. <<e, e>> \in P
      OBVIOUS
  <2> HIDE DEF P
  <2>5. Runs(P)
      BY <1>1, <2>2, <2>3 DEF Runs
  <2>. QED  BY <2>4, <2>5 DEF Fits
<1>. QED  BY <1>1

(* The frames are those of the calls that close something.                  *)
LEMMA FitsDepth ==
    ASSUME NEW s, NEW t, Fits(s, t)
    PROVE  /\ Len(s) = Depth(t, 1)
           /\ \A i \in Open(t) :
                /\ Depth(t, i) \in 1 .. Len(s)
                /\ KindOf(s[Len(s) + 1 - Depth(t, i)]) = FrameOf[t[i].op]
<1> DEFINE Right(x, y) ==
              /\ Len(x) = Depth(y, 1)
              /\ \A i \in Open(y) :
                   /\ Depth(y, i) \in 1 .. Len(x)
                   /\ KindOf(x[Len(x) + 1 - Depth(y, i)]) = FrameOf[y[i].op]
           S == {n \in Nat : \A x \in Seq(FrameKinds), y \in Seq(Calls) :
                               Fits(x, y) /\ Len(y) = n => Right(x, y)}
<1>1. 0 \in S
  <2> SUFFICES ASSUME NEW x \in Seq(FrameKinds), NEW y \in Seq(Calls), Fits(x, y), Len(y) = 0
               PROVE  Right(x, y)
      OBVIOUS
  <2>1. y = << >> /\ x = << >>
      BY EmptySeq, FitsTypes
  <2>2. Len(x) = 0
      BY <2>1
  <2>3. Open(y) = {}
    <3>1. Open(y) = {i \in 1 .. Len(y) : Closes(y[i])}
        BY OpenIs
    <3>. QED  BY <3>1
  <2>4. Depth(y, 1) = 0
    <3>1. {j \in Open(y) : j >= 1} = {}
        BY <2>3
    <3>. QED  BY <3>1, FS_EmptySet DEF Depth
  <2>. QED  BY <2>2, <2>3, <2>4
<1>2. ASSUME NEW n \in Nat, n \in S PROVE n + 1 \in S
  <2> SUFFICES ASSUME NEW x \in Seq(FrameKinds), NEW y \in Seq(Calls), Fits(x, y), Len(y) = n + 1
               PROVE  Right(x, y)
      OBVIOUS
  <2>1. y # << >>
      BY EmptySeq
  <2>2. PICK r \in Seq(Calls), m \in Nat :
           /\ r = Tail(y) /\ Len(r) = m /\ Len(y) = m + 1 /\ Head(y) = y[1]
           /\ \A i \in 1 .. m : r[i] = y[i + 1]
      BY <2>1, Rest
  <2>3. m = n
      BY <2>2
  <2>4. FitsFrom(x, y)
      BY <2>1, FitsNext
  <2>5. ASSUME NEW u, Fits(u, r) PROVE u \in Seq(FrameKinds) /\ Right(u, r)
    <3>1. u \in Seq(FrameKinds) /\ r \in Seq(Calls) /\ Len(r) = n
        BY <2>2, <2>3, <2>5, FitsTypes
    <3>. QED  BY <1>2, <2>5, <3>1
  <2>6. /\ Depth(y, 1) = Depth(r, 1) + (IF Closes(Head(y)) THEN 1 ELSE 0)
        /\ \A i \in 1 .. n + 1 : Depth(y, i + 1) = Depth(r, i)
      BY <2>1, <2>2, DepthOfTail
  <2>7. /\ Open(y) = {i \in 1 .. n + 1 : Closes(y[i])}
        /\ Open(r) = {i \in 1 .. n : Closes(r[i])}
      BY <2>2, <2>3, OpenIs
  <2>8. ASSUME NEW i \in Open(y), i # 1
        PROVE  i - 1 \in Open(r) /\ y[i] = r[i - 1] /\ Depth(y, i) = Depth(r, i - 1)
    <3>1. i - 1 \in 1 .. n /\ (i - 1) + 1 = i /\ Closes(y[i])
        BY <2>7, <2>8
    <3>2. r[i - 1] = y[i]
        BY <2>2, <2>3, <3>1
    <3>3. Depth(y, (i - 1) + 1) = Depth(r, i - 1)
        BY <2>6, <3>1
    <3>. QED  BY <2>7, <3>1, <3>2, <3>3
  <2>9. CASE Closes(Head(y))
    <3>1. PICK u \in Seq(FrameKinds), k \in Nat :
             /\ u = Tail(x) /\ Len(u) = k /\ Len(x) = k + 1 /\ Head(x) = x[1]
             /\ \A i \in 1 .. k : u[i] = x[i + 1]
        BY <2>4, <2>9, Rest DEF FitsFrom
    <3>2. x[1] = FrameOf[y[1].op] /\ Fits(u, r)
        BY <2>2, <2>4, <2>9, <3>1 DEF FitsFrom
    <3>3. Right(u, r)
        BY <2>5, <3>2
    <3>4. Len(x) = Depth(y, 1)
        BY <2>6, <2>9, <3>1, <3>3
    <3>5. ASSUME NEW i \in Open(y)
          PROVE  /\ Depth(y, i) \in 1 .. Len(x)
                 /\ KindOf(x[Len(x) + 1 - Depth(y, i)]) = FrameOf[y[i].op]
      <4>1. CASE i = 1
        <5>1. Depth(y, i) = k + 1 /\ Len(x) + 1 - Depth(y, i) = 1
            BY <3>1, <3>4, <4>1
        <5>2. KindOf(x[1]) = x[1]
          <6>1. FrameOf[y[1].op] # "pair"
              BY <2>2, <2>9, OpsAre DEF Closes, FrameOf
          <6>. QED  BY <3>2, <6>1 DEF KindOf
        <5>. QED  BY <3>1, <3>2, <4>1, <5>1, <5>2
      <4>2. CASE i # 1
        <5>1. i - 1 \in Open(r) /\ y[i] = r[i - 1] /\ Depth(y, i) = Depth(r, i - 1)
            BY <2>8, <4>2
        <5>2. PICK d \in 1 .. k : d = Depth(r, i - 1)
            BY <3>1, <3>3, <5>1
        <5>3. KindOf(u[k + 1 - d]) = FrameOf[y[i].op]
            BY <3>1, <3>3, <5>1, <5>2
        <5>4. k + 1 - d \in 1 .. k /\ (k + 1 - d) + 1 = (k + 1) + 1 - d
            BY <5>2
        <5>5. u[k + 1 - d] = x[(k + 1) + 1 - d]
            BY <3>1, <5>4
        <5>. QED  BY <3>1, <5>1, <5>2, <5>3, <5>5
      <4>. QED  BY <4>1, <4>2
    <3>. QED  BY <3>4, <3>5
  <2>10. CASE ~Closes(Head(y))
    <3>1. PICK u : /\ Fits(u, r) /\ Len(u) = Len(x)
                   /\ \A i \in 1 .. Len(x) : KindOf(u[i]) = KindOf(x[i])
      <4>1. Head(y) \in Calls
          BY <2>1, Taken
      <4>2. CASE Head(y).op = "key"
          BY <2>2, <2>4, <4>2 DEF FitsFrom
      <4>3. CASE Head(y).op \in TTypes
          BY <2>2, <2>4, <4>3, TookIs DEF FitsFrom
      <4>. QED  BY <2>10, <4>1, <4>2, <4>3, OpsAre
    <3>2. Right(u, r) /\ Len(x) \in Nat
        BY <2>5, <3>1, LenProperties
    <3>3. Len(x) = Depth(y, 1)
        BY <2>6, <2>10, <3>1, <3>2
    <3>4. ASSUME NEW i \in Open(y)
          PROVE  /\ Depth(y, i) \in 1 .. Len(x)
                 /\ KindOf(x[Len(x) + 1 - Depth(y, i)]) = FrameOf[y[i].op]
      <4>1. i # 1
          BY <2>2, <2>7, <2>10
      <4>2. i - 1 \in Open(r) /\ y[i] = r[i - 1] /\ Depth(y, i) = Depth(r, i - 1)
          BY <2>8, <4>1
      <4>3. PICK d \in 1 .. Len(x) : d = Depth(r, i - 1)
          BY <3>1, <3>2, <4>2
      <4>4. KindOf(u[Len(x) + 1 - d]) = FrameOf[y[i].op]
          BY <3>1, <3>2, <4>2, <4>3
      <4>5. Len(x) + 1 - d \in 1 .. Len(x)
          BY <3>2, <4>3
      <4>. QED  BY <3>1, <4>2, <4>3, <4>4, <4>5
    <3>. QED  BY <3>3, <3>4
  <2>. QED  BY <2>9, <2>10
<1> HIDE DEF S
<1>3. Nat \subseteq S
    BY <1>1, <1>2, Up
<1>4. s \in Seq(FrameKinds) /\ t \in Seq(Calls) /\ Len(t) \in Nat
    BY FitsTypes, LenProperties
<1>. QED  BY <1>3, <1>4 DEF S

(* What the calls that open something leave to be done.                     *)
LEMMA FitsPush ==
    ASSUME NEW s \in Seq(FrameKinds), NEW c \in Calls, NEW r \in Seq(Calls),
           Closes(c) =>
             /\ s # << >> /\ Head(s) = FrameOf[c.op]
             /\ Tail(s) = << >> <=> r = << >>
             /\ r = << >> => c.op = "fields"
             /\ Fits(Tail(s), r),
           c.op = "key" => s # << >> /\ Head(s) = "map" /\ Fits(s, r),
           c.op \in TTypes =>
             /\ IF s = << >> THEN c.op = "struct" /\ r = << >> ELSE Head(s) # "map"
             /\ Fits(Took(s), r)
    PROVE  Fits(s, Push(c, r))
<1>1. PICK t : t = Push(c, r)
    OBVIOUS
<1>2. t \in Seq(Calls) /\ t # << >> /\ Head(t) = c /\ Tail(t) = r
    BY <1>1, PushedIs DEF Push
<1>3. FitsFrom(s, t)
    BY <1>2, Zenon DEF FitsFrom
<1>4. Fits(s, t)
    BY <1>2, <1>3, FitsBefore
<1>. QED  BY <1>1, <1>4

LEMMA FitsHead ==
    ASSUME NEW s, NEW t, Fits(s, t), t # << >>
    PROVE  /\ s \in Seq(FrameKinds) /\ t \in Seq(Calls)
           /\ Head(t) \in Calls /\ Tail(t) \in Seq(Calls)
           /\ s # << >> => Head(s) \in FrameKinds /\ Tail(s) \in Seq(FrameKinds)
BY FitsTypes, Taken

LEMMA NoneLeft ==
    ASSUME NEW s, NEW t, Fits(s, t), t # << >>, Head(t).op \in TTypes
    PROVE  s = << >> <=> Tail(t) = << >>
<1>1. FitsFrom(s, t) /\ s \in Seq(FrameKinds)
    BY FitsNext, FitsTypes
<1>2. s = << >> => Tail(t) = << >>
    BY <1>1 DEF FitsFrom
<1>3. Tail(t) = << >> => Took(s) = << >>
    BY <1>1, FitsTypes DEF FitsFrom
<1>. QED  BY <1>1, <1>2, <1>3, TookIs

LEMMA OpensStruct ==
    ASSUME NEW s, NEW t, Fits(s, t), t # << >>, Head(t).op = "struct",
           NEW c \in Calls, c.op = "fields"
    PROVE  Fits(Push("struct", Took(s)), Push(c, Tail(t)))
<1>1. /\ s \in Seq(FrameKinds) /\ Tail(t) \in Seq(Calls) /\ Took(s) \in Seq(FrameKinds)
      /\ Took(s) = << >> <=> s = << >>
    BY FitsHead, TookIs
<1>2. "struct" \in TTypes /\ Closes(c) /\ c.op # "key" /\ ~(c.op \in TTypes)
    BY OpsAre DEF Closes
<1>3. Fits(Took(s), Tail(t)) /\ (s = << >> <=> Tail(t) = << >>)
    BY <1>2, FitsNext, NoneLeft DEF FitsFrom
<1>4. PICK u : u = Push("struct", Took(s))
    OBVIOUS
<1>5. "struct" \in FrameKinds /\ FrameOf["fields"] = "struct"
    BY DEF FrameKinds, FrameOf
<1>6. u \in Seq(FrameKinds) /\ u # << >> /\ Head(u) = "struct" /\ Tail(u) = Took(s)
    BY <1>1, <1>4, <1>5, PushedIs DEF Push
<1>7. /\ Head(u) = FrameOf[c.op]
      /\ Tail(u) = << >> <=> Tail(t) = << >>
      /\ Fits(Tail(u), Tail(t))
    BY <1>1, <1>3, <1>5, <1>6
<1>8. Fits(u, Push(c, Tail(t)))
    BY <1>1, <1>2, <1>6, <1>7, FitsPush
<1>. QED  BY <1>4, <1>8

LEMMA FitsItems ==
    ASSUME NEW s, NEW r, Fits(s, r), s # << >>, Head(s) \in {"list", "map"},
           NEW f \in Seq(Calls),
           \A i \in 1 .. Len(f) : IF Head(s) = "map" THEN f[i].op = "key" ELSE f[i].op \in TTypes
    PROVE  Fits(s, f \o r)
<1> DEFINE Items == {c \in Calls : IF Head(s) = "map" THEN c.op = "key" ELSE c.op \in TTypes}
           S == {n \in Nat : \A g \in Seq(Items) : Len(g) = n => Fits(s, g \o r)}
<1>1. s \in Seq(FrameKinds) /\ r \in Seq(Calls) /\ Took(s) = s
    BY FitsTypes DEF Took
<1>2. 0 \in S
  <2> SUFFICES ASSUME NEW g \in Seq(Items), Len(g) = 0 PROVE Fits(s, g \o r)
      OBVIOUS
  <2>1. g = << >>
      BY EmptySeq
  <2>2. g \o r = r
      BY <1>1, <2>1, ConcatEmptySeq
  <2>. QED  BY <2>2
<1>3. ASSUME NEW n \in Nat, n \in S PROVE n + 1 \in S
  <2> SUFFICES ASSUME NEW g \in Seq(Items), Len(g) = n + 1 PROVE Fits(s, g \o r)
      OBVIOUS
  <2>1. g # << >>
      BY EmptySeq
  <2>2. PICK h \in Seq(Items), m \in Nat :
           /\ h = Tail(g) /\ Len(h) = m /\ Len(g) = m + 1 /\ Head(g) = g[1]
           /\ \A i \in 1 .. m : h[i] = g[i + 1]
      BY <2>1, Rest
  <2>3. Fits(s, h \o r)
    <3>1. Len(h) = n
        BY <2>2
    <3>. QED  BY <1>3, <3>1
  <2>4. g[1] \in Items /\ Items \subseteq Calls
      BY <2>2, ElementOfSeq
  <2>5. PICK c \in Calls : c = g[1] /\ c \in Items
      BY <2>4
  <2>6. g \o r = Push(c, h \o r)
    <3>1. g \in Seq(Calls) /\ h \in Seq(Calls)
        BY <2>4, SeqMonotonic
    <3>2. g = <<c>> \o h
      <4>1. PICK k : k = <<c>> \o h
          OBVIOUS
      <4>2. k \in Seq(Calls) /\ Len(k) = m + 1 /\ k[1] = c
          BY <2>2, <2>5, <3>1, <4>1, PushedIs DEF Push
      <4>3. \A i \in 1 .. m : k[i + 1] = h[i]
          BY <2>2, <2>5, <3>1, <4>1, PushedUnder DEF Push
      <4>4. ASSUME NEW i \in 1 .. m + 1 PROVE k[i] = g[i]
        <5>1. CASE i = 1
            BY <2>5, <4>2, <5>1
        <5>2. CASE i # 1
          <6>1. i - 1 \in 1 .. m /\ (i - 1) + 1 = i
              BY <5>2
          <6>2. k[(i - 1) + 1] = h[i - 1] /\ g[(i - 1) + 1] = h[i - 1]
              BY <2>2, <4>3, <6>1
          <6>. QED  BY <6>1, <6>2
        <5>. QED  BY <5>1, <5>2
      <4>5. k = g
          BY <2>2, <3>1, <4>2, <4>4, SeqEqual
      <4>. QED  BY <4>1, <4>5
    <3>3. <<c>> \in Seq(Calls)
        OBVIOUS
    <3>4. (<<c>> \o h) \o r = <<c>> \o (h \o r)
        BY <1>1, <3>1, <3>3, ConcatAssociative
    <3>. QED  BY <3>2, <3>4 DEF Push
  <2>7. h \o r \in Seq(Calls)
      BY <2>3, FitsTypes
  <2>8. ~Closes(c)
      BY <2>5, OpsAre
  <2>9. c.op = "key" => Head(s) = "map"
      BY <2>5, OpsAre
  <2>10. c.op \in TTypes => Head(s) # "map"
      BY <2>5, OpsAre
  <2> HIDE DEF Items, S
  <2>11. Fits(s, Push(c, h \o r))
      BY <1>1, <2>3, <2>7, <2>8, <2>9, <2>10, FitsPush
  <2>. QED  BY <2>6, <2>11
<1>4. f \in Seq(Items)
  <2>1. \A i \in 1 .. Len(f) : f[i] \in Items
      BY ElementOfSeq
  <2>2. Len(f) \in Nat /\ f \in [1 .. Len(f) -> Calls]
      BY LenProperties
  <2>3. PICK n \in Nat : n = Len(f)
      BY <2>2
  <2> HIDE DEF Items
  <2>4. f \in [1 .. n -> Items]
      BY <2>1, <2>2, <2>3
  <2>. QED  BY <2>4, SeqDef
<1> HIDE DEF S
<1>5. Nat \subseteq S
    BY <1>2, <1>3, Up
<1> HIDE DEF Items
<1>6. Len(f) \in Nat
    BY LenProperties
<1>. QED  BY <1>4, <1>5, <1>6 DEF S

LEMMA OpensItems ==
    ASSUME NEW s, NEW t, Fits(s, t), t # << >>, NEW k \in {"list", "map"}, Head(t).op = k,
           NEW f \in Seq(Calls),
           \A i \in 1 .. Len(f) : IF k = "map" THEN f[i].op = "key" ELSE f[i].op \in TTypes,
           NEW c \in Calls, c.op = IF k = "map" THEN "mapend" ELSE "listend"
    PROVE  Fits(Push(k, Took(s)), f \o <<c>> \o Tail(t))
<1>1. /\ s \in Seq(FrameKinds) /\ Tail(t) \in Seq(Calls) /\ Took(s) \in Seq(FrameKinds)
      /\ Took(s) = << >> <=> s = << >>
    BY FitsHead, TookIs
<1>2. /\ k \in TTypes /\ k # "struct" /\ Closes(c) /\ c.op # "key" /\ ~(c.op \in TTypes)
      /\ c.op # "fields" /\ FrameOf[c.op] = k /\ k \in FrameKinds
    BY OpsAre DEF Closes, FrameOf, FrameKinds
<1>3. /\ Fits(Took(s), Tail(t)) /\ (s = << >> <=> Tail(t) = << >>)
      /\ s # << >>
    BY <1>2, FitsNext, NoneLeft DEF FitsFrom
<1>4. PICK u : u = Push(k, Took(s))
    OBVIOUS
<1>6. u \in Seq(FrameKinds) /\ u # << >> /\ Head(u) = k /\ Tail(u) = Took(s)
    BY <1>1, <1>2, <1>4, PushedIs DEF Push
<1>7. /\ Head(u) = FrameOf[c.op]
      /\ Tail(u) # << >> /\ Tail(t) # << >>
      /\ Fits(Tail(u), Tail(t))
    BY <1>1, <1>2, <1>3, <1>6
<1>8. Fits(u, Push(c, Tail(t)))
    BY <1>1, <1>2, <1>6, <1>7, FitsPush
<1>9. Fits(u, f \o Push(c, Tail(t)))
    BY <1>6, <1>8, FitsItems
<1>10. f \o <<c>> \o Tail(t) = f \o Push(c, Tail(t))
    BY <1>1, Joined DEF Push
<1>. QED  BY <1>4, <1>9, <1>10

LEMMA TakesKey ==
    ASSUME NEW s, NEW t, Fits(s, t), t # << >>, Head(t).op = "key",
           NEW c \in Calls, c.op \in TTypes
    PROVE  Fits(Push("pair", Tail(s)), Push(c, Tail(t)))
<1>1. /\ s \in Seq(FrameKinds) /\ Tail(t) \in Seq(Calls)
      /\ s # << >> /\ Head(s) = "map" /\ Fits(s, Tail(t)) /\ Tail(s) \in Seq(FrameKinds)
    BY FitsHead, FitsNext DEF FitsFrom
<1>2. PICK u : u = Push("pair", Tail(s))
    OBVIOUS
<1>3. "pair" \in FrameKinds
    BY DEF FrameKinds
<1>4. u \in Seq(FrameKinds) /\ u # << >> /\ Head(u) = "pair" /\ Tail(u) = Tail(s)
    BY <1>1, <1>2, <1>3, PushedIs DEF Push
<1>5. s = Push("map", Tail(s))
  <2>1. PICK v : v = Push("map", Tail(s))
      OBVIOUS
  <2>2. "map" \in FrameKinds
      BY DEF FrameKinds
  <2>3. v \in Seq(FrameKinds) /\ v # << >> /\ Head(v) = "map" /\ Tail(v) = Tail(s)
      BY <1>1, <2>1, <2>2, PushedIs DEF Push
  <2>4. v = s
      BY <1>1, <2>3, SameEnds
  <2>. QED  BY <2>1, <2>4
<1>6. Took(u) = s
    BY <1>4, <1>5 DEF Took
<1>7. ~Closes(c) /\ c.op # "key"
    BY OpsAre
<1>8. Fits(u, Push(c, Tail(t)))
    BY <1>1, <1>4, <1>6, <1>7, FitsPush
<1>. QED  BY <1>2, <1>8

LEMMA BeginsField ==
    ASSUME NEW s, NEW t, Fits(s, t), t # << >>, Head(t).op = "fields",
           NEW c \in Calls, c.op \in TTypes, NEW d \in Calls, d.op = "fields"
    PROVE  Fits(s, Push(c, Push(d, Tail(t))))
<1>1. s \in Seq(FrameKinds) /\ Tail(t) \in Seq(Calls)
    BY FitsHead
<1>2. Closes(Head(t)) /\ Closes(d) /\ ~(d.op \in TTypes) /\ d.op # "key"
    BY OpsAre DEF Closes
<1>3. /\ s # << >> /\ Head(s) = FrameOf[d.op]
      /\ Tail(s) = << >> <=> Tail(t) = << >>
      /\ Fits(Tail(s), Tail(t))
    BY <1>2, FitsNext DEF FitsFrom
<1>4. Fits(s, Push(d, Tail(t)))
    BY <1>1, <1>2, <1>3, FitsPush
<1>5. Head(s) = "struct" /\ Took(s) = s
    BY <1>3 DEF FrameOf, Took
<1>6. ~Closes(c) /\ c.op # "key"
    BY OpsAre
<1>7. Push(d, Tail(t)) \in Seq(Calls)
    BY <1>4, FitsTypes
<1>. QED  BY <1>1, <1>3, <1>4, <1>5, <1>6, <1>7, FitsPush

-----------------------------------------------------------------------------
(* What the writer makes: J is a set of values with all their parts.        *)
Names    == {JsonName[t] : t \in TTypes}
KeyNames == {"i32", "str"}

FiniteFuns(K, V) == UNION {[ks -> V] : ks \in {x \in SUBSET K : IsFiniteSet(x)}}
Fields(J)  == FiniteFuns(Nat, [name : Names, value : J])
Pairs(J)   == FiniteFuns(Scalars, J)
Texts      == [j : {"num", "str"}, v : Scalars]

IsObj(v, J)  == \E fields \in Fields(J) : v = Obj(fields)
IsList(v, J) == \E elem \in Names, items \in Seq(J) : v = Array(elem, items)
IsMap(v, J)  == \E key \in KeyNames, val \in Names, pairs \in Pairs(J) : v = Object(key, val, pairs)

Shape(v, J) == v \in Texts \/ IsObj(v, J) \/ IsList(v, J) \/ IsMap(v, J)
Json(J)     == \A v \in J : Shape(v, J)

(* The frames of the writer and of the reader.                              *)
WFrames(J) ==
    [f : {"struct"}, fields : Fields(J),
     current : {<< >>} \cup {<<c>> : c \in [id : Nat, name : Names]}]
    \cup [f : {"list"}, elem : Names, items : Seq(J)]
    \cup [f : {"map"}, key : KeyNames, val : Names, pairs : Pairs(J),
          pending : {<< >>} \cup {<<x>> : x \in Texts}]

RFrames(J) ==
    {r \in [f : {"struct"}, fields : Fields(J), keys : Seq(Nat), index : Nat \ {0},
            value : {<< >>} \cup {<<v>> : v \in J}] : r.keys = InTextOrder(DOMAIN r.fields)}
    \cup [f : {"list"}, items : Seq(J), index : Nat \ {0}]
    \cup {r \in [f : {"map"}, key : KeyNames, pairs : Pairs(J), keys : Seq(Nat),
                 index : Nat \ {0}, readingKey : BOOLEAN] : r.keys = InTextOrder(DOMAIN r.pairs)}

LEMMA NamesAre ==
    /\ TTypes = DOMAIN JsonName /\ KeyNames \subseteq Names
    /\ Names = {"i32", "str", "dbl", "rec", "lst", "map"}
    /\ \A t \in TTypes : JsonName[t] \in Names
    /\ \A key \in {"num", "str"} : JsonName[key] \in KeyNames
    /\ \A name \in Names : \E t \in TTypes : TTypeNamed(name) = {t}
    /\ "str" \in KeyNames
BY DEF TTypes, Kinds, JsonName, Names, KeyNames, TTypeNamed

LEMMA FiniteFunIs ==
    ASSUME NEW K, NEW V, NEW f \in FiniteFuns(K, V)
    PROVE  /\ f \in [DOMAIN f -> V] /\ DOMAIN f \subseteq K /\ IsFiniteSet(DOMAIN f)
           /\ \A k \in DOMAIN f : f[k] \in V
<1>1. PICK ks \in SUBSET K : IsFiniteSet(ks) /\ f \in [ks -> V]
    BY DEF FiniteFuns
<1>. QED  BY <1>1

LEMMA FiniteFunMore ==
    ASSUME NEW K, NEW V, NEW W, V \subseteq W
    PROVE  FiniteFuns(K, V) \subseteq FiniteFuns(K, W)
<1> SUFFICES ASSUME NEW f \in FiniteFuns(K, V) PROVE f \in FiniteFuns(K, W)
    OBVIOUS
<1>1. f \in [DOMAIN f -> W] /\ DOMAIN f \in SUBSET K /\ IsFiniteSet(DOMAIN f)
    BY FiniteFunIs
<1>. QED  BY <1>1 DEF FiniteFuns

LEMMA FiniteFunInsert ==
    ASSUME NEW K, NEW V, NEW f \in FiniteFuns(K, V), NEW k \in K, NEW x \in V
    PROVE  Insert(f, k, x) \in FiniteFuns(K, V)
<1>1. /\ f \in [DOMAIN f -> V] /\ DOMAIN f \in SUBSET K /\ IsFiniteSet(DOMAIN f)
      /\ \A i \in DOMAIN f : f[i] \in V
    BY FiniteFunIs
<1> DEFINE ks == DOMAIN f \cup {k}
<1>2. ks \in SUBSET K
    BY <1>1
<1>3. IsFiniteSet(ks)
    BY <1>1, FS_AddElement
<1>4. \A i \in ks : (IF i = k THEN x ELSE f[i]) \in V
    BY <1>1
<1>5. Insert(f, k, x) = [i \in ks |-> IF i = k THEN x ELSE f[i]]
    BY DEF Insert
<1> HIDE DEF ks
<1>6. Insert(f, k, x) \in [ks -> V]
    BY <1>4, <1>5
<1>. QED  BY <1>2, <1>3, <1>6 DEF FiniteFuns

LEMMA FiniteFunEmpty == ASSUME NEW K, NEW V PROVE << >> \in FiniteFuns(K, V)
<1>1. {} \in SUBSET K /\ IsFiniteSet({}) /\ << >> \in [{} -> V]
    BY FS_EmptySet
<1>. QED  BY <1>1 DEF FiniteFuns

LEMMA ShapeMore ==
    ASSUME NEW J, NEW L, J \subseteq L
    PROVE  /\ Fields(J) \subseteq Fields(L) /\ Pairs(J) \subseteq Pairs(L) /\ Seq(J) \subseteq Seq(L)
           /\ \A v : Shape(v, J) => Shape(v, L)
           /\ \A v : IsObj(v, J) => IsObj(v, L)
           /\ WFrames(J) \subseteq WFrames(L)
<1>1. Fields(J) \subseteq Fields(L)
  <2>1. [name : Names, value : J] \subseteq [name : Names, value : L]
      OBVIOUS
  <2>. QED  BY <2>1, FiniteFunMore DEF Fields
<1>2. Pairs(J) \subseteq Pairs(L)
    BY FiniteFunMore DEF Pairs
<1>3. Seq(J) \subseteq Seq(L)
    BY SeqMonotonic
<1>4. ASSUME NEW v PROVE IsObj(v, J) => IsObj(v, L)
    BY <1>1 DEF IsObj
<1>5. ASSUME NEW v PROVE IsList(v, J) => IsList(v, L)
    BY <1>3 DEF IsList
<1>6. ASSUME NEW v PROVE IsMap(v, J) => IsMap(v, L)
    BY <1>2 DEF IsMap
<1>7. WFrames(J) \subseteq WFrames(L)
    BY <1>1, <1>2, <1>3 DEF WFrames
<1>. QED  BY <1>1, <1>2, <1>3, <1>4, <1>5, <1>6, <1>7 DEF Shape

LEMMA JsonMore ==
    ASSUME NEW J, Json(J), NEW v, Shape(v, J)
    PROVE  Json(J \cup {v}) /\ J \subseteq J \cup {v} /\ v \in J \cup {v}
<1> DEFINE L == J \cup {v}
<1>1. J \subseteq L
    OBVIOUS
<1>2. ASSUME NEW u \in L PROVE Shape(u, J)
    BY DEF Json
<1>3. ASSUME NEW u \in L PROVE Shape(u, L)
    BY <1>1, <1>2, ShapeMore
<1>. QED  BY <1>3 DEF Json

LEMMA FrameValue ==
    ASSUME NEW J, NEW fr \in WFrames(J)
    PROVE  /\ Shape(FrameToValue(fr), J)
           /\ fr.f = "struct" => IsObj(FrameToValue(fr), J)
<1>1. CASE fr.f = "struct"
  <2>1. fr.fields \in Fields(J)
      BY <1>1 DEF WFrames
  <2>2. FrameToValue(fr) = Obj(fr.fields)
      BY <1>1 DEF FrameToValue
  <2>. QED  BY <2>1, <2>2 DEF Shape, IsObj
<1>2. CASE fr.f = "list"
  <2>1. fr.elem \in Names /\ fr.items \in Seq(J)
      BY <1>2 DEF WFrames
  <2>2. FrameToValue(fr) = Array(fr.elem, fr.items)
      BY <1>2 DEF FrameToValue
  <2>. QED  BY <1>2, <2>1, <2>2 DEF Shape, IsList
<1>3. CASE fr.f = "map"
  <2>1. fr.key \in KeyNames /\ fr.val \in Names /\ fr.pairs \in Pairs(J)
      BY <1>3 DEF WFrames
  <2>2. FrameToValue(fr) = Object(fr.key, fr.val, fr.pairs)
      BY <1>3 DEF FrameToValue
  <2>. QED  BY <1>3, <2>1, <2>2 DEF Shape, IsMap
<1>. QED  BY <1>1, <1>2, <1>3 DEF WFrames

(* What a frame of the writer tells the calls that follow.                  *)
Waits(fr)  == fr.f = "map" => fr.pending # << >>
Top(fr, k) == KindOf(k) = fr.f /\ (fr.f = "map" => (fr.pending # << >> <=> k = "pair"))

LEMMA NewFrames ==
    ASSUME NEW J
    PROVE  /\ StructFrame \in WFrames(J) /\ Top(StructFrame, "struct")
           /\ \A elem \in Names : ListFrame(elem) \in WFrames(J) /\ Top(ListFrame(elem), "list")
           /\ \A k \in KeyNames, v \in Names :
                MapFrame(k, v) \in WFrames(J) /\ Top(MapFrame(k, v), "map")
<1>1. << >> \in Fields(J) /\ << >> \in Pairs(J) /\ << >> \in Seq(J)
    BY FiniteFunEmpty DEF Fields, Pairs
<1>. QED  BY <1>1 DEF WFrames, StructFrame, ListFrame, MapFrame, Top, KindOf

(* A value that is accepted, and a key.                                     *)
LEMMA AcceptValue ==
    ASSUME NEW J, NEW fr \in WFrames(J), NEW v \in J, Waits(fr)
    PROVE  Accept(fr, v) \in WFrames(J) /\ Top(Accept(fr, v), fr.f)
<1>1. CASE fr.f = "struct"
  <2>1. fr.fields \in Fields(J)
      BY <1>1 DEF WFrames
  <2>2. CASE fr.current = << >>
    <3>1. Accept(fr, v) = fr
        BY <1>1, <2>2 DEF Accept
    <3>. QED  BY <1>1, <3>1 DEF Top, KindOf
  <2>3. CASE fr.current # << >>
    <3>1. PICK c \in [id : Nat, name : Names] : fr.current = <<c>>
        BY <1>1, <2>3 DEF WFrames
    <3>2. fr.current[1] = c
        BY <3>1
    <3>3. PICK fs : fs = Insert(fr.fields, c.id, [name |-> c.name, value |-> v])
        OBVIOUS
    <3>4. [name |-> c.name, value |-> v] \in [name : Names, value : J] /\ c.id \in Nat
        BY <3>1
    <3>5. fs \in Fields(J)
        BY <2>1, <3>3, <3>4, FiniteFunInsert DEF Fields
    <3>6. Accept(fr, v) = [fr EXCEPT !.fields = fs, !.current = << >>]
        BY <1>1, <2>3, <3>2, <3>3 DEF Accept
    <3>. QED  BY <1>1, <3>5, <3>6 DEF WFrames, Top, KindOf
  <2>. QED  BY <2>2, <2>3
<1>2. CASE fr.f = "list"
  <2>1. fr.items \in Seq(J) /\ Append(fr.items, v) \in Seq(J)
      BY <1>2, AppendProperties DEF WFrames
  <2>2. Accept(fr, v) = [fr EXCEPT !.items = Append(fr.items, v)]
      BY <1>2 DEF Accept
  <2>. QED  BY <1>2, <2>1, <2>2 DEF WFrames, Top, KindOf
<1>3. CASE fr.f = "map"
  <2>1. PICK x \in Texts : fr.pending = <<x>>
      BY <1>3 DEF WFrames, Waits
  <2>2. fr.pending[1] = x /\ fr.pending # << >> /\ KeyText(x) \in Scalars
      BY <2>1 DEF KeyText, Texts
  <2>3. PICK ps : ps = Insert(fr.pairs, KeyText(x), v)
      OBVIOUS
  <2>4. fr.pairs \in Pairs(J)
      BY <1>3 DEF WFrames
  <2>5. ps \in Pairs(J)
      BY <2>2, <2>3, <2>4, FiniteFunInsert DEF Pairs
  <2>6. Accept(fr, v) = [fr EXCEPT !.pairs = ps, !.pending = << >>]
      BY <1>3, <2>2, <2>3 DEF Accept
  <2>. QED  BY <1>3, <2>5, <2>6 DEF WFrames, Top, KindOf
<1>. QED  BY <1>1, <1>2, <1>3 DEF WFrames

LEMMA AcceptKey ==
    ASSUME NEW J, NEW fr \in WFrames(J), NEW x \in Texts, Top(fr, "map")
    PROVE  Accept(fr, x) \in WFrames(J) /\ Top(Accept(fr, x), "pair")
<1>1. fr.f = "map" /\ fr.pending = << >>
    BY DEF Top, KindOf
<1>2. Accept(fr, x) = [fr EXCEPT !.pending = <<x>>]
    BY <1>1 DEF Accept
<1>. QED  BY <1>1, <1>2 DEF WFrames, Top, KindOf

-----------------------------------------------------------------------------
(* The frames of the writer and what is left to be called.  The frame of the *)
(* message is under those of its body.                                      *)
MessageFrame  == [f |-> "message"]
Stacked(m, fr) == IF m /\ fr # << >> THEN fr \o <<MessageFrame>> ELSE fr

Under(fr, s) ==
    /\ Len(fr) = Len(s)
    /\ \A i \in 2 .. Len(fr) : s[i] = fr[i].f /\ Waits(fr[i])

Aligned(fr, s) == Under(fr, s) /\ (fr # << >> => Top(fr[1], s[1]))

LEMMA OneOnOne == \A a, b : <<a>> \o <<b>> = <<a, b>>
<1> SUFFICES ASSUME NEW a, NEW b PROVE <<a>> \o <<b>> = <<a, b>>
    OBVIOUS
<1> DEFINE S == {a, b}
<1>1. <<a>> \in Seq(S) /\ <<b>> \in Seq(S) /\ Len(<<a>>) = 1 /\ Len(<<b>>) = 1
    OBVIOUS
<1>2. PICK u : u = <<a>> \o <<b>>
    OBVIOUS
<1>3. /\ u \in Seq(S) /\ Len(u) = 2
      /\ \A i \in 1 .. 2 : u[i] = IF i <= 1 THEN <<a>>[i] ELSE <<b>>[i - 1]
    BY <1>1, <1>2, ConcatProperties
<1>4. u[1] = a /\ u[2] = b
    BY <1>3
<1>5. PICK w : w = <<a, b>>
    OBVIOUS
<1>6. w \in Seq(S) /\ Len(w) = 2 /\ w[1] = a /\ w[2] = b
    BY <1>5
<1>7. \A i \in 1 .. 2 : u[i] = w[i]
    BY <1>4, <1>6
<1>8. u = w
    BY <1>3, <1>6, <1>7, SeqEqual
<1>. QED  BY <1>2, <1>5, <1>8

LEMMA OnMessage ==
    ASSUME NEW S, NEW fr \in Seq(S), fr # << >>, NEW u, u = fr \o <<MessageFrame>>
    PROVE  LET T == S \cup {MessageFrame} IN
           /\ u \in Seq(T) /\ u # << >> /\ Len(u) = Len(fr) + 1 /\ Head(u) = Head(fr)
           /\ Tail(u) = Tail(fr) \o <<MessageFrame>>
           /\ u[Len(u)] = MessageFrame /\ \A i \in 1 .. Len(fr) : u[i] = fr[i]
<1> DEFINE T == S \cup {MessageFrame}
<1>1. fr \in Seq(T) /\ <<MessageFrame>> \in Seq(T) /\ Len(<<MessageFrame>>) = 1
  <2>1. S \subseteq T /\ MessageFrame \in T
      OBVIOUS
  <2>. QED  BY <2>1, SeqMonotonic, SingleSeq
<1>2. PICK n \in Nat : Len(fr) = n + 1
  <2>1. Len(fr) \in Nat \ {0}
      BY EmptySeq
  <2>2. Len(fr) - 1 \in Nat /\ (Len(fr) - 1) + 1 = Len(fr)
      BY <2>1
  <2>. QED  BY <2>2
<1>3. /\ u \in Seq(T) /\ Len(u) = n + 2
      /\ \A i \in 1 .. n + 2 : u[i] = IF i <= n + 1 THEN fr[i] ELSE <<MessageFrame>>[i - (n + 1)]
    BY <1>1, <1>2, ConcatProperties
<1>4. (\A i \in 1 .. n + 1 : u[i] = fr[i]) /\ u[n + 2] = MessageFrame
    BY <1>3
<1>5. u # << >> /\ Head(u) = u[1] /\ Head(fr) = fr[1]
    BY <1>1, <1>2, <1>3, EmptySeq, Taken
<1>6. /\ Tail(u) \in Seq(T) /\ Len(Tail(u)) = n + 1
      /\ \A i \in 1 .. n + 1 : Tail(u)[i] = u[i + 1]
    BY <1>3, <1>5, HeadTailProperties
<1>7. /\ Tail(fr) \in Seq(T) /\ Len(Tail(fr)) = n
      /\ \A i \in 1 .. n : Tail(fr)[i] = fr[i + 1]
    BY <1>1, <1>2, HeadTailProperties
<1>8. PICK w : w = Tail(fr) \o <<MessageFrame>>
    OBVIOUS
<1>9. /\ w \in Seq(T) /\ Len(w) = n + 1
      /\ \A i \in 1 .. n + 1 : w[i] = IF i <= n THEN Tail(fr)[i] ELSE <<MessageFrame>>[i - n]
    BY <1>1, <1>7, <1>8, ConcatProperties
<1>10. ASSUME NEW i \in 1 .. n + 1 PROVE Tail(u)[i] = w[i]
  <2>1. CASE i <= n
    <3>1. i \in 1 .. n /\ i + 1 \in 1 .. n + 1
        BY <2>1
    <3>. QED  BY <1>4, <1>6, <1>7, <1>9, <2>1, <3>1
  <2>2. CASE i = n + 1
    <3>1. Tail(u)[i] = MessageFrame
        BY <1>4, <1>6, <2>2
    <3>2. w[i] = <<MessageFrame>>[1]
        BY <1>9, <2>2
    <3>. QED  BY <3>1, <3>2
  <2>3. i <= n \/ i = n + 1
      OBVIOUS
  <2>. QED  BY <2>1, <2>2, <2>3
<1>11. Tail(u) = w
    BY <1>6, <1>9, <1>10, SeqEqual
<1>. QED  BY <1>2, <1>3, <1>4, <1>5, <1>8, <1>11

LEMMA StackedIs ==
    ASSUME NEW S, NEW fr \in Seq(S), NEW m \in BOOLEAN, NEW x \in S, NEW u, u = Stacked(m, fr)
    PROVE  /\ u = << >> <=> fr = << >>
           /\ fr # << >> => Head(u) = Head(fr) /\ Push(x, Tail(u)) = Stacked(m, Push(x, Tail(fr)))
           /\ Tail(fr) # << >> /\ fr # << >> => Tail(u) = Stacked(m, Tail(fr))
           /\ ~m \/ fr # << >> => Push(x, u) = Stacked(m, Push(x, fr))
           /\ m /\ fr = << >> => <<x, MessageFrame>> = Stacked(m, Push(x, fr))
<1> DEFINE T == S \cup {MessageFrame}
<1>1. /\ fr \in Seq(T) /\ <<MessageFrame>> \in Seq(T) /\ <<x>> \in Seq(T)
      /\ Push(x, fr) # << >> /\ S \subseteq T
  <2>1. S \subseteq T /\ MessageFrame \in T /\ x \in T
      OBVIOUS
  <2>2. PICK p : p = Push(x, fr)
      OBVIOUS
  <2>3. p # << >>
      BY <2>2, PushedIs DEF Push
  <2>. QED  BY <2>1, <2>2, <2>3, SeqMonotonic, SingleSeq
<1>2. ASSUME fr # << >>
      PROVE  Tail(fr) \in Seq(S) /\ Tail(fr) \in Seq(T) /\ Push(x, Tail(fr)) # << >>
  <2>1. Tail(fr) \in Seq(S)
      BY <1>2, Taken
  <2>2. PICK p : p = Push(x, Tail(fr))
      OBVIOUS
  <2>3. p # << >>
      BY <2>1, <2>2, PushedIs DEF Push
  <2>. QED  BY <1>1, <2>1, <2>2, <2>3, SeqMonotonic
<1>3. CASE ~m
  <2>1. u = fr /\ Stacked(m, Push(x, fr)) = Push(x, fr)
        /\ Stacked(m, Push(x, Tail(fr))) = Push(x, Tail(fr)) /\ Stacked(m, Tail(fr)) = Tail(fr)
      BY <1>3 DEF Stacked
  <2>. QED  BY <1>3, <2>1
<1>4. CASE m /\ fr = << >>
  <2>1. u = << >>
      BY <1>4 DEF Stacked
  <2>2. Push(x, fr) = <<x>>
      BY <1>1, <1>4, ConcatEmptySeq DEF Push
  <2>3. Stacked(m, Push(x, fr)) = <<x>> \o <<MessageFrame>>
      BY <1>1, <1>4, <2>2 DEF Stacked
  <2>4. <<x>> \o <<MessageFrame>> = <<x, MessageFrame>>
      BY OneOnOne
  <2>5. <<x, MessageFrame>> = Stacked(m, Push(x, fr))
      BY <2>3, <2>4
  <2>. QED  BY <1>4, <2>1, <2>5
<1>5. CASE m /\ fr # << >>
  <2>1. u = fr \o <<MessageFrame>>
      BY <1>5 DEF Stacked
  <2>2. u # << >> /\ Head(u) = Head(fr) /\ Tail(u) = Tail(fr) \o <<MessageFrame>>
      BY <1>5, <2>1, OnMessage
  <2>3. Push(x, u) = Push(x, fr) \o <<MessageFrame>>
      BY <1>1, <2>1, ConcatAssociative DEF Push
  <2>4. Push(x, Tail(u)) = Push(x, Tail(fr)) \o <<MessageFrame>>
    <3>1. Tail(fr) \in Seq(T)
        BY <1>2, <1>5
    <3>2. <<x>> \o (Tail(fr) \o <<MessageFrame>>) = (<<x>> \o Tail(fr)) \o <<MessageFrame>>
        BY <1>1, <3>1, ConcatAssociative
    <3>. QED  BY <2>2, <3>2 DEF Push
  <2>5. Stacked(m, Push(x, fr)) = Push(x, fr) \o <<MessageFrame>>
      BY <1>1, <1>5 DEF Stacked
  <2>6. Stacked(m, Push(x, Tail(fr))) = Push(x, Tail(fr)) \o <<MessageFrame>>
      BY <1>2, <1>5 DEF Stacked
  <2>7. Tail(fr) # << >> => Stacked(m, Tail(fr)) = Tail(fr) \o <<MessageFrame>>
      BY <1>5 DEF Stacked
  <2>. QED  BY <1>5, <2>2, <2>3, <2>4, <2>5, <2>6, <2>7
<1>. QED  BY <1>3, <1>4, <1>5

(* The three ways in which the frames change.                               *)
LEMMA Retop ==
    ASSUME NEW S, NEW fr \in Seq(S), NEW s \in Seq(FrameKinds), fr # << >>, Under(fr, s),
           NEW x \in S, NEW z \in Seq(FrameKinds), z # << >>, Tail(z) = Tail(s), Top(x, Head(z))
    PROVE  Aligned(Push(x, Tail(fr)), z)
<1>1. PICK r \in Seq(S), n \in Nat :
         /\ r = Tail(fr) /\ Len(r) = n /\ Len(fr) = n + 1 /\ Head(fr) = fr[1]
         /\ \A i \in 1 .. n : r[i] = fr[i + 1]
    BY Rest
<1>2. PICK p : p = Push(x, r)
    OBVIOUS
<1>3. p # << >> /\ Len(p) = n + 1 /\ p[1] = x
    BY <1>1, <1>2, PushedIs DEF Push
<1>4. \A i \in 1 .. n : p[i + 1] = r[i]
    BY <1>1, <1>2, PushedUnder DEF Push
<1>5. Len(s) = n + 1 /\ s # << >>
    BY <1>1, EmptySeq DEF Under
<1>6. /\ Len(Tail(s)) = n /\ \A i \in 1 .. n : Tail(s)[i] = s[i + 1]
    BY <1>5, Taken
<1>7. PICK w \in Seq(FrameKinds), l \in Nat :
         /\ w = Tail(z) /\ Len(w) = l /\ Len(z) = l + 1 /\ Head(z) = z[1]
         /\ \A i \in 1 .. l : w[i] = z[i + 1]
    BY Rest
<1>8. l = n /\ \A i \in 1 .. n : z[i + 1] = s[i + 1]
    BY <1>6, <1>7
<1>9. ASSUME NEW i \in 2 .. n + 1 PROVE z[i] = p[i].f /\ Waits(p[i])
  <2>1. i - 1 \in 1 .. n /\ (i - 1) + 1 = i
      OBVIOUS
  <2>2. p[(i - 1) + 1] = r[i - 1] /\ r[i - 1] = fr[(i - 1) + 1] /\ z[(i - 1) + 1] = s[(i - 1) + 1]
      BY <1>1, <1>4, <1>8, <2>1
  <2>3. p[i] = fr[i] /\ z[i] = s[i]
      BY <2>1, <2>2
  <2>. QED  BY <1>1, <2>3 DEF Under
<1>10. Aligned(p, z)
    BY <1>3, <1>7, <1>8, <1>9 DEF Aligned, Under
<1>. QED  BY <1>1, <1>2, <1>10

LEMMA Cover ==
    ASSUME NEW S, NEW fr \in Seq(S), NEW s \in Seq(FrameKinds), Aligned(fr, s),
           s # << >> => Head(s) # "map",
           NEW x \in S, NEW k \in FrameKinds, Top(x, k)
    PROVE  Aligned(Push(x, fr), Push(k, Took(s)))
<1>1. PICK n \in Nat : n = Len(fr)
    BY LenProperties
<1>2. /\ Took(s) \in Seq(FrameKinds) /\ Len(Took(s)) = n
      /\ \A i \in 1 .. n : KindOf(Took(s)[i]) = KindOf(s[i])
    BY <1>1, TookIs DEF Aligned, Under
<1>3. PICK p, z : p = Push(x, fr) /\ z = Push(k, Took(s))
    OBVIOUS
<1>4. p # << >> /\ Len(p) = n + 1 /\ p[1] = x
    BY <1>1, <1>3, PushedIs DEF Push
<1>5. \A i \in 1 .. n : p[i + 1] = fr[i]
    BY <1>1, <1>3, PushedUnder DEF Push
<1>6. z # << >> /\ Len(z) = n + 1 /\ z[1] = k
    BY <1>2, <1>3, PushedIs DEF Push
<1>7. \A i \in 1 .. n : z[i + 1] = Took(s)[i]
    BY <1>2, <1>3, PushedUnder DEF Push
<1>8. ASSUME n # 0 PROVE s # << >> /\ Took(s)[1] = fr[1].f /\ Waits(fr[1])
  <2>1. s # << >> /\ fr # << >> /\ Head(s) = s[1] /\ s[1] # "map"
      BY <1>1, <1>8, EmptySeq, Taken DEF Aligned, Under
  <2>2. Top(fr[1], s[1])
      BY <2>1 DEF Aligned, Under
  <2>3. CASE s[1] = "pair"
    <3>1. Took(s) = Push("map", Tail(s)) /\ "map" \in FrameKinds /\ Tail(s) \in Seq(FrameKinds)
        BY <2>1, <2>3, Taken DEF Took, FrameKinds
    <3>2. Took(s)[1] = "map"
        BY <3>1, PushedIs DEF Push
    <3>. QED  BY <2>1, <2>2, <2>3, <3>2 DEF Top, KindOf, Waits
  <2>4. CASE s[1] # "pair"
    <3>1. Took(s) = s
        BY <2>1, <2>4 DEF Took
    <3>. QED  BY <2>1, <2>2, <2>4, <3>1 DEF Top, KindOf, Waits
  <2>. QED  BY <2>3, <2>4
<1>9. ASSUME NEW i \in 2 .. n PROVE Took(s)[i] = fr[i].f /\ Waits(fr[i])
  <2>1. s # << >> /\ s[i] = fr[i].f /\ Waits(fr[i])
      BY <1>1, <1>8 DEF Aligned, Under
  <2>2. CASE Head(s) = "pair"
    <3>1. PICK r \in Seq(FrameKinds), l \in Nat :
             /\ r = Tail(s) /\ Len(r) = l /\ Len(s) = l + 1 /\ Head(s) = s[1]
             /\ \A j \in 1 .. l : r[j] = s[j + 1]
        BY <2>1, Rest
    <3>2. Took(s) = Push("map", r) /\ "map" \in FrameKinds
        BY <2>1, <2>2, <3>1 DEF Took, FrameKinds
    <3>3. \A j \in 1 .. l : Took(s)[j + 1] = r[j]
        BY <3>1, <3>2, PushedUnder DEF Push
    <3>4. i - 1 \in 1 .. l /\ (i - 1) + 1 = i
        BY <1>1, <3>1 DEF Aligned, Under
    <3>5. Took(s)[(i - 1) + 1] = s[(i - 1) + 1]
        BY <3>1, <3>3, <3>4
    <3>. QED  BY <2>1, <3>4, <3>5
  <2>3. CASE Head(s) # "pair"
      BY <2>1, <2>3 DEF Took
  <2>. QED  BY <2>2, <2>3
<1>10. ASSUME NEW i \in 2 .. n + 1 PROVE z[i] = p[i].f /\ Waits(p[i])
  <2>1. i - 1 \in 1 .. n /\ (i - 1) + 1 = i /\ n # 0 /\ (i - 1 = 1 \/ i - 1 \in 2 .. n)
      OBVIOUS
  <2>2. p[(i - 1) + 1] = fr[i - 1] /\ z[(i - 1) + 1] = Took(s)[i - 1]
      BY <1>5, <1>7, <2>1
  <2>. QED  BY <1>8, <1>9, <2>1, <2>2
<1>11. Aligned(p, z)
    BY <1>4, <1>6, <1>10 DEF Aligned, Under
<1>. QED  BY <1>3, <1>11

LEMMA Uncover ==
    ASSUME NEW S, \A x \in S : x.f # "pair", NEW fr \in Seq(S), NEW s \in Seq(FrameKinds),
           fr # << >>, Aligned(fr, s)
    PROVE  /\ s # << >> /\ (Tail(fr) = << >> <=> Tail(s) = << >>)
           /\ Tail(fr) # << >> =>
                /\ Waits(Head(Tail(fr)))
                /\ \A x \in S : Top(x, Head(Tail(fr)).f) => Aligned(Push(x, Tail(Tail(fr))), Tail(s))
<1>1. PICK r \in Seq(S), n \in Nat :
         /\ r = Tail(fr) /\ Len(r) = n /\ Len(fr) = n + 1 /\ Head(fr) = fr[1]
         /\ \A i \in 1 .. n : r[i] = fr[i + 1]
    BY Rest
<1>2. Len(s) = n + 1 /\ s # << >>
    BY <1>1, EmptySeq DEF Aligned, Under
<1>3. PICK z \in Seq(FrameKinds), l \in Nat :
         /\ z = Tail(s) /\ Len(z) = l /\ Len(s) = l + 1 /\ Head(s) = s[1]
         /\ \A i \in 1 .. l : z[i] = s[i + 1]
    BY <1>2, Rest
<1>4. l = n
    BY <1>2, <1>3
<1>5. ASSUME NEW i \in 1 .. n PROVE z[i] = r[i].f /\ Waits(r[i])
  <2>1. i + 1 \in 2 .. n + 1 /\ i \in 1 .. l
      BY <1>4
  <2>2. z[i] = s[i + 1] /\ r[i] = fr[i + 1]
      BY <1>1, <1>3, <2>1
  <2>. QED  BY <1>1, <2>1, <2>2 DEF Aligned, Under
<1>6. r = << >> <=> z = << >>
    BY <1>1, <1>3, <1>4, EmptySeq
<1>7. ASSUME r # << >>
      PROVE  /\ Waits(Head(r))
             /\ \A x \in S : Top(x, Head(r).f) => Aligned(Push(x, Tail(r)), z)
  <2>1. n \in Nat \ {0} /\ Head(r) = r[1] /\ r[1] \in S
      BY <1>1, <1>7, EmptySeq, Taken
  <2>2. z # << >> /\ Head(z) = z[1]
      BY <1>6, <1>7, Taken
  <2>3. Waits(r[1]) /\ z[1] = r[1].f
      BY <1>5, <2>1
  <2>4. Under(r, z)
      BY <1>1, <1>3, <1>4, <1>5 DEF Under
  <2>5. ASSUME NEW x \in S, Top(x, Head(r).f) PROVE Aligned(Push(x, Tail(r)), z)
    <3>1. Top(x, Head(z))
        BY <2>1, <2>2, <2>3, <2>5
    <3>. QED  BY <1>7, <2>2, <2>4, <3>1, Retop
  <2>. QED  BY <2>1, <2>3, <2>5
<1>. QED  BY <1>1, <1>2, <1>3, <1>6, <1>7

-----------------------------------------------------------------------------
(* The calls.  One for something that the reader's schema has, and every one *)
(* of the writer, has a type of the schemas; what is skipped has a type that *)
(* came with it.                                                            *)
Meant(c) ==
    /\ c.type \in Types
    /\ c.op \in TTypes => c.op = c.type[1]
    /\ c.op = "fields" => c.type[1] = "struct"
    /\ c.op = "key" => c.type[1] = "map"

Skipped(c) ==
    /\ c.op \in TTypes => c.type = <<c.op>>
    /\ c.op = "key" => \E k, v \in TTypes : c.type = <<"map", k, v>>

WCalls == {c \in Calls : Meant(c) /\ (c.op = "key" => c.at \in Scalars)}
RCalls == {c \in Calls : IF c.known THEN Meant(c) ELSE Skipped(c)}

LEMMA CallIs ==
    ASSUME NEW c \in Calls
    PROVE  /\ c.type \in Seq(Words) /\ c.path \in Seq(Nat) /\ c.known \in BOOLEAN /\ c.at \in Nat
           /\ \A n \in Nat : Append(c.path, n) \in Seq(Nat)
BY AppendProperties DEF Calls

LEMMA NewCall ==
    ASSUME NEW op \in TTypes \cup {"key"}, NEW t \in Seq(Words), NEW p \in Seq(Nat), NEW k \in BOOLEAN
    PROVE  /\ Call(op, t, p, k) \in Calls /\ Call(op, t, p, k).op = op
           /\ Call(op, t, p, k).type = t /\ Call(op, t, p, k).known = k
BY DEF Call, Calls, TTypes

LEMMA NewValueCall ==
    ASSUME NEW t \in Types, NEW p \in Seq(Nat), NEW k \in BOOLEAN
    PROVE  /\ ValueCall(t, p, k) \in WCalls /\ ValueCall(t, p, k) \in Calls
           /\ ValueCall(t, p, k).op \in TTypes
           /\ k => ValueCall(t, p, k) \in RCalls
<1>1. t \in Seq(Words) /\ Head(t) = t[1] /\ t[1] \in TTypes
    BY TypeIs
<1>2. PICK c : c = ValueCall(t, p, k)
    OBVIOUS
<1>3. c \in Calls /\ c.op = t[1] /\ c.type = t /\ c.known = k
    BY <1>1, <1>2, NewCall DEF ValueCall
<1>4. Meant(c) /\ c.op # "key"
    BY <1>1, <1>3, OpsAre DEF Meant
<1>. QED  BY <1>1, <1>2, <1>3, <1>4 DEF WCalls, RCalls

LEMMA NewSkipped ==
    ASSUME NEW t \in TTypes, NEW p \in Seq(Nat)
    PROVE  /\ ValueCall(<<t>>, p, FALSE) \in RCalls
           /\ ValueCall(<<t>>, p, FALSE).op \in TTypes
<1>1. <<t>> \in Seq(Words) /\ Head(<<t>>) = t
    BY SingleSeq, SomeSeqs DEF Words
<1>2. PICK c : c = ValueCall(<<t>>, p, FALSE)
    OBVIOUS
<1>3. c \in Calls /\ c.op = t /\ c.type = <<t>> /\ c.known = FALSE
    BY <1>1, <1>2, NewCall DEF ValueCall
<1>4. Skipped(c)
    BY <1>3, OpsAre DEF Skipped
<1>. QED  BY <1>2, <1>3, <1>4 DEF RCalls

LEMMA NewKeyCall ==
    ASSUME NEW t \in Seq(Words), NEW p \in Seq(Nat), NEW k \in BOOLEAN, NEW n \in Nat
    PROVE  /\ KeyCall(t, p, k) \in Calls /\ KeyCall(t, p, k).op = "key"
           /\ At(KeyCall(t, p, k), n) \in Calls /\ At(KeyCall(t, p, k), n).op = "key"
           /\ t \in Types /\ t[1] = "map" /\ n \in Scalars => At(KeyCall(t, p, k), n) \in WCalls
           /\ t \in Types /\ t[1] = "map" /\ k => KeyCall(t, p, k) \in RCalls
           /\ (\E key, val \in TTypes : t = <<"map", key, val>>) /\ ~k => KeyCall(t, p, k) \in RCalls
<1>1. PICK c : c = KeyCall(t, p, k)
    OBVIOUS
<1>2. c \in Calls /\ c.op = "key" /\ c.type = t /\ c.known = k
  <2>1. c = [op |-> "key", type |-> t, path |-> p, known |-> k, at |-> 0]
      BY <1>1 DEF KeyCall, Call
  <2>. QED  BY <2>1 DEF Calls
<1>3. PICK d : d = At(c, n)
    OBVIOUS
<1>4. d \in Calls /\ d.op = "key" /\ d.type = t /\ d.known = k /\ d.at = n
    BY <1>2, <1>3 DEF At, Calls
<1>5. t \in Types /\ t[1] = "map" => Meant(c) /\ Meant(d)
    BY <1>2, <1>4, OpsAre DEF Meant
<1>6. (\E key, val \in TTypes : t = <<"map", key, val>>) => Skipped(c)
    BY <1>2, OpsAre DEF Skipped
<1>. QED  BY <1>1, <1>2, <1>3, <1>4, <1>5, <1>6 DEF WCalls, RCalls

(* The calls that remain of one for a struct, a list or a map.               *)
LEMMA NextCall ==
    ASSUME NEW c \in Calls, NEW op \in DOMAIN FrameOf, NEW n \in Nat,
           op = "fields" => c.op \in {"struct", "fields"}
    PROVE  LET d == [c EXCEPT !.op = op] IN
           /\ d \in Calls /\ d.op = op /\ At(d, n) \in Calls /\ At(d, n).op = op
           /\ c \in WCalls => d \in WCalls /\ At(d, n) \in WCalls
           /\ c \in RCalls => d \in RCalls
<1>1. PICK d : d = [c EXCEPT !.op = op]
    OBVIOUS
<1>2. PICK e : e = At(d, n)
    OBVIOUS
<1>3. op \in {"fields", "listend", "mapend"} /\ op # "key" /\ ~(op \in TTypes)
    BY OpsAre
<1>4. d \in Calls /\ d.op = op /\ d.type = c.type /\ d.known = c.known
    BY <1>1, <1>3 DEF Calls
<1>5. e \in Calls /\ e.op = op /\ e.type = c.type
    BY <1>2, <1>4 DEF At, Calls
<1>6. Meant(c) => Meant(d) /\ Meant(e)
    BY <1>3, <1>4, <1>5, OpsAre DEF Meant
<1>7. Skipped(d)
    BY <1>3, <1>4 DEF Skipped
<1>. QED  BY <1>1, <1>2, <1>3, <1>4, <1>5, <1>6, <1>7 DEF WCalls, RCalls

-----------------------------------------------------------------------------
(* The writer between two calls, the last one not made yet.                 *)
OnWay(m, st, t, J) ==
    /\ t \in Seq(WCalls) /\ t # << >>
    /\ \E fr \in Seq(WFrames(J)), s \in Seq(FrameKinds) :
         st = Stacked(m, fr) /\ Aligned(fr, s) /\ Fits(s, t)

LEMMA FramesAre == \A J : \A x \in WFrames(J) : x.f \in {"struct", "list", "map"}
BY DEF WFrames

LEMMA NotEmptyTogether ==
    ASSUME NEW S, NEW T, NEW fr \in Seq(S), NEW s \in Seq(T), Aligned(fr, s)
    PROVE  fr = << >> <=> s = << >>
BY EmptySeq DEF Aligned, Under

LEMMA TookTop ==
    ASSUME NEW S, NEW fr \in Seq(S), NEW s \in Seq(FrameKinds), Aligned(fr, s), s # << >>,
           \A x \in S : x.f \in {"struct", "list", "map"}
    PROVE  /\ fr # << >> /\ Head(fr) \in S /\ Top(Head(fr), Head(s))
           /\ Tail(Took(s)) = Tail(s) /\ Took(s) # << >>
           /\ Head(s) # "map" => Head(Took(s)) = Head(fr).f /\ Waits(Head(fr))
<1>1. fr # << >>
    BY NotEmptyTogether
<1>2. Head(fr) = fr[1] /\ Head(s) = s[1] /\ fr[1] \in S /\ Tail(s) \in Seq(FrameKinds)
    BY <1>1, Taken
<1>3. Top(fr[1], s[1]) /\ fr[1].f \in {"struct", "list", "map"}
    BY <1>1, <1>2 DEF Aligned
<1>4. CASE Head(s) = "pair"
  <2>1. Took(s) = Push("map", Tail(s)) /\ "map" \in FrameKinds
      BY <1>4 DEF Took, FrameKinds
  <2>2. Took(s) # << >> /\ Head(Took(s)) = "map" /\ Tail(Took(s)) = Tail(s)
      BY <1>2, <2>1, PushedIs DEF Push
  <2>3. Head(fr).f = "map" /\ Waits(Head(fr))
      BY <1>2, <1>3, <1>4 DEF Top, KindOf, Waits
  <2>. QED  BY <1>1, <1>2, <1>3, <2>2, <2>3
<1>5. CASE Head(s) # "pair"
  <2>1. Took(s) = s
      BY <1>5 DEF Took
  <2>2. Head(fr).f = Head(s)
      BY <1>2, <1>3, <1>5 DEF Top, KindOf
  <2>. QED  BY <1>1, <1>2, <1>3, <2>1, <2>2 DEF Waits
<1>. QED  BY <1>4, <1>5

LEMMA StructOnWay ==
    ASSUME NEW m \in BOOLEAN, NEW st, NEW t, NEW J, OnWay(m, st, t, J), Head(t).op = "struct",
           NEW c \in WCalls, c.op = "fields"
    PROVE  OnWay(m, IF m /\ st = << >> THEN <<StructFrame, MessageFrame>> ELSE Push(StructFrame, st),
                 Push(c, Tail(t)), J)
<1>1. PICK fr \in Seq(WFrames(J)), s \in Seq(FrameKinds) :
         st = Stacked(m, fr) /\ Aligned(fr, s) /\ Fits(s, t)
    BY DEF OnWay
<1>2. t \in Seq(WCalls) /\ t # << >> /\ Tail(t) \in Seq(WCalls) /\ c \in Calls
    BY Taken DEF OnWay, WCalls
<1>3. StructFrame \in WFrames(J) /\ Top(StructFrame, "struct") /\ "struct" \in FrameKinds
    BY NewFrames DEF FrameKinds
<1>4. "struct" \in TTypes
    BY OpsAre
<1>5. s # << >> => Head(s) # "map"
    BY <1>1, <1>2, <1>4, FitsNext DEF FitsFrom
<1>6. PICK g : g = Push(StructFrame, fr)
    OBVIOUS
<1>7. g \in Seq(WFrames(J))
    BY <1>3, <1>6, PushedIs DEF Push
<1>8. Aligned(g, Push("struct", Took(s)))
    BY <1>1, <1>3, <1>5, <1>6, Cover
<1>9. Fits(Push("struct", Took(s)), Push(c, Tail(t)))
    BY <1>1, <1>2, OpensStruct
<1>10. (IF m /\ st = << >> THEN <<StructFrame, MessageFrame>> ELSE Push(StructFrame, st))
         = Stacked(m, g)
  <2>1. /\ st = << >> <=> fr = << >>
        /\ ~m \/ fr # << >> => Push(StructFrame, st) = Stacked(m, Push(StructFrame, fr))
        /\ m /\ fr = << >> => <<StructFrame, MessageFrame>> = Stacked(m, Push(StructFrame, fr))
      BY <1>1, <1>3, StackedIs
  <2>. QED  BY <1>6, <2>1
<1>11. Push(c, Tail(t)) \in Seq(WCalls) /\ Push(c, Tail(t)) # << >>
    BY <1>2, Pushed DEF Push
<1>12. Push("struct", Took(s)) \in Seq(FrameKinds)
    BY <1>9, FitsTypes
<1>. QED  BY <1>7, <1>8, <1>9, <1>10, <1>11, <1>12 DEF OnWay

LEMMA FieldOnWay ==
    ASSUME NEW m \in BOOLEAN, NEW st, NEW t, NEW J, OnWay(m, st, t, J), Head(t).op = "fields",
           NEW c \in WCalls, c.op \in TTypes, NEW d \in WCalls, d.op = "fields",
           NEW x \in [id : Nat, name : Names]
    PROVE  OnWay(m, Push([Head(st) EXCEPT !.current = <<x>>], Tail(st)),
                 Push(c, Push(d, Tail(t))), J)
<1>1. PICK fr \in Seq(WFrames(J)), s \in Seq(FrameKinds) :
         st = Stacked(m, fr) /\ Aligned(fr, s) /\ Fits(s, t)
    BY DEF OnWay
<1>2. t \in Seq(WCalls) /\ t # << >> /\ Tail(t) \in Seq(WCalls) /\ c \in Calls /\ d \in Calls
    BY Taken DEF OnWay, WCalls
<1>3. s # << >> /\ Head(s) = "struct"
  <2>1. Closes(Head(t)) /\ FrameOf[Head(t).op] = "struct"
      BY OpsAre DEF Closes, FrameOf
  <2>2. FitsFrom(s, t)
      BY <1>1, <1>2, FitsNext
  <2>. QED  BY <2>1, <2>2 DEF FitsFrom
<1>4. fr # << >> /\ Head(fr) \in WFrames(J) /\ Top(Head(fr), "struct")
    BY <1>1, <1>3, TookTop, FramesAre
<1>5. PICK y : y = [Head(fr) EXCEPT !.current = <<x>>]
    OBVIOUS
<1>6. y \in WFrames(J) /\ Top(y, "struct")
    BY <1>4, <1>5 DEF WFrames, Top, KindOf
<1>7. PICK g : g = Push(y, Tail(fr))
    OBVIOUS
<1>8. Tail(fr) \in Seq(WFrames(J)) /\ g \in Seq(WFrames(J))
  <2>1. Tail(fr) \in Seq(WFrames(J))
      BY <1>4, Taken
  <2>. QED  BY <1>6, <1>7, <2>1, PushedIs DEF Push
<1>9. Under(fr, s)
    BY <1>1 DEF Aligned
<1>10. Aligned(g, s)
    BY <1>3, <1>4, <1>6, <1>7, <1>9, Retop
<1>11. Fits(s, Push(c, Push(d, Tail(t))))
    BY <1>1, <1>2, BeginsField
<1>12. Push([Head(st) EXCEPT !.current = <<x>>], Tail(st)) = Stacked(m, g)
  <2>1. Head(st) = Head(fr) /\ Push(y, Tail(st)) = Stacked(m, Push(y, Tail(fr)))
      BY <1>1, <1>4, <1>6, StackedIs
  <2>. QED  BY <1>5, <1>7, <2>1
<1>13. Push(d, Tail(t)) \in Seq(WCalls)
    BY <1>2, Pushed DEF Push
<1>14. PICK u : u = Push(c, Push(d, Tail(t)))
    OBVIOUS
<1>15. u \in Seq(WCalls) /\ u # << >>
    BY <1>13, <1>14, PushedIs
<1>. QED  BY <1>8, <1>10, <1>11, <1>12, <1>14, <1>15 DEF OnWay

LEMMA ScalarOnWay ==
    ASSUME NEW m \in BOOLEAN, NEW st, NEW t, NEW J, OnWay(m, st, t, J), Head(t).op \in Kinds,
           NEW x \in Texts
    PROVE  /\ st # << >>
           /\ OnWay(m, Push(Accept(Head(st), x), Tail(st)), Tail(t), J \cup {x})
<1>1. PICK fr \in Seq(WFrames(J)), s \in Seq(FrameKinds) :
         st = Stacked(m, fr) /\ Aligned(fr, s) /\ Fits(s, t)
    BY DEF OnWay
<1>2. t \in Seq(WCalls) /\ t # << >> /\ Tail(t) \in Seq(WCalls)
    BY Taken DEF OnWay
<1>3. Head(t).op \in TTypes /\ Head(t).op # "struct"
    BY DEF TTypes, Kinds
<1>4. s # << >> /\ Head(s) # "map" /\ Fits(Took(s), Tail(t)) /\ Tail(t) # << >>
    BY <1>1, <1>2, <1>3, FitsNext, NoneLeft DEF FitsFrom
<1>5. /\ fr # << >> /\ Head(fr) \in WFrames(J) /\ Waits(Head(fr))
      /\ Tail(Took(s)) = Tail(s) /\ Took(s) # << >> /\ Head(Took(s)) = Head(fr).f
    BY <1>1, <1>4, TookTop, FramesAre
<1> DEFINE L == J \cup {x}
<1>6. WFrames(J) \subseteq WFrames(L) /\ x \in L
  <2>1. J \subseteq L
      OBVIOUS
  <2>. QED  BY <2>1, ShapeMore
<1> HIDE DEF L
<1>7. fr \in Seq(WFrames(L)) /\ Head(fr) \in WFrames(L)
    BY <1>5, <1>6, SeqMonotonic
<1>8. PICK y : y = Accept(Head(fr), x)
    OBVIOUS
<1>9. y \in WFrames(L) /\ Top(y, Head(fr).f)
    BY <1>5, <1>6, <1>7, <1>8, AcceptValue
<1>10. PICK g : g = Push(y, Tail(fr))
    OBVIOUS
<1>11. g \in Seq(WFrames(L))
  <2>1. Tail(fr) \in Seq(WFrames(L))
      BY <1>5, <1>7, Taken
  <2>. QED  BY <1>9, <1>10, <2>1, PushedIs DEF Push
<1>12. Under(fr, s)
    BY <1>1 DEF Aligned
<1>13. Took(s) \in Seq(FrameKinds) /\ Top(y, Head(Took(s)))
    BY <1>5, <1>9, TookIs
<1>14. Aligned(g, Took(s))
    BY <1>5, <1>7, <1>9, <1>10, <1>12, <1>13, Retop
<1>15. st # << >> /\ Push(Accept(Head(st), x), Tail(st)) = Stacked(m, g)
  <2>1. /\ st = << >> <=> fr = << >>
        /\ Head(st) = Head(fr) /\ Push(y, Tail(st)) = Stacked(m, Push(y, Tail(fr)))
      BY <1>1, <1>5, <1>7, <1>9, StackedIs
  <2>. QED  BY <1>5, <1>8, <1>10, <2>1
<1>. QED  BY <1>2, <1>4, <1>11, <1>13, <1>14, <1>15 DEF OnWay, L

LEMMA KeyOnWay ==
    ASSUME NEW m \in BOOLEAN, NEW st, NEW t, NEW J, OnWay(m, st, t, J), Head(t).op = "key",
           NEW x \in Texts, NEW c \in WCalls, c.op \in TTypes
    PROVE  /\ st # << >>
           /\ OnWay(m, Push(Accept(Head(st), x), Tail(st)), Push(c, Tail(t)), J)
<1>1. PICK fr \in Seq(WFrames(J)), s \in Seq(FrameKinds) :
         st = Stacked(m, fr) /\ Aligned(fr, s) /\ Fits(s, t)
    BY DEF OnWay
<1>2. t \in Seq(WCalls) /\ t # << >> /\ Tail(t) \in Seq(WCalls) /\ c \in Calls
    BY Taken DEF OnWay, WCalls
<1>3. s # << >> /\ Head(s) = "map"
    BY <1>1, <1>2, FitsNext DEF FitsFrom
<1>4. fr # << >> /\ Head(fr) \in WFrames(J) /\ Top(Head(fr), "map")
    BY <1>1, <1>3, TookTop, FramesAre
<1>5. PICK y : y = Accept(Head(fr), x)
    OBVIOUS
<1>6. y \in WFrames(J) /\ Top(y, "pair")
    BY <1>4, <1>5, AcceptKey
<1>7. PICK g, z : g = Push(y, Tail(fr)) /\ z = Push("pair", Tail(s))
    OBVIOUS
<1>8. g \in Seq(WFrames(J))
  <2>1. Tail(fr) \in Seq(WFrames(J))
      BY <1>4, Taken
  <2>. QED  BY <1>6, <1>7, <2>1, PushedIs DEF Push
<1>9. z \in Seq(FrameKinds) /\ z # << >> /\ Head(z) = "pair" /\ Tail(z) = Tail(s)
  <2>1. Tail(s) \in Seq(FrameKinds) /\ "pair" \in FrameKinds
      BY <1>3, Taken DEF FrameKinds
  <2>. QED  BY <1>7, <2>1, PushedIs DEF Push
<1>10. Under(fr, s) /\ Top(y, Head(z))
    BY <1>1, <1>6, <1>9 DEF Aligned
<1>11. Aligned(g, z)
    BY <1>4, <1>6, <1>7, <1>9, <1>10, Retop
<1>12. Fits(z, Push(c, Tail(t)))
    BY <1>1, <1>2, <1>7, TakesKey
<1>13. st # << >> /\ Push(Accept(Head(st), x), Tail(st)) = Stacked(m, g)
  <2>1. /\ st = << >> <=> fr = << >>
        /\ Head(st) = Head(fr) /\ Push(y, Tail(st)) = Stacked(m, Push(y, Tail(fr)))
      BY <1>1, <1>4, <1>6, StackedIs
  <2>. QED  BY <1>4, <1>5, <1>7, <2>1
<1>14. Push(c, Tail(t)) \in Seq(WCalls) /\ Push(c, Tail(t)) # << >>
    BY <1>2, Pushed DEF Push
<1>. QED  BY <1>8, <1>9, <1>11, <1>12, <1>13, <1>14 DEF OnWay

LEMMA ItemsOnWay ==
    ASSUME NEW m \in BOOLEAN, NEW st, NEW t, NEW J, OnWay(m, st, t, J),
           NEW k \in {"list", "map"}, Head(t).op = k,
           NEW x \in WFrames(J), Top(x, k), NEW f \in Seq(WCalls),
           \A i \in 1 .. Len(f) : IF k = "map" THEN f[i].op = "key" ELSE f[i].op \in TTypes,
           NEW c \in WCalls, c.op = IF k = "map" THEN "mapend" ELSE "listend"
    PROVE  OnWay(m, Push(x, st), f \o <<c>> \o Tail(t), J)
<1>1. PICK fr \in Seq(WFrames(J)), s \in Seq(FrameKinds) :
         st = Stacked(m, fr) /\ Aligned(fr, s) /\ Fits(s, t)
    BY DEF OnWay
<1>2. t \in Seq(WCalls) /\ t # << >> /\ Tail(t) \in Seq(WCalls) /\ c \in Calls
    BY Taken DEF OnWay, WCalls
<1>3. Head(t).op \in TTypes /\ Head(t).op # "struct" /\ k \in FrameKinds
    BY OpsAre DEF FrameKinds
<1>4. s # << >> /\ Head(s) # "map"
    BY <1>1, <1>2, <1>3, FitsNext DEF FitsFrom
<1>5. fr # << >>
    BY <1>1, <1>4, NotEmptyTogether
<1>6. PICK g : g = Push(x, fr)
    OBVIOUS
<1>7. g \in Seq(WFrames(J))
    BY <1>6, PushedIs DEF Push
<1>8. Aligned(g, Push(k, Took(s)))
    BY <1>1, <1>3, <1>4, <1>6, Cover
<1>9. f \in Seq(Calls)
  <2>1. WCalls \subseteq Calls
      BY DEF WCalls
  <2>. QED  BY <2>1, SeqMonotonic
<1>10. Fits(Push(k, Took(s)), f \o <<c>> \o Tail(t))
    BY <1>1, <1>2, <1>9, OpensItems
<1>11. Push(x, st) = Stacked(m, g)
    BY <1>1, <1>5, <1>6, StackedIs
<1>12. f \o <<c>> \o Tail(t) \in Seq(WCalls) /\ f \o <<c>> \o Tail(t) # << >>
  <2>1. PICK p : p = Push(c, Tail(t))
      OBVIOUS
  <2>2. p \in Seq(WCalls) /\ p # << >>
      BY <1>2, <2>1, PushedIs DEF Push
  <2>3. f \o <<c>> \o Tail(t) = f \o p
      BY <1>2, <2>1, Joined DEF Push
  <2>4. f \o p \in Seq(WCalls) /\ Len(f \o p) = Len(f) + Len(p)
      BY <2>2, ConcatProperties
  <2>5. Len(f) \in Nat /\ Len(p) \in Nat \ {0}
      BY <2>2, EmptySeq, LenProperties
  <2>6. f \o p # << >>
      BY <2>4, <2>5, EmptySeq
  <2>. QED  BY <2>3, <2>4, <2>6
<1>13. Push(k, Took(s)) \in Seq(FrameKinds)
    BY <1>10, FitsTypes
<1>. QED  BY <1>7, <1>8, <1>10, <1>11, <1>12, <1>13 DEF OnWay

(* The end of a struct, a list or a map: its value goes to the frame under   *)
(* its own, unless it was the last one.                                     *)
LEMMA EndOnWay ==
    ASSUME NEW m \in BOOLEAN, NEW st, NEW t, NEW J, Json(J), OnWay(m, st, t, J), Closes(Head(t)),
           NEW v, v = FrameToValue(Head(st))
    PROVE  /\ st # << >> /\ Head(st) \in WFrames(J) /\ Json(J \cup {v})
           /\ Tail(t) = << >> => Head(t).op = "fields"
           /\ Tail(t) # << >> =>
                /\ ~(Len(st) = 2 /\ st[2].f = "message")
                /\ Tail(st) # << >>
                /\ OnWay(m, Push(Accept(Head(Tail(st)), v), Tail(Tail(st))), Tail(t), J \cup {v})
<1>1. PICK fr \in Seq(WFrames(J)), s \in Seq(FrameKinds) :
         st = Stacked(m, fr) /\ Aligned(fr, s) /\ Fits(s, t)
    BY DEF OnWay
<1>2. t \in Seq(WCalls) /\ t # << >> /\ Tail(t) \in Seq(WCalls)
    BY Taken DEF OnWay
<1>3. /\ s # << >> /\ Head(s) = FrameOf[Head(t).op]
      /\ Tail(s) = << >> <=> Tail(t) = << >>
      /\ Tail(t) = << >> => Head(t).op = "fields"
      /\ Fits(Tail(s), Tail(t))
    BY <1>1, <1>2, FitsNext DEF FitsFrom
<1>4. fr # << >> /\ Head(fr) \in WFrames(J) /\ Top(Head(fr), Head(s))
    BY <1>1, <1>3, TookTop, FramesAre
<1>5. st # << >> /\ Head(st) = Head(fr) /\ (Tail(fr) # << >> => Tail(st) = Stacked(m, Tail(fr)))
    BY <1>1, <1>4, StackedIs
<1>7. Shape(v, J)
    BY <1>4, <1>5, FrameValue
<1>8. PICK L : L = J \cup {v}
    OBVIOUS
<1>9. Json(L) /\ J \subseteq L /\ v \in L
    BY <1>7, <1>8, JsonMore
<1>10. WFrames(J) \subseteq WFrames(L) /\ \A x \in WFrames(J) : x.f # "pair"
    BY <1>9, ShapeMore, FramesAre
<1>11. Tail(fr) = << >> <=> Tail(s) = << >>
    BY <1>1, <1>4, <1>10, Uncover
<1>12. PICK r \in Seq(WFrames(J)), n \in Nat :
         /\ r = Tail(fr) /\ Len(r) = n /\ Len(fr) = n + 1 /\ Head(fr) = fr[1]
         /\ \A i \in 1 .. n : r[i] = fr[i + 1]
    BY <1>4, Rest
<1>14. ASSUME Tail(t) # << >>
       PROVE  /\ ~(Len(st) = 2 /\ st[2].f = "message")
              /\ Tail(st) # << >>
              /\ OnWay(m, Push(Accept(Head(Tail(st)), v), Tail(Tail(st))), Tail(t), L)
  <2>1. r # << >> /\ n \in Nat \ {0}
      BY <1>3, <1>11, <1>12, <1>14, EmptySeq
  <2>2. ~(Len(st) = 2 /\ st[2].f = "message")
    <3>1. CASE m
      <4>1. st = fr \o <<MessageFrame>>
          BY <1>1, <1>4, <3>1 DEF Stacked
      <4>2. Len(st) = (n + 1) + 1
          BY <1>4, <1>12, <4>1, OnMessage
      <4>. QED  BY <2>1, <4>2
    <3>2. CASE ~m
      <4>1. st = fr
          BY <1>1, <3>2 DEF Stacked
      <4>2. Len(st) = 2 => st[2] \in WFrames(J)
        <5>1. Len(st) = 2 => 2 \in 1 .. Len(fr)
            BY <4>1
        <5>. QED  BY <4>1, <5>1, ElementOfSeq
      <4>. QED  BY <4>2, FramesAre
    <3>. QED  BY <3>1, <3>2
  <2>3. Tail(st) = Stacked(m, r)
      BY <1>5, <1>12, <2>1
  <2>4. /\ Waits(Head(r)) /\ Head(r) \in WFrames(J) /\ Head(r) \in WFrames(L)
        /\ r \in Seq(WFrames(L)) /\ Tail(r) \in Seq(WFrames(L))
    <3>1. Waits(Head(r))
        BY <1>1, <1>4, <1>10, <1>12, <2>1, Uncover
    <3>2. Head(r) \in WFrames(J)
        BY <2>1, Taken
    <3>3. r \in Seq(WFrames(L))
        BY <1>10, SeqMonotonic
    <3>4. Tail(r) \in Seq(WFrames(L))
        BY <2>1, <3>3, Taken
    <3>. QED  BY <1>10, <3>1, <3>2, <3>3, <3>4
  <2>5. PICK y : y = Accept(Head(r), v)
      OBVIOUS
  <2>6. y \in WFrames(L) /\ Top(y, Head(r).f)
      BY <1>9, <2>4, <2>5, AcceptValue
  <2>7. PICK g : g = Push(y, Tail(r))
      OBVIOUS
  <2>8. g \in Seq(WFrames(L))
      BY <2>4, <2>6, <2>7, PushedIs DEF Push
  <2>9. Aligned(g, Tail(s))
    <3>1. fr \in Seq(WFrames(L)) /\ \A x \in WFrames(L) : x.f # "pair"
        BY <1>10, SeqMonotonic, FramesAre
    <3>2. \A x \in WFrames(L) : Top(x, Head(r).f) => Aligned(Push(x, Tail(r)), Tail(s))
        BY <1>1, <1>4, <1>12, <2>1, <3>1, Uncover
    <3>. QED  BY <2>6, <2>7, <3>2
  <2>10. Head(Tail(st)) = Head(r) /\ Push(y, Tail(Tail(st))) = Stacked(m, g) /\ Tail(st) # << >>
    <3>1. PICK u : u = Tail(st)
        OBVIOUS
    <3>2. u = Stacked(m, r)
        BY <2>3, <3>1
    <3>3. /\ u = << >> <=> r = << >>
          /\ r # << >> => Head(u) = Head(r) /\ Push(y, Tail(u)) = Stacked(m, Push(y, Tail(r)))
        BY <2>4, <2>6, <3>2, StackedIs
    <3>. QED  BY <2>1, <2>7, <3>1, <3>3
  <2>11. Tail(s) \in Seq(FrameKinds)
      BY <1>3, Taken
  <2>. QED  BY <1>2, <1>3, <1>14, <2>2, <2>5, <2>8, <2>9, <2>10, <2>11 DEF OnWay
<1>. QED  BY <1>3, <1>4, <1>5, <1>8, <1>9, <1>14

LEMMA InnerEnd ==
    ASSUME NEW m \in BOOLEAN, NEW st, NEW t, NEW J, Json(J), OnWay(m, st, t, J), Closes(Head(t)),
           NEW v, v = FrameToValue(Head(st)), Tail(t) # << >> \/ Head(t).op # "fields",
           NEW u, u = Push(Accept(Head(Tail(st)), v), Tail(Tail(st)))
    PROVE  /\ Json(J \cup {v}) /\ Tail(st) # << >> /\ ~(Len(st) = 2 /\ st[2].f = "message")
           /\ OnWay(m, u, Tail(t), J \cup {v})
<1>1. Tail(t) # << >> /\ Json(J \cup {v})
    BY EndOnWay
<1>. QED  BY <1>1, EndOnWay

LEMMA LastEnd ==
    ASSUME NEW m \in BOOLEAN, NEW st, NEW t, NEW J, Json(J), OnWay(m, st, t, J), Closes(Head(t)),
           Tail(t) = << >>
    PROVE  /\ Head(st).f = "struct"
           /\ st = IF m THEN <<Head(st), MessageFrame>> ELSE <<Head(st)>>
<1>1. PICK fr \in Seq(WFrames(J)), s \in Seq(FrameKinds) :
         st = Stacked(m, fr) /\ Aligned(fr, s) /\ Fits(s, t)
    BY DEF OnWay
<1>2. t \in Seq(WCalls) /\ t # << >>
    BY DEF OnWay
<1>3. s # << >> /\ Head(s) = FrameOf[Head(t).op] /\ Head(t).op = "fields" /\ Tail(s) = << >>
    BY <1>1, <1>2, FitsNext DEF FitsFrom
<1>4. Head(s) = "struct"
    BY <1>3 DEF FrameOf
<1>5. fr # << >> /\ Head(fr) \in WFrames(J) /\ Top(Head(fr), Head(s))
    BY <1>1, <1>3, TookTop, FramesAre
<1>6. st # << >> /\ Head(st) = Head(fr)
    BY <1>1, <1>5, StackedIs
<1>7. Head(fr).f = "struct"
    BY <1>4, <1>5 DEF Top, KindOf
<1>8. \A x \in WFrames(J) : x.f # "pair"
    BY FramesAre
<1>9. Tail(fr) = << >>
    BY <1>1, <1>3, <1>5, <1>8, Uncover
<1>10. fr = <<Head(fr)>>
  <2>1. PICK h : h = <<Head(fr)>>
      OBVIOUS
  <2>2. h \in Seq(WFrames(J)) /\ h # << >> /\ Head(h) = Head(fr) /\ Tail(h) = << >>
      BY <1>5, <2>1, SingleSeq, SomeSeqs, TailOfOne
  <2>3. h = fr
      BY <1>5, <1>9, <2>2, SameEnds
  <2>. QED  BY <2>1, <2>3
<1>11. m => st = <<Head(fr)>> \o <<MessageFrame>>
    BY <1>1, <1>5, <1>10 DEF Stacked
<1>12. ~m => st = <<Head(fr)>>
    BY <1>1, <1>10 DEF Stacked
<1>. QED  BY <1>6, <1>7, <1>11, <1>12

-----------------------------------------------------------------------------
(* The reader between two calls.                                            *)
RAligned(rs, s) ==
    /\ Len(rs) = Len(s)
    /\ \A i \in 1 .. Len(rs) : rs[i].f = KindOf(s[i])

OnRead(rs, t, J) ==
    /\ t \in Seq(RCalls) /\ rs \in Seq(RFrames(J))
    /\ \E s \in Seq(FrameKinds) : RAligned(rs, s) /\ Fits(s, t)

LEMMA RTop ==
    ASSUME NEW S, NEW rs \in Seq(S), NEW s \in Seq(FrameKinds), RAligned(rs, s)
    PROVE  /\ rs = << >> <=> s = << >>
           /\ s # << >> => /\ Head(rs) \in S /\ Head(rs).f = KindOf(Head(s))
                           /\ Tail(rs) \in Seq(S) /\ Tail(s) \in Seq(FrameKinds)
<1>1. rs = << >> <=> s = << >>
    BY EmptySeq DEF RAligned
<1>2. ASSUME s # << >> PROVE Head(rs) = rs[1] /\ Head(s) = s[1] /\ 1 \in 1 .. Len(rs)
                             /\ rs[1] \in S /\ Tail(rs) \in Seq(S) /\ Tail(s) \in Seq(FrameKinds)
  <2>1. Len(rs) \in Nat \ {0}
      BY <1>1, <1>2, Taken
  <2>. QED  BY <1>1, <1>2, <2>1, Taken
<1>3. ASSUME s # << >> PROVE Head(rs).f = KindOf(Head(s))
    BY <1>2, <1>3 DEF RAligned
<1>. QED  BY <1>1, <1>2, <1>3

LEMMA RRetop ==
    ASSUME NEW S, NEW rs \in Seq(S), NEW s \in Seq(FrameKinds), rs # << >>, RAligned(rs, s),
           NEW x \in S, NEW z \in Seq(FrameKinds), z # << >>, Tail(z) = Tail(s),
           x.f = KindOf(Head(z))
    PROVE  RAligned(Push(x, Tail(rs)), z)
<1>1. PICK r \in Seq(S), n \in Nat :
         /\ r = Tail(rs) /\ Len(r) = n /\ Len(rs) = n + 1 /\ Head(rs) = rs[1]
         /\ \A i \in 1 .. n : r[i] = rs[i + 1]
    BY Rest
<1>2. PICK p : p = Push(x, r)
    OBVIOUS
<1>3. p # << >> /\ Len(p) = n + 1 /\ p[1] = x
    BY <1>1, <1>2, PushedIs DEF Push
<1>4. \A i \in 1 .. n : p[i + 1] = r[i]
    BY <1>1, <1>2, PushedUnder DEF Push
<1>5. Len(s) = n + 1 /\ s # << >>
    BY <1>1, EmptySeq DEF RAligned
<1>6. /\ Len(Tail(s)) = n /\ \A i \in 1 .. n : Tail(s)[i] = s[i + 1]
    BY <1>5, Taken
<1>7. PICK w \in Seq(FrameKinds), l \in Nat :
         /\ w = Tail(z) /\ Len(w) = l /\ Len(z) = l + 1 /\ Head(z) = z[1]
         /\ \A i \in 1 .. l : w[i] = z[i + 1]
    BY Rest
<1>8. l = n /\ \A i \in 1 .. n : z[i + 1] = s[i + 1]
    BY <1>6, <1>7
<1>9. ASSUME NEW i \in 1 .. n + 1 PROVE p[i].f = KindOf(z[i])
  <2>1. CASE i = 1
      BY <1>3, <1>7, <2>1
  <2>2. CASE i # 1
    <3>1. i - 1 \in 1 .. n /\ (i - 1) + 1 = i
        BY <2>2
    <3>2. p[(i - 1) + 1] = r[i - 1] /\ r[i - 1] = rs[(i - 1) + 1] /\ z[(i - 1) + 1] = s[(i - 1) + 1]
        BY <1>1, <1>4, <1>8, <3>1
    <3>3. p[i] = rs[i] /\ z[i] = s[i]
        BY <3>1, <3>2
    <3>. QED  BY <1>1, <3>3 DEF RAligned
  <2>. QED  BY <2>1, <2>2
<1>10. RAligned(p, z)
    BY <1>3, <1>7, <1>8, <1>9 DEF RAligned
<1>. QED  BY <1>1, <1>2, <1>10

LEMMA RCover ==
    ASSUME NEW S, NEW rs \in Seq(S), NEW s \in Seq(FrameKinds), RAligned(rs, s),
           NEW x \in S, NEW k \in FrameKinds, x.f = KindOf(k)
    PROVE  RAligned(Push(x, rs), Push(k, s))
<1>1. PICK n \in Nat : n = Len(rs)
    BY LenProperties
<1>2. PICK p, z : p = Push(x, rs) /\ z = Push(k, s)
    OBVIOUS
<1>3. p # << >> /\ Len(p) = n + 1 /\ p[1] = x
    BY <1>1, <1>2, PushedIs DEF Push
<1>4. \A i \in 1 .. n : p[i + 1] = rs[i]
    BY <1>1, <1>2, PushedUnder DEF Push
<1>5. z # << >> /\ Len(z) = n + 1 /\ z[1] = k
    BY <1>1, <1>2, PushedIs DEF Push, RAligned
<1>6. \A i \in 1 .. n : z[i + 1] = s[i]
    BY <1>1, <1>2, PushedUnder DEF Push, RAligned
<1>7. ASSUME NEW i \in 1 .. n + 1 PROVE p[i].f = KindOf(z[i])
  <2>1. CASE i = 1
      BY <1>3, <1>5, <2>1
  <2>2. CASE i # 1
    <3>1. i - 1 \in 1 .. n /\ (i - 1) + 1 = i
        BY <2>2
    <3>2. p[(i - 1) + 1] = rs[i - 1] /\ z[(i - 1) + 1] = s[i - 1]
        BY <1>4, <1>6, <3>1
    <3>. QED  BY <1>1, <3>1, <3>2 DEF RAligned
  <2>. QED  BY <2>1, <2>2
<1>8. RAligned(p, z)
    BY <1>3, <1>5, <1>7 DEF RAligned
<1>. QED  BY <1>2, <1>8

LEMMA RUncover ==
    ASSUME NEW S, NEW rs \in Seq(S), NEW s \in Seq(FrameKinds), rs # << >>, RAligned(rs, s)
    PROVE  RAligned(Tail(rs), Tail(s))
<1>1. PICK r \in Seq(S), n \in Nat :
         /\ r = Tail(rs) /\ Len(r) = n /\ Len(rs) = n + 1 /\ Head(rs) = rs[1]
         /\ \A i \in 1 .. n : r[i] = rs[i + 1]
    BY Rest
<1>2. Len(s) = n + 1 /\ s # << >>
    BY <1>1, EmptySeq DEF RAligned
<1>3. Len(Tail(s)) = n /\ \A i \in 1 .. n : Tail(s)[i] = s[i + 1]
    BY <1>2, Taken
<1>4. ASSUME NEW i \in 1 .. n PROVE r[i].f = KindOf(Tail(s)[i])
  <2>1. i + 1 \in 1 .. n + 1
      OBVIOUS
  <2>. QED  BY <1>1, <1>3, <2>1 DEF RAligned
<1>. QED  BY <1>1, <1>3, <1>4 DEF RAligned

LEMMA RTook ==
    ASSUME NEW S, NEW rs \in Seq(S), NEW s \in Seq(FrameKinds), RAligned(rs, s)
    PROVE  RAligned(rs, Took(s)) /\ Took(s) \in Seq(FrameKinds)
BY TookIs DEF RAligned

(* The values that come and the frames they make.                           *)
LEMMA ValueIs ==
    ASSUME NEW J, NEW v, Shape(v, J)
    PROVE  /\ v.j \in {"num", "str", "obj", "list", "map"}
           /\ v.j = "obj" => v.fields \in Fields(J)
           /\ v.j = "list" => /\ v.elem \in Names /\ v.items \in Seq(J)
                              /\ v.size = Len(v.items) /\ v.size \in Nat
           /\ v.j = "map" => /\ v.key \in KeyNames /\ v.val \in Names /\ v.pairs \in Pairs(J)
                             /\ v.size = Cardinality(DOMAIN v.pairs) /\ v.size \in Nat
           /\ v.j \in {"num", "str"} => v.v \in Scalars
<1>1. CASE v \in Texts
    BY <1>1 DEF Texts
<1>2. CASE IsObj(v, J)
    BY <1>2 DEF IsObj, Obj
<1>3. CASE IsList(v, J)
  <2>1. PICK elem \in Names, items \in Seq(J) : v = Array(elem, items)
      BY <1>3 DEF IsList
  <2>2. Len(items) \in Nat
      BY LenProperties
  <2>. QED  BY <2>1, <2>2 DEF Array
<1>4. CASE IsMap(v, J)
  <2>1. PICK key \in KeyNames, val \in Names, pairs \in Pairs(J) : v = Object(key, val, pairs)
      BY <1>4 DEF IsMap
  <2>2. Cardinality(DOMAIN pairs) \in Nat
      BY FiniteFunIs, FS_CardinalityType DEF Pairs
  <2>. QED  BY <2>1, <2>2 DEF Object
<1>. QED  BY <1>1, <1>2, <1>3, <1>4 DEF Shape

LEMMA ScalarIs ==
    ASSUME NEW J, NEW v, Shape(v, J), NEW kind
    PROVE  ScalarOf(kind, v) \in Scalars
BY ValueIs, JsonAssumption DEF ScalarOf

LEMMA NewRFrames ==
    ASSUME NEW J
    PROVE  /\ \A fields \in Fields(J) :
                ReadStruct(fields) \in RFrames(J) /\ ReadStruct(fields).f = "struct"
           /\ \A v : v.items \in Seq(J) => ReadList(v) \in RFrames(J) /\ ReadList(v).f = "list"
           /\ \A v : v.key \in KeyNames /\ v.pairs \in Pairs(J) =>
                ReadMap(v) \in RFrames(J) /\ ReadMap(v).f = "map"
<1>1. ASSUME NEW ks, ks \subseteq Nat, IsFiniteSet(ks) PROVE InTextOrder(ks) \in Seq(Nat)
    BY <1>1, InOrder, SeqMonotonic
<1>2. ASSUME NEW fields \in Fields(J)
      PROVE  ReadStruct(fields) \in RFrames(J) /\ ReadStruct(fields).f = "struct"
  <2>1. InTextOrder(DOMAIN fields) \in Seq(Nat)
      BY <1>1, FiniteFunIs DEF Fields
  <2>. QED  BY <2>1 DEF ReadStruct, RFrames
<1>3. ASSUME NEW v, v.items \in Seq(J)
      PROVE  ReadList(v) \in RFrames(J) /\ ReadList(v).f = "list"
    BY <1>3 DEF ReadList, RFrames
<1>4. ASSUME NEW v, v.key \in KeyNames, v.pairs \in Pairs(J)
      PROVE  ReadMap(v) \in RFrames(J) /\ ReadMap(v).f = "map"
  <2>1. DOMAIN v.pairs \subseteq Scalars /\ IsFiniteSet(DOMAIN v.pairs)
      BY <1>4, FiniteFunIs DEF Pairs
  <2>2. InTextOrder(DOMAIN v.pairs) \in Seq(Nat)
      BY <1>1, <2>1, JsonAssumption
  <2>. QED  BY <1>4, <2>2 DEF ReadMap, RFrames
<1>. QED  BY <1>2, <1>3, <1>4

LEMMA NextIs ==
    ASSUME NEW J, Json(J), NEW rs \in Seq(RFrames(J)), rs # << >>, HasNext(rs)
    PROVE  Shape(NextValue(rs), J)
<1>1. PICK fr \in RFrames(J) : fr = Head(rs)
    BY Taken
<1>2. CASE fr.f = "struct"
  <2>1. fr.value # << >>
      BY <1>1, <1>2 DEF HasNext
  <2>2. PICK v \in J : fr.value = <<v>>
      BY <1>2, <2>1 DEF RFrames
  <2>3. NextValue(rs) = v
      BY <1>1, <1>2, <2>2 DEF NextValue
  <2>. QED  BY <2>3 DEF Json
<1>3. CASE fr.f = "list"
  <2>1. fr.items \in Seq(J) /\ fr.index \in 1 .. Len(fr.items)
    <3>1. fr.items \in Seq(J) /\ fr.index \in Nat \ {0}
        BY <1>3 DEF RFrames
    <3>2. fr.index <= Len(fr.items)
        BY <1>1, <1>3 DEF HasNext
    <3>. QED  BY <3>1, <3>2, LenProperties
  <2>2. fr.items[fr.index] \in J
      BY <2>1, ElementOfSeq
  <2>3. NextValue(rs) = fr.items[fr.index]
      BY <1>1, <1>3 DEF NextValue
  <2>. QED  BY <2>2, <2>3 DEF Json
<1>4. CASE fr.f = "map"
  <2>1. /\ fr.pairs \in Pairs(J) /\ fr.keys = InTextOrder(DOMAIN fr.pairs)
        /\ fr.index \in Nat \ {0} /\ fr.keys \in Seq(Nat)
      BY <1>4 DEF RFrames
  <2>2. /\ DOMAIN fr.pairs \subseteq Scalars /\ IsFiniteSet(DOMAIN fr.pairs)
        /\ \A k \in DOMAIN fr.pairs : fr.pairs[k] \in J
      BY <2>1, FiniteFunIs DEF Pairs
  <2>3. fr.keys \in Seq(DOMAIN fr.pairs)
      BY <2>1, <2>2, InOrder, JsonAssumption
  <2>4. fr.index \in 1 .. Len(fr.keys)
    <3>1. fr.index <= Len(fr.keys)
        BY <1>1, <1>4 DEF HasNext
    <3>. QED  BY <2>1, <3>1, LenProperties
  <2>5. PICK k \in DOMAIN fr.pairs : k = fr.keys[fr.index]
      BY <2>3, <2>4, ElementOfSeq
  <2>6. NextValue(rs) = IF fr.readingKey THEN MapKeyToValue(fr.key, k) ELSE fr.pairs[k]
      BY <1>1, <1>4, <2>5 DEF NextValue
  <2>7. MapKeyToValue(fr.key, k) \in Texts
      BY <2>2 DEF MapKeyToValue, Num, Str, Texts
  <2>8. Shape(MapKeyToValue(fr.key, k), J)
      BY <2>7 DEF Shape
  <2>9. Shape(fr.pairs[k], J)
      BY <2>2 DEF Json
  <2>. QED  BY <2>6, <2>8, <2>9
<1>. QED  BY <1>2, <1>3, <1>4 DEF RFrames

LEMMA AfterIs ==
    ASSUME NEW J, NEW rs \in Seq(RFrames(J)), rs # << >>
    PROVE  \E x \in RFrames(J) : AfterNext(rs) = Push(x, Tail(rs)) /\ x.f = Head(rs).f
<1>1. PICK fr \in RFrames(J) : fr = Head(rs)
    BY Taken
<1> DEFINE x == CASE fr.f = "struct" -> [fr EXCEPT !.value = << >>]
                  [] fr.f = "list"   -> [fr EXCEPT !.index = @ + 1]
                  [] fr.f = "map"    ->
                       [fr EXCEPT !.readingKey = ~@,
                                  !.index = IF fr.readingKey THEN @ ELSE @ + 1]
<1>2. AfterNext(rs) = Push(x, Tail(rs))
    BY <1>1, Zenon DEF AfterNext
<1>3. CASE fr.f = "struct"
  <2>1. x = [fr EXCEPT !.value = << >>]
      BY <1>3
  <2> HIDE DEF x
  <2>2. x \in RFrames(J) /\ x.f = fr.f
      BY <1>3, <2>1 DEF RFrames
  <2>. QED  BY <1>1, <1>2, <2>2
<1>4. CASE fr.f = "list"
  <2>1. x = [fr EXCEPT !.index = fr.index + 1]
      BY <1>4
  <2> HIDE DEF x
  <2>2. fr \in [f : {"list"}, items : Seq(J), index : Nat \ {0}]
      BY <1>4 DEF RFrames
  <2>3. x \in [f : {"list"}, items : Seq(J), index : Nat \ {0}] /\ x.f = fr.f
      BY <2>1, <2>2
  <2>4. x \in RFrames(J) /\ x.f = fr.f
      BY <2>3 DEF RFrames
  <2>. QED  BY <1>1, <1>2, <2>4
<1>5. CASE fr.f = "map"
  <2>1. x = [fr EXCEPT !.readingKey = ~fr.readingKey,
                       !.index = IF fr.readingKey THEN fr.index ELSE fr.index + 1]
      BY <1>5
  <2> HIDE DEF x
  <2>2. /\ fr \in [f : {"map"}, key : KeyNames, pairs : Pairs(J), keys : Seq(Nat),
                    index : Nat \ {0}, readingKey : BOOLEAN]
        /\ fr.keys = InTextOrder(DOMAIN fr.pairs)
      BY <1>5 DEF RFrames
  <2>3. /\ x \in [f : {"map"}, key : KeyNames, pairs : Pairs(J), keys : Seq(Nat),
                   index : Nat \ {0}, readingKey : BOOLEAN]
        /\ x.keys = InTextOrder(DOMAIN x.pairs) /\ x.f = fr.f
    <3>1. fr.index + 1 \in Nat \ {0} /\ (~fr.readingKey) \in BOOLEAN
        BY <2>2
    <3>. QED  BY <2>1, <2>2, <3>1
  <2>4. x \in RFrames(J) /\ x.f = fr.f
      BY <2>3 DEF RFrames
  <2>. QED  BY <1>1, <1>2, <2>4
<1>. QED  BY <1>3, <1>4, <1>5 DEF RFrames

LEMMA ScalarOnRead ==
    ASSUME NEW J, NEW rs, NEW t, OnRead(rs, t, J), t # << >>, Head(t).op \in Kinds
    PROVE  rs # << >> /\ OnRead(AfterNext(rs), Tail(t), J)
<1>1. PICK s \in Seq(FrameKinds) : RAligned(rs, s) /\ Fits(s, t)
    BY DEF OnRead
<1>2. t \in Seq(RCalls) /\ Tail(t) \in Seq(RCalls) /\ rs \in Seq(RFrames(J))
    BY Taken DEF OnRead
<1>3. Head(t).op \in TTypes /\ Head(t).op # "struct"
    BY DEF TTypes, Kinds
<1>4. s # << >> /\ Fits(Took(s), Tail(t))
    BY <1>1, <1>3, FitsNext DEF FitsFrom
<1>5. rs # << >> /\ Head(rs).f = KindOf(Head(s))
    BY <1>1, <1>2, <1>4, RTop
<1>6. PICK x \in RFrames(J) : AfterNext(rs) = Push(x, Tail(rs)) /\ x.f = Head(rs).f
    BY <1>2, <1>5, AfterIs
<1>7. RAligned(rs, Took(s)) /\ Took(s) \in Seq(FrameKinds)
    BY <1>1, <1>2, RTook
<1>8. Took(s) # << >> /\ Head(rs).f = KindOf(Head(Took(s)))
  <2>1. Took(s) # << >>
      BY <1>4, TookIs
  <2>. QED  BY <1>2, <1>7, <2>1, RTop
<1>9. PICK p : p = Push(x, Tail(rs))
    OBVIOUS
<1>10. p \in Seq(RFrames(J))
  <2>1. Tail(rs) \in Seq(RFrames(J))
      BY <1>2, <1>5, Taken
  <2>. QED  BY <1>9, <2>1, PushedIs DEF Push
<1>11. RAligned(p, Took(s))
    BY <1>2, <1>5, <1>6, <1>7, <1>8, <1>9, RRetop
<1>. QED  BY <1>2, <1>4, <1>5, <1>6, <1>7, <1>9, <1>10, <1>11 DEF OnRead

LEMMA KeyOnRead ==
    ASSUME NEW J, NEW rs, NEW t, OnRead(rs, t, J), t # << >>, Head(t).op = "key",
           NEW c \in RCalls, c.op \in TTypes
    PROVE  rs # << >> /\ OnRead(AfterNext(rs), Push(c, Tail(t)), J)
<1>1. PICK s \in Seq(FrameKinds) : RAligned(rs, s) /\ Fits(s, t)
    BY DEF OnRead
<1>2. t \in Seq(RCalls) /\ Tail(t) \in Seq(RCalls) /\ rs \in Seq(RFrames(J)) /\ c \in Calls
    BY Taken DEF OnRead, RCalls
<1>4. s # << >> /\ Head(s) = "map"
    BY <1>1, FitsNext DEF FitsFrom
<1>5. rs # << >> /\ Head(rs).f = "map"
    BY <1>1, <1>2, <1>4, RTop DEF KindOf
<1>6. PICK x \in RFrames(J) : AfterNext(rs) = Push(x, Tail(rs)) /\ x.f = Head(rs).f
    BY <1>2, <1>5, AfterIs
<1>7. PICK z : z = Push("pair", Tail(s))
    OBVIOUS
<1>8. z \in Seq(FrameKinds) /\ z # << >> /\ Head(z) = "pair" /\ Tail(z) = Tail(s)
  <2>1. Tail(s) \in Seq(FrameKinds) /\ "pair" \in FrameKinds
      BY <1>4, Taken DEF FrameKinds
  <2>. QED  BY <1>7, <2>1, PushedIs DEF Push
<1>9. PICK p : p = Push(x, Tail(rs))
    OBVIOUS
<1>10. p \in Seq(RFrames(J))
  <2>1. Tail(rs) \in Seq(RFrames(J))
      BY <1>2, <1>5, Taken
  <2>. QED  BY <1>9, <2>1, PushedIs DEF Push
<1>11. RAligned(p, z)
  <2>1. x.f = KindOf(Head(z))
      BY <1>5, <1>6, <1>8 DEF KindOf
  <2>. QED  BY <1>1, <1>2, <1>5, <1>8, <1>9, <2>1, RRetop
<1>12. Fits(z, Push(c, Tail(t)))
    BY <1>1, <1>2, <1>7, TakesKey
<1>13. Push(c, Tail(t)) \in Seq(RCalls)
    BY <1>2, Pushed DEF Push
<1>. QED  BY <1>5, <1>6, <1>8, <1>9, <1>10, <1>11, <1>12, <1>13 DEF OnRead

LEMMA AfterOnRead ==
    ASSUME NEW J, NEW rs \in Seq(RFrames(J)), NEW s \in Seq(FrameKinds), RAligned(rs, s)
    PROVE  /\ AfterNext(rs) \in Seq(RFrames(J)) /\ RAligned(AfterNext(rs), Took(s))
           /\ Took(s) \in Seq(FrameKinds)
<1>1. RAligned(rs, Took(s)) /\ Took(s) \in Seq(FrameKinds)
    BY RTook
<1>2. CASE rs = << >>
    BY <1>1, <1>2 DEF AfterNext
<1>3. CASE rs # << >>
  <2>1. PICK x \in RFrames(J) : AfterNext(rs) = Push(x, Tail(rs)) /\ x.f = Head(rs).f
      BY <1>3, AfterIs
  <2>2. Took(s) # << >> /\ Head(rs).f = KindOf(Head(Took(s)))
      BY <1>1, <1>3, RTop
  <2>3. PICK p : p = Push(x, Tail(rs))
      OBVIOUS
  <2>4. p \in Seq(RFrames(J))
    <3>1. Tail(rs) \in Seq(RFrames(J))
        BY <1>3, Taken
    <3>. QED  BY <2>3, <3>1, PushedIs DEF Push
  <2>5. RAligned(p, Took(s))
      BY <1>1, <1>3, <2>1, <2>2, <2>3, RRetop
  <2>. QED  BY <1>1, <2>1, <2>3, <2>4, <2>5
<1>. QED  BY <1>2, <1>3

LEMMA StructOnRead ==
    ASSUME NEW J, NEW rs, NEW t, OnRead(rs, t, J), t # << >>, Head(t).op = "struct",
           NEW c \in RCalls, c.op = "fields", NEW fields \in Fields(J)
    PROVE  OnRead(Push(ReadStruct(fields), AfterNext(rs)), Push(c, Tail(t)), J)
<1>1. PICK s \in Seq(FrameKinds) : RAligned(rs, s) /\ Fits(s, t)
    BY DEF OnRead
<1>2. t \in Seq(RCalls) /\ Tail(t) \in Seq(RCalls) /\ rs \in Seq(RFrames(J)) /\ c \in Calls
    BY Taken DEF OnRead, RCalls
<1>3. PICK a : a = AfterNext(rs)
    OBVIOUS
<1>4. a \in Seq(RFrames(J)) /\ RAligned(a, Took(s)) /\ Took(s) \in Seq(FrameKinds)
    BY <1>1, <1>2, <1>3, AfterOnRead
<1>5. ReadStruct(fields) \in RFrames(J) /\ ReadStruct(fields).f = "struct"
    BY NewRFrames
<1>6. "struct" \in FrameKinds /\ KindOf("struct") = "struct"
    BY DEF FrameKinds, KindOf
<1>7. RAligned(Push(ReadStruct(fields), a), Push("struct", Took(s)))
    BY <1>4, <1>5, <1>6, RCover
<1>8. Fits(Push("struct", Took(s)), Push(c, Tail(t)))
    BY <1>1, <1>2, OpensStruct
<1>9. PICK p : p = Push(ReadStruct(fields), a)
    OBVIOUS
<1>10. p \in Seq(RFrames(J))
    BY <1>4, <1>5, <1>9, PushedIs DEF Push
<1>11. Push(c, Tail(t)) \in Seq(RCalls) /\ Push("struct", Took(s)) \in Seq(FrameKinds)
    BY <1>2, <1>8, Pushed, FitsTypes DEF Push
<1>. QED  BY <1>3, <1>7, <1>8, <1>9, <1>10, <1>11 DEF OnRead

LEMMA ItemsOnRead ==
    ASSUME NEW J, NEW rs, NEW t, OnRead(rs, t, J), t # << >>,
           NEW k \in {"list", "map"}, Head(t).op = k,
           NEW x \in RFrames(J), x.f = k, NEW f \in Seq(RCalls),
           \A i \in 1 .. Len(f) : IF k = "map" THEN f[i].op = "key" ELSE f[i].op \in TTypes,
           NEW c \in RCalls, c.op = IF k = "map" THEN "mapend" ELSE "listend"
    PROVE  rs # << >> /\ OnRead(Push(x, AfterNext(rs)), f \o <<c>> \o Tail(t), J)
<1>1. PICK s \in Seq(FrameKinds) : RAligned(rs, s) /\ Fits(s, t)
    BY DEF OnRead
<1>2. t \in Seq(RCalls) /\ Tail(t) \in Seq(RCalls) /\ rs \in Seq(RFrames(J)) /\ c \in Calls
    BY Taken DEF OnRead, RCalls
<1>3. PICK a : a = AfterNext(rs)
    OBVIOUS
<1>4. a \in Seq(RFrames(J)) /\ RAligned(a, Took(s)) /\ Took(s) \in Seq(FrameKinds)
    BY <1>1, <1>2, <1>3, AfterOnRead
<1>5. k \in FrameKinds /\ KindOf(k) = k
    BY DEF FrameKinds, KindOf
<1>6. RAligned(Push(x, a), Push(k, Took(s)))
    BY <1>4, <1>5, RCover
<1>7. f \in Seq(Calls)
  <2>1. RCalls \subseteq Calls
      BY DEF RCalls
  <2>. QED  BY <2>1, SeqMonotonic
<1>8. Fits(Push(k, Took(s)), f \o <<c>> \o Tail(t))
    BY <1>1, <1>2, <1>7, OpensItems
<1>9. PICK p : p = Push(x, a)
    OBVIOUS
<1>10. p \in Seq(RFrames(J))
    BY <1>4, <1>9, PushedIs DEF Push
<1>11. f \o <<c>> \o Tail(t) \in Seq(RCalls)
  <2>1. PICK q : q = Push(c, Tail(t))
      OBVIOUS
  <2>2. q \in Seq(RCalls)
      BY <1>2, <2>1, PushedIs DEF Push
  <2>3. f \o <<c>> \o Tail(t) = f \o q
      BY <1>2, <2>1, Joined DEF Push
  <2>. QED  BY <2>2, <2>3, ConcatProperties
<1>12. rs # << >>
  <2>1. k \in TTypes /\ k # "struct"
      BY OpsAre
  <2>2. s # << >>
      BY <1>1, <2>1, FitsNext DEF FitsFrom
  <2>. QED  BY <1>1, <1>2, <2>2, RTop
<1>13. Push(k, Took(s)) \in Seq(FrameKinds)
    BY <1>8, FitsTypes
<1>. QED  BY <1>3, <1>6, <1>8, <1>9, <1>10, <1>11, <1>12, <1>13 DEF OnRead

LEMMA FieldOnRead ==
    ASSUME NEW J, NEW rs, NEW t, OnRead(rs, t, J), t # << >>, Head(t).op = "fields",
           NEW c \in RCalls, c.op \in TTypes, NEW x \in RFrames(J), x.f = "struct"
    PROVE  OnRead(Push(x, Tail(rs)), Push(c, t), J)
<1>1. PICK s \in Seq(FrameKinds) : RAligned(rs, s) /\ Fits(s, t)
    BY DEF OnRead
<1>2. /\ t \in Seq(RCalls) /\ Head(t) \in Calls /\ rs \in Seq(RFrames(J)) /\ c \in Calls
      /\ RCalls \subseteq Calls
    BY Taken DEF OnRead, RCalls
<1>3. s # << >> /\ Head(s) = "struct"
    BY <1>1, FitsNext DEF FitsFrom, Closes, FrameOf
<1>4. rs # << >> /\ Tail(rs) \in Seq(RFrames(J))
    BY <1>1, <1>2, <1>3, RTop
<1>5. PICK d : d = Push(Head(t), Tail(t))
    OBVIOUS
<1>6. d = t
  <2>1. t \in Seq(Calls) /\ Tail(t) \in Seq(Calls)
      BY <1>2, SeqMonotonic, Taken
  <2>2. d \in Seq(Calls) /\ d # << >> /\ Head(d) = Head(t) /\ Tail(d) = Tail(t)
      BY <1>2, <1>5, <2>1, PushedIs DEF Push
  <2>. QED  BY <2>1, <2>2, SameEnds
<1>7. Fits(s, Push(c, Push(Head(t), Tail(t))))
    BY <1>1, <1>2, BeginsField
<1>8. PICK p : p = Push(x, Tail(rs))
    OBVIOUS
<1>9. p \in Seq(RFrames(J))
    BY <1>4, <1>8, PushedIs DEF Push
<1>10. RAligned(p, s)
    BY <1>1, <1>2, <1>3, <1>4, <1>8, RRetop DEF KindOf
<1>11. Push(c, t) \in Seq(RCalls)
    BY <1>2, Pushed DEF Push
<1>. QED  BY <1>5, <1>6, <1>7, <1>8, <1>9, <1>10, <1>11 DEF OnRead

LEMMA EndOnRead ==
    ASSUME NEW J, NEW rs, NEW t, OnRead(rs, t, J), t # << >>, Closes(Head(t))
    PROVE  rs # << >> /\ OnRead(Tail(rs), Tail(t), J)
<1>1. PICK s \in Seq(FrameKinds) : RAligned(rs, s) /\ Fits(s, t)
    BY DEF OnRead
<1>2. t \in Seq(RCalls) /\ Tail(t) \in Seq(RCalls) /\ rs \in Seq(RFrames(J))
    BY Taken DEF OnRead
<1>3. s # << >> /\ Fits(Tail(s), Tail(t))
    BY <1>1, FitsNext DEF FitsFrom
<1>4. rs # << >> /\ Tail(rs) \in Seq(RFrames(J)) /\ Tail(s) \in Seq(FrameKinds)
    BY <1>1, <1>2, <1>3, RTop
<1>5. RAligned(Tail(rs), Tail(s))
    BY <1>1, <1>2, <1>4, RUncover
<1>. QED  BY <1>2, <1>3, <1>4, <1>5 DEF OnRead

-----------------------------------------------------------------------------
(* The inductive invariant.                                                 *)
DocOf(v) == IF asMessage THEN <<[j |-> "message", body |-> v]>> ELSE <<v>>

Writing(J) == doc = << >> /\ OnWay(asMessage, wstack, wtodo, J)

BodyDone(J) ==
    /\ asMessage /\ wtodo = << >> /\ doc = << >>
    /\ \E x \in WFrames(J) : x.f = "struct" /\ wstack = <<x, MessageFrame>>

AllWritten(J) == Written /\ \E v : IsObj(v, J) /\ doc = DocOf(v)

Stands(J) == Writing(J) \/ BodyDone(J) \/ AllWritten(J)

Ghosts ==
    /\ asMessage \in BOOLEAN
    /\ given \subseteq Seq(Nat) \X (Scalars \cup {NaN})
    /\ got \subseteq Seq(Nat) \X Scalars

JsonInv ==
    /\ Ghosts
    /\ root \in {<< >>, doc}
    /\ ~Written => rstack = << >>
    /\ \E J : Json(J) /\ Stands(J) /\ OnRead(rstack, rtodo, J)

LEMMA StandsIs ==
    ASSUME NEW J, Stands(J)
    PROVE  /\ wtodo # << >> => Writing(J)
           /\ wtodo = << >> /\ wstack # << >> => BodyDone(J)
           /\ Written => AllWritten(J)
           /\ ~Written => doc = << >>
<1>1. Writing(J) => wtodo # << >> /\ doc = << >>
    BY DEF Writing, OnWay
<1>2. BodyDone(J) => wtodo = << >> /\ wstack # << >> /\ doc = << >>
    BY DEF BodyDone
<1>3. AllWritten(J) => wtodo = << >> /\ wstack = << >>
    BY DEF AllWritten, Written
<1>. QED  BY <1>1, <1>2, <1>3 DEF Stands, Written

(* While it writes nothing is read.                                         *)
LEMMA WriteStep ==
    ASSUME JsonInv, ~Written, UNCHANGED <<asMessage, reader>>, Ghosts',
           NEW J, NEW L, Json(L), Stands(L)', OnRead(rstack, rtodo, J)
    PROVE  JsonInv'
<1>1. rstack = << >> /\ root \in {<< >>, doc} /\ doc = << >>
  <2>1. PICK K : Stands(K)
      BY DEF JsonInv
  <2>. QED  BY <2>1, StandsIs DEF JsonInv
<1>2. rstack' = << >> /\ root' = << >> /\ rtodo' = rtodo
    BY <1>1 DEF reader
<1>3. OnRead(rstack', rtodo', L)
  <2>1. rstack' \in Seq(RFrames(L))
      BY <1>2, EmptySeq
  <2>. QED  BY <1>1, <1>2, <2>1 DEF OnRead
<1>4. \E K : Json(K) /\ Stands(K)' /\ OnRead(rstack', rtodo', K)
    BY <1>3
<1>. QED  BY <1>2, <1>4 DEF JsonInv, Ghosts, Written, Stands, Writing, BodyDone, AllWritten, DocOf

LEMMA Started == Init => JsonInv
<1> SUFFICES ASSUME Init PROVE JsonInv
    OBVIOUS
<1>1. PICK name \in Roots : wtodo = <<RootCall(name)>> /\ rtodo = <<RootCall(name)>>
    BY DEF Init
<1>2. PICK c : c = RootCall(name)
    OBVIOUS
<1>3. c \in WCalls /\ c \in RCalls /\ c \in Calls /\ c.op = "struct"
  <2>1. name \in DOMAIN Structs
      BY JsonAssumption
  <2>2. <<"struct", name>> \in Types /\ <<"struct", name>> \in Seq(Words)
      BY <2>1, StructType, TypeIs
  <2>3. /\ c \in Calls /\ c.op = "struct" /\ c.type = <<"struct", name>> /\ c.known = TRUE
    <3>1. "struct" \in TTypes \cup {"key"} /\ << >> \in Seq(Nat) /\ TRUE \in BOOLEAN
        BY OpsAre, EmptySeq
    <3>2. PICK t : t = <<"struct", name>>
        OBVIOUS
    <3>3. PICK p : p = << >>
        OBVIOUS
    <3>4. t \in Seq(Words) /\ p \in Seq(Nat)
        BY <2>2, <3>1, <3>2, <3>3
    <3>5. c = Call("struct", t, p, TRUE)
        BY <1>2, <3>2, <3>3 DEF RootCall
    <3>6. c = [op |-> "struct", type |-> t, path |-> p, known |-> TRUE, at |-> 0]
        BY <3>5 DEF Call
    <3>. QED  BY <3>1, <3>2, <3>4, <3>6 DEF Calls
  <2>4. Meant(c)
      BY <2>2, <2>3, SomeSeqs DEF Meant
  <2>. QED  BY <2>3, <2>4 DEF WCalls, RCalls
<1>4. PICK e : e = << >>
    OBVIOUS
<1>5. e \in Seq(FrameKinds) /\ e \in Seq(Calls) /\ Fits(e, e) /\ Took(e) = e
    BY <1>4, EmptySeq, FitsEnd DEF Took
<1>6. Fits(e, Push(c, e))
  <2>1. ~Closes(c) /\ c.op # "key" /\ c.op \in TTypes
      BY <1>3, OpsAre DEF Closes
  <2>. QED  BY <1>3, <1>4, <1>5, <2>1, FitsPush
<1>7. Push(c, e) = <<c>>
    BY <1>3, <1>4, ConcatEmptySeq, SingleSeq DEF Push
<1>8. wtodo = <<c>> /\ rtodo = <<c>> /\ <<c>> # << >> /\ <<c>> \in Seq(WCalls) /\ <<c>> \in Seq(RCalls)
    BY <1>1, <1>2, <1>3, SingleSeq
<1>9. OnWay(asMessage, e, <<c>>, {})
  <2>1. e \in Seq(WFrames({})) /\ e = Stacked(asMessage, e) /\ Aligned(e, e)
      BY <1>4, EmptySeq DEF Stacked, Aligned, Under
  <2>. QED  BY <1>5, <1>6, <1>7, <1>8, <2>1 DEF OnWay
<1>10. OnRead(e, <<c>>, {})
  <2>1. e \in Seq(RFrames({})) /\ RAligned(e, e)
      BY <1>4, EmptySeq DEF RAligned
  <2>. QED  BY <1>5, <1>6, <1>7, <1>8, <2>1 DEF OnRead
<1>11. Json({}) /\ Stands({}) /\ OnRead(rstack, rtodo, {})
    BY <1>4, <1>8, <1>9, <1>10 DEF Json, Stands, Writing, Init
<1>12. Ghosts
    BY DEF Init, Ghosts
<1>13. \E J : Json(J) /\ Stands(J) /\ OnRead(rstack, rtodo, J)
    BY <1>11
<1>. QED  BY <1>12, <1>13 DEF Init, JsonInv

LEMMA WriterIs ==
    ASSUME JsonInv, wtodo # << >>
    PROVE  \E J : /\ Json(J) /\ OnRead(rstack, rtodo, J) /\ doc = << >>
                  /\ OnWay(asMessage, wstack, wtodo, J)
                  /\ wtodo \in Seq(WCalls) /\ Head(wtodo) \in WCalls /\ Head(wtodo) \in Calls
                  /\ ~Written /\ asMessage \in BOOLEAN
<1>1. PICK J : Json(J) /\ Stands(J) /\ OnRead(rstack, rtodo, J)
    BY DEF JsonInv
<1>2. doc = << >> /\ OnWay(asMessage, wstack, wtodo, J)
    BY <1>1, StandsIs DEF Writing
<1>3. wtodo \in Seq(WCalls) /\ Head(wtodo) \in WCalls
    BY <1>2, Taken DEF OnWay
<1>4. ~Written /\ asMessage \in BOOLEAN
    BY DEF Written, JsonInv, Ghosts
<1>. QED  BY <1>1, <1>2, <1>3, <1>4 DEF WCalls

LEMMA StillWriting ==
    ASSUME NEW L, UNCHANGED asMessage, doc' = << >>, OnWay(asMessage, wstack', wtodo', L)
    PROVE  Stands(L)'
BY DEF Stands, Writing

LEMMA ScalarTexts ==
    /\ \A kind \in Kinds : \A v \in Values(kind) :
         ScalarJson(kind, v) \in Texts /\ v \in Scalars \cup {NaN}
    /\ \A kind \in {"num", "str"} : \A v \in Scalars : ScalarJson(kind, v) \in Texts
<1>1. 0 \in Scalars /\ Scalars \subseteq Nat /\ ~(NaN \in Nat)
    BY JsonAssumption DEF NaN
<1>. QED  BY <1>1 DEF ScalarJson, Values, Texts, Num, Str, Kinds

LEMMA WritesStruct == ASSUME JsonInv, WriteStructBegin PROVE JsonInv'
<1>1. wtodo # << >> /\ Head(wtodo).op = "struct"
    BY DEF WriteStructBegin, Writes
<1>2. PICK J : /\ Json(J) /\ OnRead(rstack, rtodo, J) /\ doc = << >>
               /\ OnWay(asMessage, wstack, wtodo, J)
               /\ wtodo \in Seq(WCalls) /\ Head(wtodo) \in WCalls /\ Head(wtodo) \in Calls
               /\ ~Written /\ asMessage \in BOOLEAN
    BY <1>1, WriterIs
<1>3. PICK c : c = At([Head(wtodo) EXCEPT !.op = "fields"], 1)
    OBVIOUS
<1>4. c \in WCalls /\ c.op = "fields"
  <2>1. "fields" \in DOMAIN FrameOf /\ 1 \in Nat /\ Head(wtodo).op \in {"struct", "fields"}
      BY <1>1, OpsAre
  <2>. QED  BY <1>2, <1>3, <2>1, NextCall
<1>5. OnWay(asMessage, wstack', wtodo', J)
  <2>1. wtodo' = Push(c, Tail(wtodo))
      BY <1>3 DEF WriteStructBegin
  <2>2. wstack' = IF asMessage /\ wstack = << >> THEN <<StructFrame, MessageFrame>>
                  ELSE Push(StructFrame, wstack)
      BY DEF WriteStructBegin, MessageFrame
  <2>. QED  BY <1>1, <1>2, <1>4, <2>1, <2>2, StructOnWay
<1>6. Stands(J)'
    BY <1>2, <1>5, StillWriting DEF WriteStructBegin
<1>7. UNCHANGED <<asMessage, reader>> /\ Ghosts'
    BY DEF WriteStructBegin, JsonInv, Ghosts, reader
<1>. QED  BY <1>2, <1>6, <1>7, WriteStep

LEMMA WritesField == ASSUME JsonInv, WriteFieldBegin PROVE JsonInv'
<1>1. wtodo # << >> /\ Head(wtodo).op = "fields"
    BY DEF WriteFieldBegin, Writes
<1>2. PICK J : /\ Json(J) /\ OnRead(rstack, rtodo, J) /\ doc = << >>
               /\ OnWay(asMessage, wstack, wtodo, J)
               /\ wtodo \in Seq(WCalls) /\ Head(wtodo) \in WCalls /\ Head(wtodo) \in Calls
               /\ ~Written /\ asMessage \in BOOLEAN
    BY <1>1, WriterIs
<1>3. PICK call : call = Head(wtodo)
    OBVIOUS
<1>4. PICK i \in DOMAIN Structs[call.type[2]] : LET f == Structs[call.type[2]][i] IN
         /\ wtodo' = <<ValueCall(f.type, Append(call.path, f.id), call.known /\ f.known),
                       At(call, i + 1)>> \o Tail(wtodo)
         /\ wstack' = Push([Head(wstack) EXCEPT
                              !.current = <<[id |-> f.id, name |-> JsonName[f.type[1]]]>>],
                           Tail(wstack))
    BY <1>3, Zenon DEF WriteFieldBegin
<1>5. call.type[2] \in DOMAIN Structs
  <2>1. Meant(call) /\ call.type \in Types /\ call.type[1] = "struct"
      BY <1>1, <1>2, <1>3 DEF WCalls, Meant
  <2>. QED  BY <2>1, TypeIs
<1>6. PICK f : f = Structs[call.type[2]][i]
    OBVIOUS
<1>7. f \in Range(Structs[call.type[2]]) /\ i \in Nat
  <2>1. Structs[call.type[2]] \in Seq(Field)
      BY <1>5, JsonAssumption
  <2>. QED  BY <1>6, <2>1, LenProperties DEF Range
<1>8. f.type \in Types /\ f.id \in Nat /\ f.known \in BOOLEAN /\ f.type[1] \in TTypes
    BY <1>5, <1>7, FieldIs, TypesAre, TypeIs DEF Field
<1>9. PICK c : c = ValueCall(f.type, Append(call.path, f.id), call.known /\ f.known)
    OBVIOUS
<1>10. c \in WCalls /\ c.op \in TTypes
  <2>1. Append(call.path, f.id) \in Seq(Nat) /\ (call.known /\ f.known) \in BOOLEAN
      BY <1>2, <1>3, <1>8, CallIs
  <2>. QED  BY <1>8, <1>9, <2>1, NewValueCall
<1>11. PICK d : d = At(call, i + 1)
    OBVIOUS
<1>12. d \in WCalls /\ d.op = "fields"
  <2>1. d.op = "fields" /\ d.type = call.type /\ d \in Calls
    <3>1. i + 1 \in Nat /\ call \in Calls /\ call.op = "fields"
        BY <1>1, <1>2, <1>3, <1>7
    <3>2. d = [call EXCEPT !.at = i + 1]
        BY <1>11 DEF At
    <3>. QED  BY <3>1, <3>2 DEF Calls
  <2>2. Meant(d) /\ d.op # "key"
      BY <1>1, <1>2, <1>3, <2>1 DEF Meant, WCalls
  <2>. QED  BY <2>1, <2>2 DEF WCalls
<1>13. PICK x : x = [id |-> f.id, name |-> JsonName[f.type[1]]]
    OBVIOUS
<1>14. x \in [id : Nat, name : Names]
    BY <1>8, <1>13, NamesAre
<1>15. OnWay(asMessage, wstack', wtodo', J)
  <2>1. Tail(wtodo) \in Seq(WCalls)
      BY <1>1, <1>2, Taken
  <2>2. wtodo' = Push(c, Push(d, Tail(wtodo)))
    <3>1. wtodo' = <<c, d>> \o Tail(wtodo)
        BY <1>4, <1>6, <1>9, <1>11
    <3>. QED  BY <1>10, <1>12, <2>1, <3>1, JoinTwo DEF Push
  <2>3. wstack' = Push([Head(wstack) EXCEPT !.current = <<x>>], Tail(wstack))
      BY <1>4, <1>6, <1>13
  <2>. QED  BY <1>1, <1>2, <1>10, <1>12, <1>14, <2>2, <2>3, FieldOnWay
<1>16. Stands(J)'
    BY <1>2, <1>15, StillWriting DEF WriteFieldBegin
<1>17. UNCHANGED <<asMessage, reader>> /\ Ghosts'
    BY DEF WriteFieldBegin, JsonInv, Ghosts, reader
<1>. QED  BY <1>2, <1>16, <1>17, WriteStep

LEMMA WritesScalar == ASSUME JsonInv, WriteScalar PROVE JsonInv'
<1>1. wtodo # << >> /\ Head(wtodo).op \in Kinds
    BY DEF WriteScalar
<1>2. PICK J : /\ Json(J) /\ OnRead(rstack, rtodo, J) /\ doc = << >>
               /\ OnWay(asMessage, wstack, wtodo, J)
               /\ wtodo \in Seq(WCalls) /\ Head(wtodo) \in WCalls /\ Head(wtodo) \in Calls
               /\ ~Written /\ asMessage \in BOOLEAN
    BY <1>1, WriterIs
<1>3. PICK v \in Values(Head(wtodo).op) :
         /\ PushValue(ScalarJson(Head(wtodo).op, v), wstack)
         /\ given' = IF Head(wtodo).known THEN given \cup {<<Head(wtodo).path, v>>} ELSE given
    BY DEF WriteScalar
<1>4. PICK x : x = ScalarJson(Head(wtodo).op, v)
    OBVIOUS
<1>5. x \in Texts /\ v \in Scalars \cup {NaN}
    BY <1>1, <1>4, ScalarTexts
<1>6. Json(J \cup {x})
    BY <1>2, <1>5, JsonMore DEF Shape
<1>7. wstack # << >> /\ OnWay(asMessage, Push(Accept(Head(wstack), x), Tail(wstack)), Tail(wtodo), J \cup {x})
    BY <1>1, <1>2, <1>5, ScalarOnWay
<1>8. wstack' = Push(Accept(Head(wstack), x), Tail(wstack)) /\ doc' = doc
    BY <1>3, <1>4, <1>7 DEF PushValue
<1>9. Stands(J \cup {x})'
    BY <1>2, <1>7, <1>8, StillWriting DEF WriteScalar
<1>10. UNCHANGED <<asMessage, reader>> /\ Ghosts'
  <2>1. Head(wtodo).path \in Seq(Nat)
      BY <1>2, CallIs
  <2>. QED  BY <1>3, <1>5, <2>1 DEF WriteScalar, JsonInv, Ghosts, reader
<1>. QED  BY <1>2, <1>6, <1>9, <1>10, WriteStep

LEMMA WritesKey == ASSUME JsonInv, WriteKey PROVE JsonInv'
<1>1. wtodo # << >> /\ Head(wtodo).op = "key"
    BY DEF WriteKey, Writes
<1>2. PICK J : /\ Json(J) /\ OnRead(rstack, rtodo, J) /\ doc = << >>
               /\ OnWay(asMessage, wstack, wtodo, J)
               /\ wtodo \in Seq(WCalls) /\ Head(wtodo) \in WCalls /\ Head(wtodo) \in Calls
               /\ ~Written /\ asMessage \in BOOLEAN
    BY <1>1, WriterIs
<1>3. PICK call : call = Head(wtodo)
    OBVIOUS
<1>4. /\ call.at \in Scalars /\ call.type[2] \in {"num", "str"}
      /\ Tail(Tail(call.type)) \in Types /\ call.known \in BOOLEAN
      /\ Append(call.path, call.at) \in Seq(Nat)
  <2>1. call.at \in Scalars /\ call.type \in Types /\ call.type[1] = "map"
      BY <1>1, <1>2, <1>3 DEF WCalls, Meant
  <2>2. Scalars \subseteq Nat
      BY JsonAssumption
  <2>. QED  BY <1>2, <1>3, <2>1, <2>2, CallIs, TypeIs
<1>5. PICK x : x = ScalarJson(KeyOf(call.type), call.at)
    OBVIOUS
<1>6. x \in Texts
    BY <1>4, <1>5, ScalarTexts DEF KeyOf
<1>7. PICK c : c = ValueCall(ValueOf(call.type), Append(call.path, call.at), call.known)
    OBVIOUS
<1>8. c \in WCalls /\ c.op \in TTypes
    BY <1>4, <1>7, NewValueCall DEF ValueOf
<1>9. wstack # << >> /\ OnWay(asMessage, Push(Accept(Head(wstack), x), Tail(wstack)), Push(c, Tail(wtodo)), J)
    BY <1>1, <1>2, <1>6, <1>8, KeyOnWay
<1>10. /\ wstack' = Push(Accept(Head(wstack), x), Tail(wstack)) /\ doc' = doc
       /\ wtodo' = Push(c, Tail(wtodo))
    BY <1>3, <1>5, <1>7, <1>9 DEF PushValue, WriteKey
<1>11. Stands(J)'
    BY <1>2, <1>9, <1>10, StillWriting DEF WriteKey
<1>12. UNCHANGED <<asMessage, reader>> /\ Ghosts'
    BY DEF WriteKey, JsonInv, Ghosts, reader
<1>. QED  BY <1>2, <1>11, <1>12, WriteStep

LEMMA WritesList == ASSUME JsonInv, WriteListBegin PROVE JsonInv'
<1>1. wtodo # << >> /\ Head(wtodo).op = "list"
    BY DEF WriteListBegin, Writes
<1>2. PICK J : /\ Json(J) /\ OnRead(rstack, rtodo, J) /\ doc = << >>
               /\ OnWay(asMessage, wstack, wtodo, J)
               /\ wtodo \in Seq(WCalls) /\ Head(wtodo) \in WCalls /\ Head(wtodo) \in Calls
               /\ ~Written /\ asMessage \in BOOLEAN
    BY <1>1, WriterIs
<1>3. PICK call, elem : call = Head(wtodo) /\ elem = Tail(call.type)
    OBVIOUS
<1>4. elem \in Types /\ elem[1] \in TTypes /\ call.known \in BOOLEAN /\ call.path \in Seq(Nat)
  <2>1. call.type \in Types /\ call.type[1] = "list"
      BY <1>1, <1>2, <1>3, OpsAre DEF WCalls, Meant
  <2>. QED  BY <1>2, <1>3, <2>1, CallIs, TypeIs
<1>5. PICK n \in 0 .. MaxSize :
         /\ \E name \in ElemNames(n, elem[1]) : wstack' = Push(ListFrame(name), wstack)
         /\ wtodo' = [k \in 1 .. n |-> ValueCall(elem, Append(call.path, k), call.known)]
                       \o <<[call EXCEPT !.op = "listend"]>> \o Tail(wtodo)
    BY <1>3 DEF WriteListBegin
<1>6. PICK name \in ElemNames(n, elem[1]) : wstack' = Push(ListFrame(name), wstack)
    BY <1>5
<1>7. PICK x : x = ListFrame(name)
    OBVIOUS
<1>8. x \in WFrames(J) /\ Top(x, "list")
  <2>1. name \in Names
      BY <1>4, NamesAre DEF ElemNames
  <2>. QED  BY <1>7, <2>1, NewFrames
<1>9. PICK c : c = [call EXCEPT !.op = "listend"]
    OBVIOUS
<1>10. c \in WCalls /\ c.op = "listend"
  <2>1. "listend" \in DOMAIN FrameOf /\ 1 \in Nat
      BY OpsAre
  <2>. QED  BY <1>2, <1>3, <1>9, <2>1, NextCall
<1>11. PICK f : f = [k \in 1 .. n |-> ValueCall(elem, Append(call.path, k), call.known)]
    OBVIOUS
<1>12. \A k \in 1 .. n : /\ ValueCall(elem, Append(call.path, k), call.known) \in WCalls
                         /\ ValueCall(elem, Append(call.path, k), call.known).op \in TTypes
  <2> SUFFICES ASSUME NEW k \in 1 .. n
               PROVE  /\ ValueCall(elem, Append(call.path, k), call.known) \in WCalls
                      /\ ValueCall(elem, Append(call.path, k), call.known).op \in TTypes
      OBVIOUS
  <2>1. k \in Nat
      BY JsonAssumption
  <2>2. Append(call.path, k) \in Seq(Nat)
      BY <1>4, <2>1, AppendProperties
  <2>. QED  BY <1>4, <2>2, NewValueCall
<1>13. n \in Nat /\ f \in Seq(WCalls) /\ Len(f) = n /\ \A k \in 1 .. n : f[k].op \in TTypes
  <2>1. n \in Nat
      BY JsonAssumption
  <2>2. f \in [1 .. n -> WCalls] /\ \A k \in 1 .. n : f[k].op \in TTypes
      BY <1>11, <1>12
  <2>. QED  BY <2>1, <2>2
<1>14. OnWay(asMessage, wstack', wtodo', J)
  <2>1. wtodo' = f \o <<c>> \o Tail(wtodo) /\ wstack' = Push(x, wstack)
      BY <1>5, <1>6, <1>7, <1>9, <1>11
  <2>. QED  BY <1>1, <1>2, <1>8, <1>10, <1>13, <2>1, ItemsOnWay
<1>15. Stands(J)'
    BY <1>2, <1>14, StillWriting DEF WriteListBegin
<1>16. UNCHANGED <<asMessage, reader>> /\ Ghosts'
    BY DEF WriteListBegin, JsonInv, Ghosts, reader
<1>. QED  BY <1>2, <1>15, <1>16, WriteStep

LEMMA WritesMap == ASSUME JsonInv, WriteMapBegin PROVE JsonInv'
<1>1. wtodo # << >> /\ Head(wtodo).op = "map"
    BY DEF WriteMapBegin, Writes
<1>2. PICK J : /\ Json(J) /\ OnRead(rstack, rtodo, J) /\ doc = << >>
               /\ OnWay(asMessage, wstack, wtodo, J)
               /\ wtodo \in Seq(WCalls) /\ Head(wtodo) \in WCalls /\ Head(wtodo) \in Calls
               /\ ~Written /\ asMessage \in BOOLEAN
    BY <1>1, WriterIs
<1>3. PICK call : call = Head(wtodo)
    OBVIOUS
<1>4. /\ call.type \in Types /\ call.type[1] = "map" /\ call.type \in Seq(Words)
      /\ KeyOf(call.type) \in {"num", "str"} /\ ValueOf(call.type)[1] \in TTypes
      /\ call.known \in BOOLEAN /\ call.path \in Seq(Nat)
  <2>1. call.type \in Types /\ call.type[1] = "map"
      BY <1>1, <1>2, <1>3, OpsAre DEF WCalls, Meant
  <2>2. call.type[2] \in {"num", "str"} /\ Tail(Tail(call.type)) \in Types
      BY <2>1, TypeIs
  <2>. QED  BY <1>2, <1>3, <2>1, <2>2, CallIs, TypeIs DEF KeyOf, ValueOf
<1>5. PICK n \in 0 .. MaxSize : \E keys \in [1 .. n -> Scalars] :
         /\ IsInjective(keys)
         /\ \E k \in ElemNames(n, KeyOf(call.type)), v \in ElemNames(n, ValueOf(call.type)[1]) :
              wstack' = Push(MapFrame(k, v), wstack)
         /\ wtodo' = [i \in 1 .. n |-> At(KeyCall(call.type, call.path, call.known), keys[i])]
                       \o <<[call EXCEPT !.op = "mapend"]>> \o Tail(wtodo)
    BY <1>3 DEF WriteMapBegin
<1>6. PICK keys \in [1 .. n -> Scalars] :
         /\ \E k \in ElemNames(n, KeyOf(call.type)), v \in ElemNames(n, ValueOf(call.type)[1]) :
              wstack' = Push(MapFrame(k, v), wstack)
         /\ wtodo' = [i \in 1 .. n |-> At(KeyCall(call.type, call.path, call.known), keys[i])]
                       \o <<[call EXCEPT !.op = "mapend"]>> \o Tail(wtodo)
    BY <1>5
<1>7. PICK k \in ElemNames(n, KeyOf(call.type)), v \in ElemNames(n, ValueOf(call.type)[1]) :
         wstack' = Push(MapFrame(k, v), wstack)
    BY <1>6
<1>8. PICK x : x = MapFrame(k, v)
    OBVIOUS
<1>9. x \in WFrames(J) /\ Top(x, "map")
  <2>1. k \in KeyNames /\ v \in Names
      BY <1>4, NamesAre DEF ElemNames
  <2>. QED  BY <1>8, <2>1, NewFrames
<1>10. PICK c : c = [call EXCEPT !.op = "mapend"]
    OBVIOUS
<1>11. c \in WCalls /\ c.op = "mapend"
  <2>1. "mapend" \in DOMAIN FrameOf /\ 1 \in Nat
      BY OpsAre
  <2>. QED  BY <1>2, <1>3, <1>10, <2>1, NextCall
<1>12. PICK f : f = [i \in 1 .. n |-> At(KeyCall(call.type, call.path, call.known), keys[i])]
    OBVIOUS
<1>13. \A i \in 1 .. n : /\ At(KeyCall(call.type, call.path, call.known), keys[i]) \in WCalls
                         /\ At(KeyCall(call.type, call.path, call.known), keys[i]).op = "key"
  <2> SUFFICES ASSUME NEW i \in 1 .. n
               PROVE  /\ At(KeyCall(call.type, call.path, call.known), keys[i]) \in WCalls
                      /\ At(KeyCall(call.type, call.path, call.known), keys[i]).op = "key"
      OBVIOUS
  <2>1. keys[i] \in Scalars /\ keys[i] \in Nat
      BY JsonAssumption
  <2>. QED  BY <1>4, <2>1, NewKeyCall
<1>14. n \in Nat /\ f \in Seq(WCalls) /\ Len(f) = n /\ \A i \in 1 .. n : f[i].op = "key"
  <2>1. n \in Nat
      BY JsonAssumption
  <2>2. f \in [1 .. n -> WCalls] /\ \A i \in 1 .. n : f[i].op = "key"
      BY <1>12, <1>13
  <2>. QED  BY <2>1, <2>2
<1>15. OnWay(asMessage, wstack', wtodo', J)
  <2>1. wtodo' = f \o <<c>> \o Tail(wtodo) /\ wstack' = Push(x, wstack)
      BY <1>6, <1>7, <1>8, <1>10, <1>12
  <2>. QED  BY <1>1, <1>2, <1>9, <1>11, <1>14, <2>1, ItemsOnWay
<1>16. Stands(J)'
    BY <1>2, <1>15, StillWriting DEF WriteMapBegin
<1>17. UNCHANGED <<asMessage, reader>> /\ Ghosts'
    BY DEF WriteMapBegin, JsonInv, Ghosts, reader
<1>. QED  BY <1>2, <1>16, <1>17, WriteStep

LEMMA WritesContainerEnd == ASSUME JsonInv, WriteContainerEnd PROVE JsonInv'
<1>1. wtodo # << >> /\ Head(wtodo).op \in {"listend", "mapend"}
    BY DEF WriteContainerEnd
<1>2. PICK J : /\ Json(J) /\ OnRead(rstack, rtodo, J) /\ doc = << >>
               /\ OnWay(asMessage, wstack, wtodo, J)
               /\ wtodo \in Seq(WCalls) /\ Head(wtodo) \in WCalls /\ Head(wtodo) \in Calls
               /\ ~Written /\ asMessage \in BOOLEAN
    BY <1>1, WriterIs
<1>3. PICK v : v = FrameToValue(Head(wstack))
    OBVIOUS
<1>4. Closes(Head(wtodo)) /\ Head(wtodo).op # "fields"
    BY <1>1, OpsAre DEF Closes
<1>5. /\ Json(J \cup {v}) /\ Tail(wstack) # << >>
      /\ OnWay(asMessage, Push(Accept(Head(Tail(wstack)), v), Tail(Tail(wstack))), Tail(wtodo), J \cup {v})
    BY <1>2, <1>3, <1>4, InnerEnd
<1>6. /\ wstack' = Push(Accept(Head(Tail(wstack)), v), Tail(Tail(wstack))) /\ doc' = doc
      /\ wtodo' = Tail(wtodo)
    BY <1>3, <1>5 DEF PushValue, WriteContainerEnd
<1>7. Stands(J \cup {v})'
    BY <1>2, <1>5, <1>6, StillWriting DEF WriteContainerEnd
<1>8. UNCHANGED <<asMessage, reader>> /\ Ghosts'
    BY DEF WriteContainerEnd, JsonInv, Ghosts, reader
<1>. QED  BY <1>2, <1>5, <1>7, <1>8, WriteStep

LEMMA WritesStructEnd == ASSUME JsonInv, WriteStructEnd PROVE JsonInv'
<1>1. wtodo # << >> /\ Head(wtodo).op = "fields" /\ wtodo' = Tail(wtodo)
    BY DEF WriteStructEnd, Writes
<1>2. PICK J : /\ Json(J) /\ OnRead(rstack, rtodo, J) /\ doc = << >>
               /\ OnWay(asMessage, wstack, wtodo, J)
               /\ wtodo \in Seq(WCalls) /\ Head(wtodo) \in WCalls /\ Head(wtodo) \in Calls
               /\ ~Written /\ asMessage \in BOOLEAN
    BY <1>1, WriterIs
<1>3. PICK v : v = FrameToValue(Head(wstack))
    OBVIOUS
<1>4. Closes(Head(wtodo))
    BY <1>1, OpsAre DEF Closes
<1>5. wstack # << >> /\ Head(wstack) \in WFrames(J) /\ Json(J \cup {v})
    BY <1>2, <1>3, <1>4, EndOnWay
<1>6. UNCHANGED <<asMessage, reader>> /\ Ghosts'
    BY DEF WriteStructEnd, JsonInv, Ghosts, reader
<1>7. CASE Tail(wtodo) # << >>
  <2>1. /\ ~(Len(wstack) = 2 /\ wstack[2].f = "message") /\ Tail(wstack) # << >>
        /\ OnWay(asMessage, Push(Accept(Head(Tail(wstack)), v), Tail(Tail(wstack))), Tail(wtodo), J \cup {v})
      BY <1>2, <1>3, <1>4, <1>7, InnerEnd
  <2>2. wstack' = Push(Accept(Head(Tail(wstack)), v), Tail(Tail(wstack))) /\ doc' = doc
      BY <1>3, <2>1 DEF PushValue, WriteStructEnd
  <2>3. Stands(J \cup {v})'
      BY <1>1, <1>2, <1>6, <2>1, <2>2, StillWriting
  <2>. QED  BY <1>2, <1>5, <1>6, <2>3, WriteStep
<1>8. CASE Tail(wtodo) = << >>
  <2>1. /\ Head(wstack).f = "struct"
        /\ wstack = IF asMessage THEN <<Head(wstack), MessageFrame>> ELSE <<Head(wstack)>>
      BY <1>2, <1>4, <1>8, LastEnd
  <2>2. CASE asMessage
    <3>1. PICK x : x = Head(wstack)
        OBVIOUS
    <3>2. wstack = <<x, MessageFrame>>
        BY <2>1, <2>2, <3>1
    <3>3. Len(wstack) = 2 /\ wstack[2].f = "message"
        BY <3>2, SomeSeqs DEF MessageFrame
    <3>4. wstack' = wstack /\ doc' = doc
        BY <3>3 DEF WriteStructEnd
    <3>5. BodyDone(J)'
        BY <1>1, <1>2, <1>5, <1>6, <1>8, <2>1, <2>2, <3>1, <3>2, <3>4 DEF BodyDone
    <3>. QED  BY <1>2, <1>6, <3>5, WriteStep DEF Stands
  <2>3. CASE ~asMessage
    <3>1. PICK x : x = Head(wstack)
        OBVIOUS
    <3>2. wstack = <<x>>
        BY <2>1, <2>3, <3>1
    <3>3. Len(wstack) = 1 /\ Tail(wstack) = << >>
        BY <3>2, SomeSeqs, TailOfOne
    <3>4. wstack' = << >> /\ doc' = <<v>>
        BY <1>3, <3>3 DEF WriteStructEnd, PushValue
    <3>5. IsObj(v, J)
        BY <1>3, <1>5, <2>1, FrameValue
    <3>6. AllWritten(J)'
        BY <1>1, <1>6, <1>8, <2>3, <3>4, <3>5 DEF AllWritten, Written, DocOf
    <3>. QED  BY <1>2, <1>6, <3>6, WriteStep DEF Stands
  <2>. QED  BY <2>2, <2>3
<1>. QED  BY <1>7, <1>8

LEMMA WritesMessageEnd == ASSUME JsonInv, WriteMessageEnd PROVE JsonInv'
<1>1. wtodo = << >> /\ wstack # << >> /\ ~Written
    BY DEF WriteMessageEnd, Written
<1>2. PICK J : Json(J) /\ Stands(J) /\ OnRead(rstack, rtodo, J)
    BY DEF JsonInv
<1>3. BodyDone(J)
    BY <1>1, <1>2, StandsIs
<1>4. PICK x \in WFrames(J) : x.f = "struct" /\ wstack = <<x, MessageFrame>>
    BY <1>3 DEF BodyDone
<1>5. Head(wstack) = x /\ Tail(Tail(wstack)) = << >>
    BY <1>4
<1>6. PICK v : v = FrameToValue(x)
    OBVIOUS
<1>7. IsObj(v, J)
    BY <1>4, <1>6, FrameValue
<1>8. UNCHANGED <<asMessage, reader>> /\ Ghosts'
    BY DEF WriteMessageEnd, JsonInv, Ghosts, reader
<1>9. AllWritten(J)'
  <2>1. wtodo' = << >> /\ wstack' = << >> /\ doc' = <<[j |-> "message", body |-> v]>>
      BY <1>1, <1>5, <1>6 DEF WriteMessageEnd
  <2>2. asMessage' /\ DocOf(v)' = <<[j |-> "message", body |-> v]>>
      BY <1>3, <1>8 DEF BodyDone, DocOf
  <2>. QED  BY <1>7, <2>1, <2>2 DEF AllWritten, Written
<1>. QED  BY <1>1, <1>2, <1>8, <1>9, WriteStep DEF Stands

LEMMA ReaderIs ==
    ASSUME JsonInv, Written, rtodo # << >>
    PROVE  \E J : /\ Json(J) /\ Stands(J) /\ OnRead(rstack, rtodo, J)
                  /\ \E v : IsObj(v, J) /\ doc = DocOf(v)
                  /\ rtodo \in Seq(RCalls) /\ rstack \in Seq(RFrames(J))
                  /\ Head(rtodo) \in RCalls /\ Head(rtodo) \in Calls
<1>1. PICK J : Json(J) /\ Stands(J) /\ OnRead(rstack, rtodo, J)
    BY DEF JsonInv
<1>2. \E v : IsObj(v, J) /\ doc = DocOf(v)
    BY <1>1, StandsIs DEF AllWritten
<1>3. rtodo \in Seq(RCalls) /\ rstack \in Seq(RFrames(J)) /\ Head(rtodo) \in RCalls
    BY <1>1, Taken DEF OnRead
<1>. QED  BY <1>1, <1>2, <1>3 DEF RCalls

LEMMA ReadStep ==
    ASSUME JsonInv, Written, UNCHANGED <<asMessage, writer>>, Ghosts', root' \in {<< >>, doc},
           NEW J, Json(J), Stands(J), OnRead(rstack', rtodo', J)
    PROVE  JsonInv'
<1>1. Written' /\ doc' = doc
    BY DEF Written, writer
<1>2. Stands(J)'
    BY DEF Stands, Writing, BodyDone, AllWritten, Written, DocOf, writer
<1>3. \E K : Json(K) /\ Stands(K)' /\ OnRead(rstack', rtodo', K)
    BY <1>2
<1>. QED  BY <1>1, <1>3 DEF JsonInv

LEMMA RootStays == ASSUME JsonInv, TakesRoot PROVE root' \in {<< >>, doc}
BY DEF JsonInv, TakesRoot

(* A call for a struct leaves one for its fields.                           *)
LEMMA ReadsStruct ==
    ASSUME JsonInv, Reads("struct"), UNCHANGED <<asMessage, got, writer>>,
           root' \in {<< >>, doc},
           rtodo' = Push([Head(rtodo) EXCEPT !.op = "fields"], Tail(rtodo)),
           \A J : Json(J) /\ rstack \in Seq(RFrames(J)) /\ (\E v : IsObj(v, J) /\ doc = DocOf(v)) =>
             \E fields \in Fields(J) : rstack' = Push(ReadStruct(fields), AfterNext(rstack))
    PROVE  JsonInv'
<1>1. Written /\ rtodo # << >> /\ Head(rtodo).op = "struct"
    BY DEF Reads
<1>2. PICK J : /\ Json(J) /\ Stands(J) /\ OnRead(rstack, rtodo, J)
               /\ \E v : IsObj(v, J) /\ doc = DocOf(v)
               /\ rtodo \in Seq(RCalls) /\ rstack \in Seq(RFrames(J))
               /\ Head(rtodo) \in RCalls /\ Head(rtodo) \in Calls
    BY <1>1, ReaderIs
<1>3. PICK fields \in Fields(J) : rstack' = Push(ReadStruct(fields), AfterNext(rstack))
    BY <1>2
<1>4. PICK c : c = [Head(rtodo) EXCEPT !.op = "fields"]
    OBVIOUS
<1>5. c \in RCalls /\ c.op = "fields"
  <2>1. "fields" \in DOMAIN FrameOf /\ 1 \in Nat /\ Head(rtodo).op \in {"struct", "fields"}
      BY <1>1, OpsAre
  <2>. QED  BY <1>2, <1>4, <2>1, NextCall
<1>6. OnRead(rstack', rtodo', J)
  <2>1. OnRead(Push(ReadStruct(fields), AfterNext(rstack)), Push(c, Tail(rtodo)), J)
      BY <1>1, <1>2, <1>5, StructOnRead
  <2>2. rtodo' = Push(c, Tail(rtodo))
      BY <1>4
  <2>. QED  BY <1>3, <2>1, <2>2
<1>7. Ghosts'
    BY DEF JsonInv, Ghosts, writer
<1>. QED  BY <1>1, <1>2, <1>6, <1>7, ReadStep

LEMMA ReadsMessage == ASSUME JsonInv, ReadMessageBegin PROVE JsonInv'
<1>1. /\ Reads("struct") /\ UNCHANGED <<asMessage, got, writer>> /\ root' \in {<< >>, doc}
      /\ rtodo' = Push([Head(rtodo) EXCEPT !.op = "fields"], Tail(rtodo))
      /\ asMessage /\ rstack = << >>
    BY DEF ReadMessageBegin
<1>2. ASSUME NEW J, Json(J), \E v : IsObj(v, J) /\ doc = DocOf(v)
      PROVE  \E fields \in Fields(J) : rstack' = Push(ReadStruct(fields), AfterNext(rstack))
  <2>1. PICK v : IsObj(v, J) /\ doc = DocOf(v)
      BY <1>2
  <2>2. PICK fields \in Fields(J) : v = Obj(fields)
      BY <2>1 DEF IsObj
  <2>3. doc[1].body = v /\ v.fields = fields
      BY <1>1, <2>1, <2>2 DEF DocOf, Obj
  <2>4. rstack' = <<ReadStruct(fields)>>
      BY <2>3 DEF ReadMessageBegin
  <2>5. Push(ReadStruct(fields), AfterNext(rstack)) = <<ReadStruct(fields)>>
    <3>1. AfterNext(rstack) = << >>
        BY <1>1 DEF AfterNext
    <3>2. ReadStruct(fields) \in RFrames(J) /\ <<ReadStruct(fields)>> \in Seq(RFrames(J))
        BY NewRFrames, SingleSeq
    <3>. QED  BY <3>1, <3>2, ConcatEmptySeq DEF Push
  <2>. QED  BY <2>4, <2>5
<1>. QED  BY <1>1, <1>2, ReadsStruct

LEMMA ReadsStructBegin == ASSUME JsonInv, ReadStructBegin PROVE JsonInv'
<1>1. /\ Reads("struct") /\ UNCHANGED <<asMessage, got, writer>> /\ root' = root
      /\ rtodo' = Push([Head(rtodo) EXCEPT !.op = "fields"], Tail(rtodo))
      /\ ~(asMessage /\ rstack = << >>) /\ CanReadStruct
    BY DEF ReadStructBegin
<1>2. ASSUME NEW J, Json(J), rstack \in Seq(RFrames(J)), \E v : IsObj(v, J) /\ doc = DocOf(v)
      PROVE  \E fields \in Fields(J) : rstack' = Push(ReadStruct(fields), AfterNext(rstack))
  <2>1. PICK u : u = IF rstack = << >> THEN doc[1] ELSE NextValue(rstack)
      OBVIOUS
  <2>2. rstack' = Push(ReadStruct(u.fields), AfterNext(rstack))
      BY <2>1 DEF ReadStructBegin
  <2>3. CASE rstack = << >>
    <3>1. PICK v : IsObj(v, J) /\ doc = DocOf(v)
        BY <1>2
    <3>2. PICK fields \in Fields(J) : v = Obj(fields)
        BY <3>1 DEF IsObj
    <3>3. u.fields = fields
        BY <1>1, <2>1, <2>3, <3>1, <3>2 DEF DocOf, Obj
    <3>. QED  BY <2>2, <3>3
  <2>4. CASE rstack # << >>
    <3>1. HasNext(rstack) /\ u.j = "obj"
        BY <1>1, <2>1, <2>4 DEF CanReadStruct
    <3>2. Shape(u, J)
        BY <1>2, <2>1, <2>4, <3>1, NextIs
    <3>3. u.fields \in Fields(J)
        BY <3>1, <3>2, ValueIs
    <3>. QED  BY <2>2, <3>3
  <2>. QED  BY <2>3, <2>4
<1>3. root' \in {<< >>, doc}
    BY <1>1 DEF JsonInv
<1>. QED  BY <1>1, <1>2, <1>3, ReadsStruct

LEMMA ReadsScalar == ASSUME JsonInv, ReadScalar PROVE JsonInv'
<1>1. Written /\ rtodo # << >> /\ Head(rtodo).op \in Kinds /\ HasNext(rstack)
    BY DEF ReadScalar
<1>2. PICK J : /\ Json(J) /\ Stands(J) /\ OnRead(rstack, rtodo, J)
               /\ rtodo \in Seq(RCalls) /\ rstack \in Seq(RFrames(J))
               /\ Head(rtodo) \in RCalls /\ Head(rtodo) \in Calls
    BY <1>1, ReaderIs
<1>3. rstack # << >> /\ OnRead(AfterNext(rstack), Tail(rtodo), J)
    BY <1>1, <1>2, ScalarOnRead
<1>4. OnRead(rstack', rtodo', J)
    BY <1>3 DEF ReadScalar
<1>5. Ghosts'
  <2>1. ScalarOf(Head(rtodo).op, NextValue(rstack)) \in Scalars
      BY <1>1, <1>2, <1>3, NextIs, ScalarIs
  <2>2. Head(rtodo).path \in Seq(Nat)
      BY <1>2, CallIs
  <2>3. got' \subseteq Seq(Nat) \X Scalars
      BY <2>1, <2>2 DEF ReadScalar, JsonInv, Ghosts
  <2>. QED  BY <2>3 DEF ReadScalar, JsonInv, Ghosts, writer
<1>6. root' \in {<< >>, doc} /\ UNCHANGED <<asMessage, writer>>
    BY RootStays DEF ReadScalar
<1>. QED  BY <1>1, <1>2, <1>4, <1>5, <1>6, ReadStep

LEMMA ReadsKey == ASSUME JsonInv, ReadKey PROVE JsonInv'
<1>1. Written /\ rtodo # << >> /\ Head(rtodo).op = "key" /\ HasNext(rstack)
    BY DEF ReadKey, Reads
<1>2. PICK J : /\ Json(J) /\ Stands(J) /\ OnRead(rstack, rtodo, J)
               /\ rtodo \in Seq(RCalls) /\ rstack \in Seq(RFrames(J))
               /\ Head(rtodo) \in RCalls /\ Head(rtodo) \in Calls
    BY <1>1, ReaderIs
<1>3. PICK call, k : call = Head(rtodo) /\ k = ScalarOf(KeyOf(call.type), NextValue(rstack))
    OBVIOUS
<1>4. PICK c : c = ValueCall(ValueOf(call.type), Append(call.path, k), call.known)
    OBVIOUS
<1>5. rstack # << >>
  <2>1. PICK s \in Seq(FrameKinds) : RAligned(rstack, s) /\ Fits(s, rtodo)
      BY <1>2 DEF OnRead
  <2>2. s # << >>
      BY <1>1, <2>1, FitsNext DEF FitsFrom
  <2>. QED  BY <1>2, <2>1, <2>2, RTop
<1>6. Append(call.path, k) \in Seq(Nat)
  <2>1. k \in Scalars
      BY <1>1, <1>2, <1>3, <1>5, NextIs, ScalarIs
  <2>. QED  BY <1>2, <1>3, <2>1, CallIs, JsonAssumption
<1>7. c \in RCalls /\ c.op \in TTypes
  <2>1. CASE call.known
    <3>1. call.type \in Types /\ call.type[1] = "map"
        BY <1>1, <1>2, <1>3, <2>1 DEF RCalls, Meant
    <3>2. ValueOf(call.type) \in Types
        BY <3>1, TypeIs DEF ValueOf
    <3>. QED  BY <1>4, <1>6, <2>1, <3>2, NewValueCall
  <2>2. CASE ~call.known
    <3>1. PICK key, val \in TTypes : call.type = <<"map", key, val>>
        BY <1>1, <1>2, <1>3, <2>2 DEF RCalls, Skipped
    <3>2. ValueOf(call.type) = <<val>>
        BY <3>1 DEF ValueOf
    <3>3. call.known = FALSE
        BY <1>2, <1>3, <2>2, CallIs
    <3>. QED  BY <1>4, <1>6, <3>2, <3>3, NewSkipped
  <2>. QED  BY <2>1, <2>2
<1>8. OnRead(rstack', rtodo', J)
  <2>1. OnRead(AfterNext(rstack), Push(c, Tail(rtodo)), J)
      BY <1>1, <1>2, <1>7, KeyOnRead
  <2>2. rstack' = AfterNext(rstack) /\ rtodo' = Push(c, Tail(rtodo))
      BY <1>3, <1>4 DEF ReadKey
  <2>. QED  BY <2>1, <2>2
<1>9. root' \in {<< >>, doc} /\ UNCHANGED <<asMessage, writer>>
    BY RootStays DEF ReadKey
<1>10. Ghosts'
    BY DEF ReadKey, JsonInv, Ghosts, writer
<1>. QED  BY <1>1, <1>2, <1>8, <1>9, <1>10, ReadStep

LEMMA ReadsEnd ==
    ASSUME JsonInv, ReadStructEnd \/ ReadContainerEnd PROVE JsonInv'
<1>1. /\ Written /\ rtodo # << >> /\ Closes(Head(rtodo))
      /\ rstack' = Pop(rstack) /\ rtodo' = Tail(rtodo) /\ UNCHANGED <<asMessage, root, got, writer>>
    BY OpsAre DEF ReadStructEnd, ReadContainerEnd, Reads, Closes
<1>2. PICK J : Json(J) /\ Stands(J) /\ OnRead(rstack, rtodo, J)
    BY <1>1, ReaderIs
<1>3. rstack # << >> /\ OnRead(Tail(rstack), Tail(rtodo), J)
    BY <1>1, <1>2, EndOnRead
<1>4. OnRead(rstack', rtodo', J)
    BY <1>1, <1>3 DEF Pop
<1>5. Ghosts' /\ root' \in {<< >>, doc}
    BY <1>1 DEF JsonInv, Ghosts, writer
<1>. QED  BY <1>1, <1>2, <1>4, <1>5, ReadStep

LEMMA ReadsField == ASSUME JsonInv, ReadFieldBegin PROVE JsonInv'
<1>1. /\ Written /\ rtodo # << >> /\ Head(rtodo).op = "fields"
      /\ rstack # << >> /\ HasField /\ UNCHANGED <<asMessage, root, got, writer>>
    BY DEF ReadFieldBegin, Reads
<1>2. PICK J : /\ Json(J) /\ Stands(J) /\ OnRead(rstack, rtodo, J)
               /\ rtodo \in Seq(RCalls) /\ rstack \in Seq(RFrames(J))
               /\ Head(rtodo) \in RCalls /\ Head(rtodo) \in Calls
    BY <1>1, ReaderIs
<1>3. PICK call, frame : call = Head(rtodo) /\ frame = Head(rstack)
    OBVIOUS
<1>4. PICK id, entry : id = frame.keys[frame.index] /\ entry = frame.fields[id]
    OBVIOUS
<1>5. PICK ttype \in TTypeNamed(entry.name) :
         /\ rstack' = Push([frame EXCEPT !.index = @ + 1, !.value = <<entry.value>>],
                           Tail(rstack))
         /\ rtodo' = Push(FieldCall(call, id, ttype), rtodo)
    BY <1>3, <1>4 DEF ReadFieldBegin
<1>6. /\ frame \in RFrames(J) /\ frame.f = "struct" /\ frame.index <= Len(frame.keys)
      /\ frame.fields \in Fields(J) /\ frame.keys = InTextOrder(DOMAIN frame.fields)
      /\ frame.index \in Nat \ {0} /\ frame.keys \in Seq(Nat)
  <2>1. frame \in RFrames(J)
      BY <1>1, <1>2, <1>3, Taken
  <2>2. frame.f = "struct" /\ frame.index <= Len(frame.keys)
      BY <1>1, <1>3 DEF HasField
  <2>. QED  BY <2>1, <2>2 DEF RFrames
<1>7. id \in Nat /\ entry \in [name : Names, value : J]
  <2>1. /\ DOMAIN frame.fields \subseteq Nat /\ IsFiniteSet(DOMAIN frame.fields)
        /\ \A k \in DOMAIN frame.fields : frame.fields[k] \in [name : Names, value : J]
    <3>1. PICK V : V = [name : Names, value : J]
        OBVIOUS
    <3>2. PICK fs \in FiniteFuns(Nat, V) : fs = frame.fields
        BY <1>6, <3>1 DEF Fields
    <3>3. /\ DOMAIN fs \subseteq Nat /\ IsFiniteSet(DOMAIN fs)
          /\ \A k \in DOMAIN fs : fs[k] \in V
        BY <3>2, FiniteFunIs
    <3>. QED  BY <3>1, <3>2, <3>3
  <2>2. frame.keys \in Seq(DOMAIN frame.fields)
      BY <1>6, <2>1, InOrder
  <2>3. frame.index \in 1 .. Len(frame.keys)
      BY <1>6, LenProperties
  <2>4. id \in DOMAIN frame.fields
      BY <1>4, <2>2, <2>3, ElementOfSeq
  <2>. QED  BY <1>4, <2>1, <2>4
<1>8. PICK x : x = [frame EXCEPT !.index = @ + 1, !.value = <<entry.value>>]
    OBVIOUS
<1>9. x \in RFrames(J) /\ x.f = "struct"
  <2> DEFINE SFrames == [f : {"struct"}, fields : Fields(J), keys : Seq(Nat), index : Nat \ {0},
                         value : {<< >>} \cup {<<v>> : v \in J}]
  <2>1. frame \in SFrames
      BY <1>6 DEF RFrames
  <2>2. <<entry.value>> \in {<<v>> : v \in J} /\ frame.index + 1 \in Nat \ {0}
      BY <1>6, <1>7
  <2>3. x \in SFrames /\ x.f = "struct" /\ x.keys = frame.keys /\ x.fields = frame.fields
      BY <1>8, <2>1, <2>2
  <2>. QED  BY <1>6, <2>3 DEF RFrames
<1>10. PICK c : c = FieldCall(call, id, ttype)
    OBVIOUS
<1>11. c \in RCalls /\ c.op \in TTypes
  <2>1. Append(call.path, id) \in Seq(Nat) /\ TRUE \in BOOLEAN
      BY <1>2, <1>3, <1>7, CallIs
  <2>2. CASE Lookup(call, id) = {}
    <3>1. ttype \in TTypes
        BY NamesAre DEF TTypeNamed
    <3>2. c = ValueCall(<<ttype>>, Append(call.path, id), FALSE)
        BY <1>10, <2>2 DEF FieldCall
    <3>. QED  BY <2>1, <3>1, <3>2, NewSkipped
  <2>3. CASE Lookup(call, id) # {}
    <3>1. PICK f \in Lookup(call, id) : c = ValueCall(f.type, Append(call.path, id), TRUE)
        BY <1>10, <2>3 DEF FieldCall
    <3>2. call.known /\ f \in Range(Structs[call.type[2]])
        BY <3>1 DEF Lookup
    <3>3. call.type \in Types /\ call.type[1] = "struct"
        BY <1>1, <1>2, <1>3, <3>2 DEF RCalls, Meant
    <3>4. f.type \in Types
        BY <3>2, <3>3, TypeIs, TypesAre
    <3>. QED  BY <2>1, <3>1, <3>4, NewValueCall
  <2>. QED  BY <2>2, <2>3
<1>12. OnRead(rstack', rtodo', J)
  <2>1. OnRead(Push(x, Tail(rstack)), Push(c, rtodo), J)
      BY <1>1, <1>2, <1>9, <1>11, FieldOnRead
  <2>2. rstack' = Push(x, Tail(rstack)) /\ rtodo' = Push(c, rtodo)
      BY <1>5, <1>8, <1>10
  <2>. QED  BY <2>1, <2>2
<1>13. Ghosts' /\ root' \in {<< >>, doc}
    BY <1>1 DEF JsonInv, Ghosts, writer
<1>. QED  BY <1>1, <1>2, <1>12, <1>13, ReadStep

LEMMA ContainerFrame ==
    ASSUME JsonInv, NEW J, OnRead(rstack, rtodo, J), rtodo # << >>,
           Head(rtodo).op \in {"list", "map", "key"} \cup Kinds
    PROVE  rstack # << >>
<1>1. PICK s \in Seq(FrameKinds) : RAligned(rstack, s) /\ Fits(s, rtodo)
    BY DEF OnRead
<1>2. \/ Head(rtodo).op \in TTypes /\ Head(rtodo).op # "struct"
      \/ Head(rtodo).op = "key"
    BY DEF TTypes, Kinds
<1>3. s # << >>
    BY <1>1, <1>2, FitsNext DEF FitsFrom
<1>. QED  BY <1>1, <1>3, RTop DEF OnRead

LEMMA ReadsList == ASSUME JsonInv, ReadListBegin PROVE JsonInv'
<1>1. /\ Written /\ rtodo # << >> /\ Head(rtodo).op = "list"
      /\ HasNext(rstack) /\ NextValue(rstack).j = "list" /\ UNCHANGED <<asMessage, got, writer>>
    BY DEF ReadListBegin, Reads, CanReadList
<1>2. PICK J : /\ Json(J) /\ Stands(J) /\ OnRead(rstack, rtodo, J)
               /\ rtodo \in Seq(RCalls) /\ rstack \in Seq(RFrames(J))
               /\ Head(rtodo) \in RCalls /\ Head(rtodo) \in Calls
    BY <1>1, ReaderIs
<1>3. rstack # << >>
    BY <1>1, <1>2, ContainerFrame
<1>4. PICK call, json : call = Head(rtodo) /\ json = NextValue(rstack)
    OBVIOUS
<1>5. json.elem \in Names /\ json.items \in Seq(J) /\ json.size \in Nat
  <2>1. Shape(json, J)
      BY <1>1, <1>2, <1>3, <1>4, NextIs
  <2>. QED  BY <1>1, <1>4, <2>1, ValueIs
<1> DEFINE elem == IF call.known THEN Tail(call.type)
                   ELSE <<CHOOSE t \in TTypeNamed(json.elem) : TRUE>>
<1>6. /\ call.known => elem = Tail(call.type)
      /\ \A t : ~call.known /\ TTypeNamed(json.elem) = {t} => elem = <<t>>
  <2>1. \A t : TTypeNamed(json.elem) = {t} => (CHOOSE u \in TTypeNamed(json.elem) : TRUE) = t
      OBVIOUS
  <2>. QED  BY <2>1
<1> HIDE DEF elem
<1>16. elem = IF call.known THEN Tail(call.type)
              ELSE <<CHOOSE t \in TTypeNamed(json.elem) : TRUE>>
    BY Zenon DEF elem
<1>7. PICK c : c = [call EXCEPT !.op = "listend"]
    OBVIOUS
<1>8. c \in RCalls /\ c.op = "listend"
  <2>1. "listend" \in DOMAIN FrameOf /\ 1 \in Nat
      BY OpsAre
  <2>. QED  BY <1>2, <1>4, <1>7, <2>1, NextCall
<1>9. PICK f : f = [k \in 1 .. json.size |-> ValueCall(elem, Append(call.path, k), call.known)]
    OBVIOUS
<1>10. ASSUME NEW k \in 1 .. json.size
       PROVE  /\ ValueCall(elem, Append(call.path, k), call.known) \in RCalls
              /\ ValueCall(elem, Append(call.path, k), call.known).op \in TTypes
  <2>1. k \in Nat
      BY <1>5
  <2>2. Append(call.path, k) \in Seq(Nat) /\ call.known \in BOOLEAN
      BY <1>2, <1>4, <2>1, CallIs
  <2>3. CASE call.known
    <3>1. call.type \in Types /\ call.type[1] = "list"
        BY <1>1, <1>2, <1>4, <2>3, OpsAre DEF RCalls, Meant
    <3>2. elem \in Types
        BY <1>6, <2>3, <3>1, TypeIs
    <3>. QED  BY <2>2, <2>3, <3>2, NewValueCall
  <2>4. CASE ~call.known
    <3>1. PICK t \in TTypes : TTypeNamed(json.elem) = {t}
        BY <1>5, NamesAre
    <3>2. elem = <<t>>
        BY <1>6, <2>4, <3>1
    <3>3. call.known = FALSE
        BY <2>2, <2>4
    <3>. QED  BY <2>2, <3>2, <3>3, NewSkipped
  <2>. QED  BY <2>3, <2>4
<1>11. f \in Seq(RCalls) /\ Len(f) = json.size /\ \A k \in 1 .. json.size : f[k].op \in TTypes
  <2>1. f \in [1 .. json.size -> RCalls] /\ \A k \in 1 .. json.size : f[k].op \in TTypes
      BY <1>9, <1>10
  <2>. QED  BY <1>5, <2>1
<1>12. PICK x : x = ReadList(json)
    OBVIOUS
<1>13. x \in RFrames(J) /\ x.f = "list"
    BY <1>5, <1>12, NewRFrames
<1>14. OnRead(rstack', rtodo', J)
  <2>1. OnRead(Push(x, AfterNext(rstack)), f \o <<c>> \o Tail(rtodo), J)
      BY <1>1, <1>2, <1>8, <1>11, <1>13, ItemsOnRead
  <2>2. rstack' = Push(x, AfterNext(rstack)) /\ rtodo' = f \o <<c>> \o Tail(rtodo)
      BY <1>4, <1>7, <1>9, <1>12, <1>16 DEF ReadListBegin
  <2>. QED  BY <2>1, <2>2
<1>15. Ghosts' /\ root' \in {<< >>, doc}
    BY <1>1, RootStays DEF ReadListBegin, JsonInv, Ghosts, writer
<1>. QED  BY <1>1, <1>2, <1>14, <1>15, ReadStep

LEMMA ReadsMap == ASSUME JsonInv, ReadMapBegin PROVE JsonInv'
<1>1. /\ Written /\ rtodo # << >> /\ Head(rtodo).op = "map"
      /\ HasNext(rstack) /\ NextValue(rstack).j = "map" /\ UNCHANGED <<asMessage, got, writer>>
    BY DEF ReadMapBegin, Reads, CanReadMap
<1>2. PICK J : /\ Json(J) /\ Stands(J) /\ OnRead(rstack, rtodo, J)
               /\ rtodo \in Seq(RCalls) /\ rstack \in Seq(RFrames(J))
               /\ Head(rtodo) \in RCalls /\ Head(rtodo) \in Calls
    BY <1>1, ReaderIs
<1>3. rstack # << >>
    BY <1>1, <1>2, ContainerFrame
<1>4. PICK call, json : call = Head(rtodo) /\ json = NextValue(rstack)
    OBVIOUS
<1>5. /\ json.key \in KeyNames /\ json.val \in Names /\ json.pairs \in Pairs(J)
      /\ json.size \in Nat
  <2>1. Shape(json, J)
      BY <1>1, <1>2, <1>3, <1>4, NextIs
  <2>. QED  BY <1>1, <1>4, <2>1, ValueIs
<1> DEFINE type == IF call.known THEN call.type
                   ELSE <<"map", CHOOSE t \in TTypeNamed(json.key) : TRUE,
                          CHOOSE t \in TTypeNamed(json.val) : TRUE>>
<1>6. /\ call.known => type = call.type
      /\ \A k, v : ~call.known /\ TTypeNamed(json.key) = {k} /\ TTypeNamed(json.val) = {v} =>
           type = <<"map", k, v>>
  <2>1. \A S : \A t : S = {t} => (CHOOSE u \in S : TRUE) = t
      OBVIOUS
  <2>. QED  BY <2>1
<1> HIDE DEF type
<1>17. type = IF call.known THEN call.type
              ELSE <<"map", CHOOSE t \in TTypeNamed(json.key) : TRUE,
                     CHOOSE t \in TTypeNamed(json.val) : TRUE>>
    BY Zenon DEF type
<1>7. PICK c : c = [call EXCEPT !.op = "mapend"]
    OBVIOUS
<1>8. c \in RCalls /\ c.op = "mapend"
  <2>1. "mapend" \in DOMAIN FrameOf /\ 1 \in Nat
      BY OpsAre
  <2>. QED  BY <1>2, <1>4, <1>7, <2>1, NextCall
<1>9. PICK d : d = KeyCall(type, call.path, call.known)
    OBVIOUS
<1>10. d \in RCalls /\ d.op = "key"
  <2>1. call.path \in Seq(Nat) /\ call.known \in BOOLEAN /\ 0 \in Nat
      BY <1>2, <1>4, CallIs
  <2>2. CASE call.known
    <3>1. call.type \in Types /\ call.type[1] = "map"
        BY <1>1, <1>2, <1>4, <2>2, OpsAre DEF RCalls, Meant
    <3>2. type \in Types /\ type[1] = "map" /\ type \in Seq(Words)
        BY <1>6, <2>2, <3>1, TypeIs
    <3>3. KeyCall(type, call.path, TRUE) \in RCalls /\ KeyCall(type, call.path, TRUE).op = "key"
        BY <2>1, <3>2, NewKeyCall
    <3>4. call.known = TRUE
        BY <2>1, <2>2
    <3>. QED  BY <1>9, <3>3, <3>4
  <2>3. CASE ~call.known
    <3>1. PICK k, v \in TTypes : TTypeNamed(json.key) = {k} /\ TTypeNamed(json.val) = {v}
      <4>1. json.key \in Names /\ json.val \in Names
          BY <1>5, NamesAre
      <4>2. PICK k \in TTypes : TTypeNamed(json.key) = {k}
          BY <4>1, NamesAre
      <4>3. PICK v \in TTypes : TTypeNamed(json.val) = {v}
          BY <4>1, NamesAre
      <4>. QED  BY <4>2, <4>3
    <3>2. type = <<"map", k, v>>
        BY <1>6, <2>3, <3>1
    <3>3. type \in Seq(Words)
      <4>1. "map" \in Words /\ k \in Words /\ v \in Words
          BY OpsAre DEF Words
      <4>. QED  BY <3>2, <4>1
    <3>. QED  BY <1>9, <2>1, <2>3, <3>2, <3>3, NewKeyCall
  <2>. QED  BY <2>2, <2>3
<1>11. PICK f : f = [k \in 1 .. json.size |-> d]
    OBVIOUS
<1>12. f \in Seq(RCalls) /\ Len(f) = json.size /\ \A k \in 1 .. json.size : f[k].op = "key"
  <2>1. f \in [1 .. json.size -> RCalls] /\ \A k \in 1 .. json.size : f[k].op = "key"
      BY <1>10, <1>11
  <2>. QED  BY <1>5, <2>1
<1>13. PICK x : x = ReadMap(json)
    OBVIOUS
<1>14. x \in RFrames(J) /\ x.f = "map"
    BY <1>5, <1>13, NewRFrames
<1>15. OnRead(rstack', rtodo', J)
  <2>1. OnRead(Push(x, AfterNext(rstack)), f \o <<c>> \o Tail(rtodo), J)
      BY <1>1, <1>2, <1>8, <1>12, <1>14, ItemsOnRead
  <2>2. rstack' = Push(x, AfterNext(rstack)) /\ rtodo' = f \o <<c>> \o Tail(rtodo)
      BY <1>4, <1>7, <1>9, <1>11, <1>13, <1>17 DEF ReadMapBegin
  <2>. QED  BY <2>1, <2>2
<1>16. Ghosts' /\ root' \in {<< >>, doc}
    BY <1>1, RootStays DEF ReadMapBegin, JsonInv, Ghosts, writer
<1>. QED  BY <1>1, <1>2, <1>15, <1>16, ReadStep

LEMMA Stutters == ASSUME JsonInv, UNCHANGED vars PROVE JsonInv'
<1>1. PICK J : Json(J) /\ Stands(J) /\ OnRead(rstack, rtodo, J)
    BY DEF JsonInv
<1>2. Stands(J)'
    BY <1>1 DEF vars, writer, Stands, Writing, BodyDone, AllWritten, Written, DocOf
<1>3. OnRead(rstack', rtodo', J)
    BY <1>1 DEF vars, reader
<1>4. \E K : Json(K) /\ Stands(K)' /\ OnRead(rstack', rtodo', K)
    BY <1>1, <1>2, <1>3
<1>. QED  BY <1>4 DEF JsonInv, Ghosts, Written, vars, writer, reader

LEMMA JsonSteps == JsonInv /\ [Next]_vars => JsonInv'
<1> SUFFICES ASSUME JsonInv, [Next]_vars PROVE JsonInv'
    OBVIOUS
<1>1. CASE Write
    BY <1>1, WritesStruct, WritesField, WritesStructEnd, WritesMessageEnd, WritesScalar,
       WritesKey, WritesList, WritesMap, WritesContainerEnd DEF Write
<1>2. CASE Read
    BY <1>2, ReadsMessage, ReadsStructBegin, ReadsField, ReadsEnd, ReadsScalar, ReadsList,
       ReadsMap, ReadsKey DEF Read
<1>3. CASE UNCHANGED vars
    BY <1>3, Stutters
<1>. QED  BY <1>1, <1>2, <1>3 DEF Next

LEMMA JsonAlways == Spec => []JsonInv
BY Started, JsonSteps, PTL DEF Spec

(* On either side the stack is that of the calls that close something.      *)
LEMMA KindsInStep ==
    ASSUME NEW S, NEW st \in Seq(S), NEW s \in Seq(FrameKinds), NEW t, Fits(s, t),
           Len(st) = Len(s), \A i \in 1 .. Len(s) : st[i].f = KindOf(s[i])
    PROVE  InStep(st, t)
<1>1. Len(s) = Depth(t, 1)
    BY FitsDepth
<1>2. ASSUME NEW i \in Open(t)
      PROVE  st[Len(st) + 1 - Depth(t, i)].f = FrameOf[t[i].op]
  <2>1. PICK d \in 1 .. Len(s) : d = Depth(t, i) /\ KindOf(s[Len(s) + 1 - d]) = FrameOf[t[i].op]
      BY FitsDepth
  <2>2. Len(s) \in Nat
      BY LenProperties
  <2>3. Len(s) + 1 - d \in 1 .. Len(s)
      BY <2>2
  <2>. QED  BY <2>1, <2>3
<1>. QED  BY <1>1, <1>2 DEF InStep

LEMMA ReaderInStep ==
    ASSUME NEW J, NEW rs, NEW t, OnRead(rs, t, J)
    PROVE  InStep(rs, t)
<1>1. PICK s \in Seq(FrameKinds) : RAligned(rs, s) /\ Fits(s, t)
    BY DEF OnRead
<1>2. rs \in Seq(RFrames(J)) /\ Len(rs) = Len(s) /\ \A i \in 1 .. Len(s) : rs[i].f = KindOf(s[i])
    BY <1>1 DEF OnRead, RAligned
<1>. QED  BY <1>1, <1>2, KindsInStep

LEMMA WriterInStep ==
    ASSUME NEW J, asMessage \in BOOLEAN, OnWay(asMessage, wstack, wtodo, J)
    PROVE  InStep(Frames, wtodo)
<1>1. PICK fr \in Seq(WFrames(J)), s \in Seq(FrameKinds) :
         wstack = Stacked(asMessage, fr) /\ Aligned(fr, s) /\ Fits(s, wtodo)
    BY DEF OnWay
<1>2. ASSUME NEW i \in 1 .. Len(s) PROVE fr[i].f = KindOf(s[i])
  <2>1. Len(fr) = Len(s) /\ fr # << >> /\ fr[i] \in WFrames(J)
    <3>1. Len(fr) = Len(s)
        BY <1>1 DEF Aligned, Under
    <3>2. fr # << >>
        BY <1>2, <3>1, EmptySeq
    <3>. QED  BY <3>1, <3>2, ElementOfSeq
  <2>2. CASE i = 1
      BY <1>1, <2>1, <2>2 DEF Aligned, Top
  <2>3. CASE i # 1
    <3>1. i \in 2 .. Len(fr)
        BY <2>1, <2>3
    <3>2. s[i] = fr[i].f
        BY <1>1, <3>1 DEF Aligned, Under
    <3>. QED  BY <2>1, <3>2, FramesAre DEF KindOf
  <2>. QED  BY <2>2, <2>3
<1>3. Frames = fr
  <2>1. CASE asMessage /\ fr # << >>
    <3>1. wstack = fr \o <<MessageFrame>>
        BY <1>1, <2>1 DEF Stacked
    <3>2. /\ wstack # << >> /\ Len(wstack) = Len(fr) + 1 /\ wstack[Len(wstack)] = MessageFrame
          /\ \A i \in 1 .. Len(fr) : wstack[i] = fr[i]
          /\ wstack \in Seq(WFrames(J) \cup {MessageFrame})
        BY <2>1, <3>1, OnMessage
    <3>3. InMessage
        BY <3>2 DEF InMessage, MessageFrame
    <3>4. PICK n \in Nat : n = Len(fr)
        BY LenProperties
    <3>5. PICK g : g = SubSeq(wstack, 1, n)
        OBVIOUS
    <3>6. /\ g \in Seq(WFrames(J)) /\ Len(g) = n
          /\ \A i \in 1 .. n : g[i] = fr[i]
      <4>1. \A i \in 1 .. n : wstack[i] \in WFrames(J)
          BY <3>2, <3>4, ElementOfSeq
      <4>2. 1 \in Int /\ n \in Int
          OBVIOUS
      <4>3. g \in Seq(WFrames(J)) /\ Len(g) = n
          BY <3>5, <4>1, <4>2, SubSeqProperties
      <4>4. \A i \in 1 .. n : g[i] = wstack[i]
          BY <3>5
      <4>. QED  BY <3>2, <3>4, <4>3, <4>4
    <3>7. g = fr
        BY <3>4, <3>6, SeqEqual
    <3>8. Len(wstack) - 1 = n
        BY <3>2, <3>4
    <3>. QED  BY <3>3, <3>5, <3>7, <3>8 DEF Frames
  <2>2. CASE ~(asMessage /\ fr # << >>)
    <3>1. wstack = fr
        BY <1>1, <2>2 DEF Stacked
    <3>2. ~InMessage
      <4>1. fr # << >> => fr[Len(fr)] \in WFrames(J)
        <5>1. fr # << >> => Len(fr) \in 1 .. Len(fr)
            BY EmptySeq, LenProperties
        <5>. QED  BY <5>1, ElementOfSeq
      <4>. QED  BY <3>1, <4>1, FramesAre DEF InMessage
    <3>. QED  BY <3>1, <3>2 DEF Frames
  <2>. QED  BY <2>1, <2>2
<1>4. Len(fr) = Len(s)
    BY <1>1 DEF Aligned, Under
<1>. QED  BY <1>1, <1>2, <1>3, <1>4, KindsInStep

LEMMA InvInStep == JsonInv => StacksInStep
<1> SUFFICES ASSUME JsonInv PROVE StacksInStep
    OBVIOUS
<1>1. PICK J : Json(J) /\ Stands(J) /\ OnRead(rstack, rtodo, J)
    BY DEF JsonInv
<1>2. InStep(rstack, rtodo)
    BY <1>1, ReaderInStep
<1>3. ASSUME wtodo # << >> PROVE InStep(Frames, wtodo)
    BY <1>1, <1>3, StandsIs, WriterInStep DEF JsonInv, Ghosts, Writing
<1>. QED  BY <1>2, <1>3 DEF StacksInStep

LEMMA InvTypes == JsonInv => TypeOK
<1> SUFFICES ASSUME JsonInv PROVE TypeOK
    OBVIOUS
<1>1. PICK J : Json(J) /\ Stands(J) /\ OnRead(rstack, rtodo, J)
    BY DEF JsonInv
<1>2. rtodo \in Seq(Calls) /\ rstack \in Seq(RFrames(J))
  <2>1. RCalls \subseteq Calls
      BY DEF RCalls
  <2>. QED  BY <1>1, <2>1, SeqMonotonic DEF OnRead
<1>3. ASSUME NEW r \in Range(rstack) PROVE r.f \in {"struct", "list", "map"}
  <2>1. r \in RFrames(J)
      BY <1>2, RangeOfSeq
  <2>. QED  BY <2>1 DEF RFrames
<1>4. wtodo \in Seq(Calls) /\ Len(doc) <= 1
      /\ \E S : wstack \in Seq(S) /\ \A w \in S : w.f \in {"message", "struct", "list", "map"}
  <2> DEFINE S == WFrames(J) \cup {MessageFrame}
  <2>0. \A w \in S : w.f \in {"message", "struct", "list", "map"}
      BY FramesAre DEF MessageFrame
  <2>1. CASE Writing(J)
    <3>1. WCalls \subseteq Calls
        BY DEF WCalls
    <3>2. wtodo \in Seq(Calls) /\ doc = << >>
        BY <2>1, <3>1, SeqMonotonic DEF Writing, OnWay
    <3>3. PICK fr \in Seq(WFrames(J)) : wstack = Stacked(asMessage, fr)
        BY <2>1 DEF Writing, OnWay
    <3>4. wstack \in Seq(S)
      <4>1. fr \in Seq(S) /\ <<MessageFrame>> \in Seq(S)
        <5>1. WFrames(J) \subseteq S /\ MessageFrame \in S
            OBVIOUS
        <5>. QED  BY <5>1, SeqMonotonic, SingleSeq
      <4>2. fr \o <<MessageFrame>> \in Seq(S)
          BY <4>1, ConcatProperties
      <4>. QED  BY <3>3, <4>1, <4>2 DEF Stacked
    <3>. QED  BY <2>0, <3>2, <3>4
  <2>2. CASE BodyDone(J)
    <3>1. PICK x \in WFrames(J) : wstack = <<x, MessageFrame>>
        BY <2>2 DEF BodyDone
    <3>2. x \in S /\ MessageFrame \in S
        OBVIOUS
    <3>3. wstack \in Seq(S)
        BY <3>1, <3>2, PairSeq
    <3>4. wtodo = << >> /\ doc = << >>
        BY <2>2 DEF BodyDone
    <3>5. wtodo \in Seq(Calls) /\ Len(doc) <= 1
        BY <3>4, EmptySeq
    <3> HIDE DEF S
    <3>. QED  BY <2>0, <3>3, <3>5
  <2>3. CASE AllWritten(J)
    <3>1. wtodo = << >> /\ wstack = << >> /\ \E v : doc = DocOf(v)
        BY <2>3 DEF AllWritten, Written
    <3>2. Len(doc) = 1
        BY <3>1 DEF DocOf
    <3>. QED  BY <2>0, <3>1, <3>2, EmptySeq
  <2>. QED  BY <1>1, <2>1, <2>2, <2>3 DEF Stands
<1>5. ASSUME NEW w \in Range(wstack) PROVE w.f \in {"message", "struct", "list", "map"}
    BY <1>4, RangeOfSeq
<1>6. Len(root) <= 1
    BY <1>4 DEF JsonInv
<1>7. /\ asMessage \in BOOLEAN
      /\ \A p \in given : p[1] \in Seq(Nat) /\ p[2] \in Scalars \cup {NaN}
      /\ \A p \in got : p[1] \in Seq(Nat) /\ p[2] \in Scalars
    BY DEF JsonInv, Ghosts
<1>. QED  BY <1>2, <1>3, <1>4, <1>5, <1>6, <1>7 DEF TypeOK

-----------------------------------------------------------------------------
(* Every call that is left is one of the calls there are, each stack has     *)
(* frames of its own kinds, and at most one text is written and parsed.      *)
THEOREM JsonTypes == Spec => []TypeOK
BY JsonAlways, InvTypes, PTL

(* Whatever the schemas are and however deep the value is: each call that    *)
(* closes a struct, a list or a map finds the frame on top that the call     *)
(* which opened it has pushed, in JSONProtocolWriter and in                  *)
(* JSONProtocolReader, also in what the reader skips.                       *)
THEOREM JsonInStep == Spec => []StacksInStep
BY JsonAlways, InvInStep, PTL
=============================================================================
