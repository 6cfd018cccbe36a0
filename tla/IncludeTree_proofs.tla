-------------------------- MODULE IncludeTree_proofs --------------------------
(***************************************************************************)
(* The loader gives the parser every file that is reached once, behind the     *)
(* files it includes, whatever tree it is started on.  The walk is depth first:  *)
(* a file that was entered is on the stack or loaded; each file on the stack is  *)
(* reached from those below it; and what a file includes before the place where  *)
(* it has come to was entered.  So a file whose includes are done includes       *)
(* loaded files, which come before it, and files on the stack, which reach it.   *)
(***************************************************************************)
EXTENDS IncludeTree, WellFoundedInduction, SequenceTheorems, TLAPS

Done(path, from) ==
    \A i \in IncludesAt(content[path]) : i < from =>
        /\ Places(NameAt(path, i), path.dir) # {}
        /\ ResolveInclude(NameAt(path, i), path.dir) \in seen

Whole(path) == \A i \in IncludesAt(content[path]) :
    /\ Places(NameAt(path, i), path.dir) # {}
    /\ ResolveInclude(NameAt(path, i), path.dir) \in seen

(* Who was entered, and that nobody is entered twice.                         *)
Entered ==
    /\ \A p \in seen : \/ \E i \in 1 .. Len(loaded) : loaded[i] = p
                       \/ \E k \in 1 .. Len(stack) : stack[k].file = p
    /\ \A i \in 1 .. Len(loaded) : loaded[i] \in seen
    /\ \A k \in 1 .. Len(stack) : stack[k].file \in seen
    /\ \A i, j \in 1 .. Len(loaded) : i # j => loaded[i] # loaded[j]
    /\ \A k, l \in 1 .. Len(stack) : k # l => stack[k].file # stack[l].file
    /\ \A i \in 1 .. Len(loaded), k \in 1 .. Len(stack) : loaded[i] # stack[k].file

(* The stack is a way from the main file to the one that is read.              *)
Descent == \A k, l \in 1 .. Len(stack) : k <= l => stack[k].file \in Reached(stack[l].file)

Walked ==
    /\ \A k \in 1 .. Len(stack) : Done(stack[k].file, stack[k].from)
    /\ \A i \in 1 .. Len(loaded) : Whole(loaded[i])

(* The main file is the bottom of the stack, or the last that was loaded.       *)
Main == IF stack = << >> THEN loaded[Len(loaded)] ELSE stack[Len(stack)].file

Stage ==
    /\ at = "loading" <=> stack # << >> /\ at # "failed"
    /\ stack = << >> => loaded # << >>
    /\ \A p \in seen : p \in Reached(Main)

LoadInv == TypeOK /\ Entered /\ Descent /\ Walked /\ Stage /\ IncludedFirst
-----------------------------------------------------------------------------
(* Least elements.                                                          *)
LEMMA Below == \E R : IsWellFoundedOn(R, Nat) /\ \A m, n \in Nat : <<m, n>> \in R <=> m < n
<1>1. IsWellFoundedOn(OpToRel(<, Nat), Nat)
    BY NatLessThanWellFounded
<1>2. \A m, n \in Nat : <<m, n>> \in OpToRel(<, Nat) <=> m < n
    BY DEF OpToRel
<1>. QED  BY <1>1, <1>2, Zenon

LEMMA Least ==
    ASSUME NEW S, S \subseteq Nat, S # {}
    PROVE  \E n \in S : \A m \in S : n <= m
<1>1. PICK R : IsWellFoundedOn(R, Nat) /\ \A m, n \in Nat : <<m, n>> \in R <=> m < n
    BY Below
<1>2. PICK n \in S : \A m \in S : ~(<<m, n>> \in R)
  <2>1. IsWellFoundedOn(R, Nat) /\ S \in SUBSET Nat /\ S # {}
      BY <1>1
  <2>. QED  BY ONLY <2>1, WFMin
<1>3. ASSUME NEW m \in S PROVE n <= m
  <2>1. m \in Nat /\ n \in Nat
      OBVIOUS
  <2>2. ~(m < n)
      BY <1>1, <1>2, <2>1
  <2>. QED  BY <2>1, <2>2
<1>. QED  BY <1>3

LEMMA MinIs ==
    ASSUME NEW S, S \subseteq Nat, S # {}
    PROVE  Min(S) \in S /\ \A m \in S : Min(S) <= m
BY Least DEF Min

-----------------------------------------------------------------------------
(* The graph.                                                               *)
LEMMA Positions == \A tokens : IncludesAt(tokens) \subseteq Nat \ {0}
BY DEF IncludesAt

LEMMA IsThere ==
    ASSUME NEW name, NEW dir, Places(name, dir) # {}
    PROVE  ResolveInclude(name, dir) \in DOMAIN content
<1>1. Places(name, dir) \subseteq Nat
    BY DEF Places
<1>2. Min(Places(name, dir)) \in Places(name, dir)
    BY <1>1, MinIs
<1>. QED  BY <1>2 DEF Places, ResolveInclude

LEMMA IncludedThere == \A p : IncludedBy(p) \subseteq DOMAIN content
BY IsThere DEF IncludedBy

LEMMA ReachedSelf == \A p \in DOMAIN content : p \in Reached(p)
BY DEF Reached

LEMMA ReachedNext ==
    ASSUME NEW p, NEW q \in Reached(p), NEW r \in IncludedBy(q)
    PROVE  r \in Reached(p)
<1>1. r \in DOMAIN content
    BY IncludedThere
<1>. QED  BY <1>1 DEF Reached, Closed

LEMMA ReachedWay ==
    ASSUME NEW p, NEW q \in Reached(p), NEW r \in Reached(q)
    PROVE  r \in Reached(p)
BY DEF Reached

(* The files stay what they are.                                             *)
LEMMA SameFiles ==
    ASSUME content' = content
    PROVE  /\ \A p : Reached(p)' = Reached(p)
           /\ \A p : IncludedBy(p)' = IncludedBy(p)
           /\ \A name, dir : Places(name, dir)' = Places(name, dir)
           /\ \A name, dir : ResolveInclude(name, dir)' = ResolveInclude(name, dir)
           /\ \A p, i : NameAt(p, i)' = NameAt(p, i)
<1>1. \A name, dir : Places(name, dir)' = Places(name, dir)
    BY DEF Places
<1>2. \A name, dir : ResolveInclude(name, dir)' = ResolveInclude(name, dir)
    BY <1>1 DEF ResolveInclude
<1>3. \A p, i : NameAt(p, i)' = NameAt(p, i)
    BY DEF NameAt
<1>4. \A p : IncludedBy(p)' = IncludedBy(p)
    BY <1>1, <1>2, <1>3 DEF IncludedBy
<1>5. \A paths : Closed(paths)' = Closed(paths)
    BY <1>4 DEF Closed
<1>6. \A p : Reached(p)' = Reached(p)
    BY <1>5 DEF Reached
<1>. QED  BY <1>1, <1>2, <1>3, <1>4, <1>6

-----------------------------------------------------------------------------
(* The stack.                                                               *)
Frames == [file : DOMAIN content, from : Nat \ {0}]

LEMMA PushIs ==
    ASSUME NEW S, NEW x \in S, NEW s \in Seq(S)
    PROVE  /\ <<x>> \o s \in Seq(S) /\ Len(<<x>> \o s) = Len(s) + 1
           /\ (<<x>> \o s)[1] = x
           /\ \A i \in 1 .. Len(s) : (<<x>> \o s)[i + 1] = s[i]
<1>0. <<x>> \in Seq(S) /\ Len(<<x>>) = 1 /\ <<x>>[1] = x
    OBVIOUS
<1>1. PICK one \in Seq(S) : one = <<x>> /\ Len(one) = 1 /\ one[1] = x
    BY <1>0
<1>2. PICK n \in Nat : n = Len(s)
    OBVIOUS
<1>3. PICK p : p = one \o s
    OBVIOUS
<1>4. /\ p \in Seq(S) /\ Len(p) = 1 + n
      /\ \A i \in 1 .. 1 + n : p[i] = IF i <= 1 THEN one[i] ELSE s[i - 1]
    BY <1>1, <1>2, <1>3, ConcatProperties
<1>5. p[1] = x
    BY <1>1, <1>4
<1>6. ASSUME NEW i \in 1 .. n PROVE p[i + 1] = s[i]
    BY <1>4
<1>. QED  BY <1>1, <1>2, <1>3, <1>4, <1>5, <1>6

LEMMA TopIs ==
    ASSUME TypeOK, stack # << >>
    PROVE  /\ Len(stack) \in Nat \ {0} /\ Head(stack) = stack[1]
           /\ \A k \in 1 .. Len(stack) : stack[k] \in Frames
           /\ Tail(stack) \in Seq(Frames) /\ Len(Tail(stack)) = Len(stack) - 1
           /\ \A k \in 1 .. Len(stack) - 1 : Tail(stack)[k] = stack[k + 1]
<1>1. stack \in Seq(Frames)
    BY DEF TypeOK, Frames
<1>. QED  BY <1>1, HeadTailProperties, EmptySeq

LEMMA NextIs ==
    ASSUME TypeOK, Includes
    PROVE  LET f == stack[1].file IN
           /\ Next_include \in IncludesAt(content[f]) /\ Next_include \in Nat \ {0}
           /\ \A i \in IncludesAt(content[f]) : i >= stack[1].from => i >= Next_include
<1>1. Head(stack) = stack[1] /\ stack[1] \in Frames
    BY TopIs DEF Includes, Loading
<1>2. ToCome(stack[1]) \subseteq Nat /\ ToCome(stack[1]) # {}
    BY <1>1, Positions DEF Includes, ToCome
<1>3. PICK i : i = Next_include
    OBVIOUS
<1>4. i \in ToCome(stack[1]) /\ \A j \in ToCome(stack[1]) : i <= j
    BY <1>1, <1>2, <1>3, MinIs DEF Next_include
<1>5. i \in IncludesAt(content[stack[1].file]) /\ i \in Nat \ {0}
    BY <1>4, Positions DEF ToCome
<1>6. ASSUME NEW j \in IncludesAt(content[stack[1].file]), j >= stack[1].from PROVE j >= i
  <2>1. j \in ToCome(stack[1]) /\ j \in Nat
      BY <1>6, Positions DEF ToCome
  <2>. QED  BY <1>4, <1>5, <2>1
<1>. QED  BY <1>3, <1>5, <1>6

LEMMA ReturnedIs ==
    ASSUME TypeOK, Includes
    PROVE  /\ Returned \in Seq(Frames) /\ Len(Returned) = Len(stack)
           /\ Returned[1] = [file |-> stack[1].file, from |-> Next_include + 1]
           /\ \A k \in 2 .. Len(stack) : Returned[k] = stack[k]
<1>1. stack # << >>
    BY DEF Includes, Loading
<1>2. PICK n \in Nat \ {0} : n = Len(stack)
    BY <1>1, TopIs
<1>3. PICK next \in Nat \ {0} : next = Next_include
    BY NextIs
<1>4. PICK top : top = [stack[1] EXCEPT !.from = next + 1]
    OBVIOUS
<1>5. stack[1] \in Frames
    BY <1>1, <1>2, TopIs
<1>6. top \in Frames /\ top = [file |-> stack[1].file, from |-> next + 1]
    BY <1>4, <1>5 DEF Frames
<1>7. PICK rest \in Seq(Frames) : rest = Tail(stack)
    BY <1>1, TopIs
<1>8. Len(rest) = n - 1 /\ \A k \in 1 .. n - 1 : rest[k] = stack[k + 1]
    BY <1>1, <1>2, <1>7, TopIs
<1>9. Returned = <<top>> \o rest
    BY <1>1, <1>3, <1>4, <1>7, TopIs DEF Returned
<1>10. PICK r : r = <<top>> \o rest
    OBVIOUS
<1>11. /\ r \in Seq(Frames) /\ Len(r) = n /\ r[1] = top
       /\ \A i \in 1 .. n - 1 : r[i + 1] = rest[i]
    BY <1>6, <1>8, <1>10, PushIs
<1>12. ASSUME NEW k \in 2 .. n PROVE r[k] = stack[k]
  <2>1. k - 1 \in 1 .. n - 1 /\ (k - 1) + 1 = k
      OBVIOUS
  <2>. QED  BY <1>8, <1>11, <2>1
<1>. QED  BY <1>2, <1>3, <1>6, <1>9, <1>10, <1>11, <1>12

(* The file that is included next.                                           *)
LEMMA NextFile ==
    ASSUME TypeOK, Includes, ~Missing
    PROVE  /\ Included \in IncludedBy(stack[1].file) /\ Included \in DOMAIN content
           /\ Places(NameAt(stack[1].file, Next_include), stack[1].file.dir) # {}
           /\ Included = ResolveInclude(NameAt(stack[1].file, Next_include), stack[1].file.dir)
<1>1. Head(stack) = stack[1] /\ stack[1] \in Frames
    BY TopIs DEF Includes, Loading
<1>2. Next_include \in IncludesAt(content[stack[1].file])
    BY NextIs
<1>. QED  BY <1>1, <1>2, IsThere DEF Missing, Included, Name, IncludedBy

-----------------------------------------------------------------------------
(* Each step keeps the invariant.                                            *)
LEMMA LoadInit == Init => LoadInv
<1> SUFFICES ASSUME Init PROVE LoadInv
    OBVIOUS
<1>1. PICK main \in DOMAIN content : stack = <<Call(main)>> /\ seen = {main}
    BY DEF Init
<1>2. Call(main) \in Frames /\ Call(main).file = main /\ Call(main).from = 1
    BY DEF Call, Frames
<1>3. PICK top \in Frames : top = Call(main)
    BY <1>2
<1>4. stack = <<top>>
    BY <1>1, <1>3
<1>5. stack \in Seq(Frames) /\ Len(stack) = 1 /\ stack[1] = top /\ stack # << >>
    BY <1>4
<1>6. loaded = << >> /\ Len(loaded) = 0 /\ at = "loading"
    BY DEF Init
<1>7. loaded \in Seq(DOMAIN content) /\ text \in Seq(Tokens)
    BY DEF Init
<1>8. TypeOK
    BY <1>1, <1>5, <1>7 DEF TypeOK, Init, Frames
<1>9. \A k \in 1 .. Len(stack) : k = 1 /\ stack[k].file = main /\ stack[k].from = 1
    BY <1>2, <1>3, <1>5
<1>10. Entered
    BY <1>1, <1>5, <1>6, <1>9 DEF Entered
<1>11. Descent
    BY <1>9, ReachedSelf DEF Descent
<1>12. Walked
  <2>1. \A k \in 1 .. Len(stack) : Done(stack[k].file, stack[k].from)
      BY <1>9, Positions DEF Done
  <2>. QED  BY <2>1, <1>6 DEF Walked
<1>13. Stage
  <2>1. Main = main
      BY <1>5, <1>9 DEF Main
  <2>. QED  BY <1>1, <1>5, <1>6, <2>1, ReachedSelf DEF Stage
<1>14. IncludedFirst
    BY <1>6 DEF IncludedFirst
<1>. QED  BY <1>8, <1>10, <1>11, <1>12, <1>13, <1>14 DEF LoadInv

(* What stays as long as nothing is loaded.                                   *)
LEMMA OrderStays ==
    ASSUME IncludedFirst, content' = content, loaded' = loaded
    PROVE  IncludedFirst'
BY SameFiles DEF IncludedFirst

(* What has been walked stays walked.                                        *)
LEMMA DoneStays ==
    ASSUME content' = content, seen \subseteq seen'
    PROVE  /\ \A p, from : Done(p, from) => Done(p, from)'
           /\ \A p : Whole(p) => Whole(p)'
<1>1. \A p : IncludesAt(content[p])' = IncludesAt(content[p])
    OBVIOUS
<1>2. \A p, i : /\ Places(NameAt(p, i), p.dir)' = Places(NameAt(p, i), p.dir)
                /\ ResolveInclude(NameAt(p, i), p.dir)' = ResolveInclude(NameAt(p, i), p.dir)
    BY SameFiles
<1>3. ASSUME NEW p, NEW from, Done(p, from) PROVE Done(p, from)'
    BY <1>1, <1>2, <1>3 DEF Done
<1>4. ASSUME NEW p, Whole(p) PROVE Whole(p)'
    BY <1>1, <1>2, <1>4 DEF Whole
<1>. QED  BY <1>3, <1>4

LEMMA DoneNext ==
    ASSUME TypeOK, Includes, ~Missing, Included \in seen', Done(stack[1].file, stack[1].from),
           content' = content, seen \subseteq seen',
           NEW file, file = stack[1].file, NEW next \in Nat, next = Next_include
    PROVE  Done(file, next + 1)'
<1>1. PICK from \in Nat : from = stack[1].from
    BY TopIs DEF Includes, Loading, Frames
<1>2. Done(file, from)'
    BY <1>1, DoneStays
<1>3. ASSUME NEW i \in IncludesAt(content[file]), i < next + 1
      PROVE  /\ Places(NameAt(file, i), file.dir) # {}
             /\ ResolveInclude(NameAt(file, i), file.dir) \in seen'
  <2>1. i \in Nat
      BY Positions
  <2>2. CASE i < from
      BY <1>1, <2>2 DEF Done
  <2>3. CASE i >= from
    <3>1. i >= next
        BY <1>1, <2>3, NextIs
    <3>2. i = next
        BY <1>3, <2>1, <3>1
    <3>. QED  BY <3>2, NextFile
  <2>. QED  BY <1>1, <2>1, <2>2, <2>3
<1>4. \A i : /\ Places(NameAt(file, i), file.dir)' = Places(NameAt(file, i), file.dir)
             /\ ResolveInclude(NameAt(file, i), file.dir)' = ResolveInclude(NameAt(file, i), file.dir)
    BY SameFiles
<1>. QED  BY <1>3, <1>4 DEF Done

LEMMA MissingKeeps ==
    ASSUME LoadInv, IncludeMissing
    PROVE  LoadInv'
<1>1. content' = content /\ stack' = stack /\ seen' = seen /\ loaded' = loaded
    BY DEF IncludeMissing, loader
<1>2. TypeOK'
    BY <1>1 DEF LoadInv, TypeOK, IncludeMissing
<1>3. Entered'
    BY <1>1 DEF LoadInv, Entered
<1>4. Descent'
    BY <1>1, SameFiles DEF LoadInv, Descent
<1>5. Walked'
    BY <1>1, DoneStays DEF LoadInv, Walked
<1>6. Stage'
  <2>1. Main' = Main
      BY <1>1 DEF Main
  <2>. QED  BY <1>1, <2>1, SameFiles DEF LoadInv, Stage, IncludeMissing, Includes, Loading
<1>7. IncludedFirst'
    BY <1>1, OrderStays DEF LoadInv
<1>. QED  BY <1>2, <1>3, <1>4, <1>5, <1>6, <1>7 DEF LoadInv

LEMMA AgainKeeps ==
    ASSUME LoadInv, IncludeAgain
    PROVE  LoadInv'
<1>1. /\ content' = content /\ seen' = seen /\ loaded' = loaded /\ at' = at /\ text' = text
      /\ stack' = Returned /\ TypeOK /\ Includes /\ ~Missing /\ Included \in seen
    BY DEF IncludeAgain, LoadInv, IsSeen
<1>2. PICK n \in Nat \ {0} : n = Len(stack)
    BY <1>1, TopIs DEF Includes, Loading
<1>3. PICK next \in Nat \ {0} : next = Next_include
    BY <1>1, NextIs
<1>4. /\ stack' \in Seq(Frames) /\ Len(stack') = n
      /\ stack'[1].file = stack[1].file /\ stack'[1].from = next + 1
      /\ \A k \in 2 .. n : stack'[k] = stack[k]
    BY <1>1, <1>2, <1>3, ReturnedIs
<1>5. \A k \in 1 .. n : stack'[k].file = stack[k].file /\ (k # 1 => stack'[k].from = stack[k].from)
    BY <1>4
<1>6. stack # << >> /\ stack' # << >>
    BY <1>1, <1>2, <1>4 DEF Includes, Loading
<1>7. TypeOK'
    BY <1>1, <1>4 DEF TypeOK, Frames
<1>8. Entered'
    BY <1>1, <1>2, <1>4, <1>5 DEF LoadInv, Entered
<1>9. Descent'
    BY <1>1, <1>2, <1>4, <1>5, SameFiles DEF LoadInv, Descent
<1>10. Walked'
  <2>1. \A k \in 1 .. n : Done(stack[k].file, stack[k].from)
      BY <1>2 DEF LoadInv, Walked
  <2>2. ASSUME NEW k \in 1 .. n, NEW file, file = stack'[k].file, NEW from, from = stack'[k].from
        PROVE  Done(file, from)'
    <3>1. CASE k # 1
        BY <1>1, <1>5, <2>1, <2>2, <3>1, DoneStays
    <3>2. CASE k = 1
        BY <1>1, <1>3, <1>4, <2>1, <2>2, <3>2, DoneNext
    <3>. QED  BY <3>1, <3>2
  <2>3. \A i \in 1 .. Len(loaded) : Whole(loaded[i])'
      BY <1>1, DoneStays DEF LoadInv, Walked
  <2>. QED  BY <1>1, <1>4, <2>2, <2>3 DEF Walked
<1>11. Stage'
  <2>1. Main' = Main
      BY <1>2, <1>4, <1>5, <1>6 DEF Main
  <2>. QED  BY <1>1, <1>6, <2>1, SameFiles DEF LoadInv, Stage
<1>12. IncludedFirst'
    BY <1>1, OrderStays DEF LoadInv
<1>. QED  BY <1>7, <1>8, <1>9, <1>10, <1>11, <1>12 DEF LoadInv

LEMMA FileKeeps ==
    ASSUME LoadInv, IncludeFile
    PROVE  LoadInv'
<1>1. /\ content' = content /\ loaded' = loaded /\ at' = at /\ text' = text
      /\ TypeOK /\ Includes /\ ~Missing
    BY DEF IncludeFile, LoadInv
<1>2. PICK n \in Nat \ {0} : n = Len(stack)
    BY <1>1, TopIs DEF Includes, Loading
<1>3. PICK next \in Nat \ {0} : next = Next_include
    BY <1>1, NextIs
<1>4. PICK new \in DOMAIN content : new = Included /\ new \in IncludedBy(stack[1].file)
    BY <1>1, NextFile
<1>5. seen' = seen \cup {new} /\ new \notin seen
    BY <1>4 DEF IncludeFile, IsSeen
<1>6. PICK call \in Frames : call = Call(new) /\ call.file = new /\ call.from = 1
  <2>1. Call(new) \in Frames /\ Call(new).file = new /\ Call(new).from = 1
      BY DEF Frames, Call
  <2>. QED  BY <2>1
<1>7. PICK back \in Seq(Frames) : back = Returned
    BY <1>1, ReturnedIs
<1>8. /\ Len(back) = n /\ back[1].file = stack[1].file /\ back[1].from = next + 1
      /\ \A k \in 2 .. n : back[k] = stack[k]
    BY <1>1, <1>2, <1>3, <1>7, ReturnedIs
<1>9. stack' = <<call>> \o back
    BY <1>4, <1>6, <1>7 DEF IncludeFile
<1>10. /\ stack' \in Seq(Frames) /\ Len(stack') = n + 1 /\ stack'[1] = call
       /\ \A k \in 1 .. n : stack'[k + 1] = back[k]
    BY <1>8, <1>9, PushIs
<1>11. /\ stack'[1].file = new
       /\ \A k \in 1 .. n : stack'[k + 1].file = stack[k].file
    BY <1>6, <1>8, <1>10
<1>12. \A k \in 1 .. n + 1 : k = 1 \/ \E l \in 1 .. n : k = l + 1
  <2>1. ASSUME NEW k \in 1 .. n + 1, k # 1 PROVE k - 1 \in 1 .. n /\ k = (k - 1) + 1
      BY <2>1
  <2>. QED  BY <2>1
<1>13. stack # << >> /\ stack' # << >>
    BY <1>1, <1>10 DEF Includes, Loading
<1>14. TypeOK'
    BY <1>1, <1>4, <1>5, <1>10 DEF TypeOK, Frames
<1>15. Entered'
  <2>1. \A k \in 1 .. n : stack[k].file # new
      BY <1>2, <1>5 DEF LoadInv, Entered
  <2>2. \A i \in 1 .. Len(loaded) : loaded[i] # new
      BY <1>5 DEF LoadInv, Entered
  <2>3. \A q \in seen' : \/ \E i \in 1 .. Len(loaded') : loaded'[i] = q
                         \/ \E k \in 1 .. Len(stack') : stack'[k].file = q
    <3>1. 1 \in 1 .. n + 1 /\ \A k \in 1 .. n : k + 1 \in 1 .. n + 1
        OBVIOUS
    <3>2. \A q \in seen : \/ \E i \in 1 .. Len(loaded) : loaded[i] = q
                          \/ \E k \in 1 .. n : stack[k].file = q
        BY <1>2 DEF LoadInv, Entered
    <3>3. ASSUME NEW k \in 1 .. n PROVE \E l \in 1 .. Len(stack') : stack'[l].file = stack[k].file
        BY <1>10, <1>11, <3>1
    <3>4. \E l \in 1 .. Len(stack') : stack'[l].file = new
        BY <1>10, <1>11, <3>1
    <3>5. SUFFICES ASSUME NEW q \in seen'
                   PROVE  \/ \E i \in 1 .. Len(loaded') : loaded'[i] = q
                          \/ \E k \in 1 .. Len(stack') : stack'[k].file = q
        OBVIOUS
    <3>6. CASE q = new
        BY <3>4, <3>6
    <3>7. CASE \E i \in 1 .. Len(loaded) : loaded[i] = q
        BY <1>1, <3>7
    <3>8. CASE \E k \in 1 .. n : stack[k].file = q
        BY <3>3, <3>8
    <3>. QED  BY <1>5, <3>2, <3>6, <3>7, <3>8
  <2>4. /\ \A i \in 1 .. Len(loaded') : loaded'[i] \in seen'
        /\ \A i, j \in 1 .. Len(loaded') : i # j => loaded'[i] # loaded'[j]
      BY <1>1, <1>5 DEF LoadInv, Entered
  <2>5. ASSUME NEW k \in 1 .. n + 1 PROVE stack'[k].file \in seen'
    <3>1. \A i \in 1 .. n : stack[i].file \in seen
        BY <1>2 DEF LoadInv, Entered
    <3>2. CASE k = 1
        BY <1>5, <1>11, <3>2
    <3>3. CASE k # 1
      <4>1. PICK i \in 1 .. n : k = i + 1
          BY <1>12, <3>3
      <4>. QED  BY <1>5, <1>11, <3>1, <4>1
    <3>. QED  BY <3>2, <3>3
  <2>6. ASSUME NEW k \in 1 .. n + 1, NEW l \in 1 .. n + 1, k # l
        PROVE  stack'[k].file # stack'[l].file
    <3>1. \A i, j \in 1 .. n : i # j => stack[i].file # stack[j].file
        BY <1>2 DEF LoadInv, Entered
    <3>2. CASE k = 1
      <4>1. PICK j \in 1 .. n : l = j + 1
          BY <1>12, <2>6, <3>2
      <4>. QED  BY <1>11, <2>1, <3>2, <4>1
    <3>3. CASE l = 1
      <4>1. PICK i \in 1 .. n : k = i + 1
          BY <1>12, <2>6, <3>3
      <4>. QED  BY <1>11, <2>1, <3>3, <4>1
    <3>4. CASE k # 1 /\ l # 1
      <4>1. PICK i \in 1 .. n : k = i + 1
          BY <1>12, <3>4
      <4>2. PICK j \in 1 .. n : l = j + 1
          BY <1>12, <3>4
      <4>3. i # j
          BY <2>6, <4>1, <4>2
      <4>4. stack'[k].file = stack[i].file /\ stack'[l].file = stack[j].file
          BY <1>11, <4>1, <4>2
      <4>. QED  BY <3>1, <4>3, <4>4
    <3>. QED  BY <3>2, <3>3, <3>4
  <2>7. ASSUME NEW i \in 1 .. Len(loaded), NEW k \in 1 .. n + 1
        PROVE  loaded[i] # stack'[k].file
    <3>1. \A j \in 1 .. n : loaded[i] # stack[j].file
        BY <1>2 DEF LoadInv, Entered
    <3>. QED  BY <1>11, <1>12, <2>2, <3>1
  <2>. QED  BY <1>1, <1>10, <2>3, <2>4, <2>5, <2>6, <2>7 DEF Entered
<1>16. Descent'
  <2>1. ASSUME NEW k \in 1 .. n + 1, NEW l \in 1 .. n + 1, k <= l
        PROVE  stack'[k].file \in Reached(stack'[l].file)
    <3>1. \A i, j \in 1 .. n : i <= j => stack[i].file \in Reached(stack[j].file)
        BY <1>2 DEF LoadInv, Descent
    <3>2. CASE l = 1
        BY <1>11, <2>1, <3>2, ReachedSelf
    <3>3. CASE l # 1
      <4>1. PICK j \in 1 .. n : l = j + 1
          BY <1>12, <3>3
      <4>2. CASE k = 1
        <5>1. stack[1].file \in Reached(stack[j].file)
            BY <3>1
        <5>. QED  BY <1>4, <1>11, <4>1, <4>2, <5>1, ReachedNext
      <4>3. CASE k # 1
        <5>1. PICK i \in 1 .. n : k = i + 1
            BY <1>12, <4>3
        <5>2. i <= j
            BY <2>1, <4>1, <5>1
        <5>3. stack'[k].file = stack[i].file /\ stack'[l].file = stack[j].file
            BY <1>11, <4>1, <5>1
        <5>. QED  BY <3>1, <5>2, <5>3
      <4>. QED  BY <4>2, <4>3
    <3>. QED  BY <3>2, <3>3
  <2>. QED  BY <1>1, <1>10, <2>1, SameFiles DEF Descent
<1>17. Walked'
  <2>1. \A k \in 1 .. n : Done(stack[k].file, stack[k].from)
      BY <1>2 DEF LoadInv, Walked
  <2>2. ASSUME NEW k \in 1 .. n + 1, NEW file, file = stack'[k].file, NEW from, from = stack'[k].from
        PROVE  Done(file, from)'
    <3>1. CASE k = 1
        BY <1>6, <1>10, <2>2, <3>1, Positions DEF Done
    <3>2. CASE k = 2
      <4>1. file = stack[1].file /\ from = next + 1
          BY <1>8, <1>10, <2>2, <3>2
      <4>. QED  BY <1>1, <1>3, <1>4, <1>5, <2>1, <4>1, DoneNext
    <3>3. CASE k \notin {1, 2}
      <4>1. k - 1 \in 2 .. n /\ k = (k - 1) + 1
          BY <3>3
      <4>2. file = stack[k - 1].file /\ from = stack[k - 1].from
          BY <1>8, <1>10, <2>2, <4>1
      <4>. QED  BY <1>1, <1>5, <2>1, <4>1, <4>2, DoneStays
    <3>. QED  BY <3>1, <3>2, <3>3
  <2>3. \A i \in 1 .. Len(loaded) : Whole(loaded[i])'
      BY <1>1, <1>5, DoneStays DEF LoadInv, Walked
  <2>. QED  BY <1>1, <1>10, <2>2, <2>3 DEF Walked
<1>18. Stage'
  <2>1. Main = stack[n].file /\ Main' = Main
      BY <1>2, <1>10, <1>11, <1>13 DEF Main
  <2>2. new \in Reached(Main)
    <3>1. stack[1].file \in Reached(Main)
        BY <1>2, <2>1 DEF LoadInv, Descent
    <3>. QED  BY <1>4, <3>1, ReachedNext
  <2>3. \A q \in seen' : q \in Reached(Main)
      BY <1>5, <2>2 DEF LoadInv, Stage
  <2>. QED  BY <1>1, <1>13, <2>1, <2>3, SameFiles DEF LoadInv, Stage
<1>19. IncludedFirst'
    BY <1>1, OrderStays DEF LoadInv
<1>. QED  BY <1>14, <1>15, <1>16, <1>17, <1>18, <1>19 DEF LoadInv

LEMMA TextKeeps ==
    ASSUME LoadInv, TakeText
    PROVE  LoadInv'
<1>1. /\ content' = content /\ seen' = seen /\ TypeOK /\ stack # << >>
      /\ stack' = Tail(stack) /\ at = "loading"
    BY DEF TakeText, LoadInv, Loading
<1>2. PICK n \in Nat \ {0} : n = Len(stack)
    BY <1>1, TopIs
<1>3. PICK file \in DOMAIN content : file = stack[1].file /\ file = Head(stack).file
    BY <1>1, <1>2, TopIs DEF Frames
<1>4. /\ stack' \in Seq(Frames) /\ Len(stack') = n - 1
      /\ \A k \in 1 .. n - 1 : stack'[k] = stack[k + 1]
    BY <1>1, <1>2, TopIs
<1>5. PICK m \in Nat : m = Len(loaded)
    BY <1>1 DEF TypeOK
<1>6. loaded \in Seq(DOMAIN content) /\ loaded' = Append(loaded, file)
    BY <1>1, <1>3 DEF TakeText, TypeOK
<1>7. /\ loaded' \in Seq(DOMAIN content) /\ Len(loaded') = m + 1
      /\ loaded'[m + 1] = file /\ \A i \in 1 .. m : loaded'[i] = loaded[i]
    BY <1>5, <1>6, AppendProperties
<1>8. at' = IF n = 1 THEN "parsing" ELSE at
    BY <1>2 DEF TakeText
<1>9. \A k \in 1 .. n - 1 : k + 1 \in 2 .. n /\ k + 1 \in 1 .. n
    OBVIOUS
<1>10. Whole(file) /\ Whole(file)'
  <2>1. Done(file, stack[1].from)
      BY <1>2, <1>3 DEF LoadInv, Walked
  <2>2. \A i \in IncludesAt(content[file]) : i \in Nat /\ ~(i >= stack[1].from)
      BY <1>1, <1>2, <1>3, Positions, TopIs DEF TakeText, ToCome
  <2>3. stack[1].from \in Nat
      BY <1>1, <1>2, TopIs DEF Frames
  <2>4. \A i \in IncludesAt(content[file]) : i < stack[1].from
      BY <2>2, <2>3
  <2>5. Whole(file)
      BY <2>1, <2>4 DEF Done, Whole
  <2>. QED  BY <1>1, <2>5, DoneStays
<1>11. stack' = << >> <=> n = 1
    BY <1>4, EmptySeq
<1>12. TypeOK'
  <2>1. text' \in Seq(Tokens)
    <3>1. content[file] \in Seq(Tokens)
        BY <1>1 DEF TypeOK, Trees
    <3>2. text \in Seq(Tokens)
        BY <1>1 DEF TypeOK
    <3>. QED  BY <1>3, <3>1, <3>2, ConcatProperties DEF TakeText
  <2>. QED  BY <1>1, <1>4, <1>7, <1>8, <2>1 DEF TypeOK, Frames
<1>13. Entered'
  <2>1. /\ \A q \in seen : \/ \E i \in 1 .. m : loaded[i] = q
                           \/ \E k \in 1 .. n : stack[k].file = q
        /\ \A i \in 1 .. m : loaded[i] \in seen
        /\ \A k \in 1 .. n : stack[k].file \in seen
        /\ \A i, j \in 1 .. m : i # j => loaded[i] # loaded[j]
        /\ \A k, l \in 1 .. n : k # l => stack[k].file # stack[l].file
        /\ \A i \in 1 .. m, k \in 1 .. n : loaded[i] # stack[k].file
      BY <1>2, <1>5 DEF LoadInv, Entered
  <2>2. \A i \in 1 .. m + 1 : i = m + 1 \/ i \in 1 .. m
      OBVIOUS
  <2>3. 1 \in 1 .. n
      OBVIOUS
  <2>4. ASSUME NEW q \in seen
        PROVE  \/ \E i \in 1 .. m + 1 : loaded'[i] = q
               \/ \E k \in 1 .. n - 1 : stack'[k].file = q
    <3>1. CASE \E i \in 1 .. m : loaded[i] = q
      <4>1. PICK i \in 1 .. m : loaded[i] = q
          BY <3>1
      <4>2. i \in 1 .. m + 1 /\ loaded'[i] = q
          BY <1>7, <4>1
      <4>. QED  BY <4>2
    <3>2. CASE \E k \in 1 .. n : stack[k].file = q
      <4>1. PICK k \in 1 .. n : stack[k].file = q
          BY <3>2
      <4>2. CASE k = 1
        <5>1. m + 1 \in 1 .. m + 1 /\ loaded'[m + 1] = q
            BY <1>3, <1>7, <4>1, <4>2
        <5>. QED  BY <5>1
      <4>3. CASE k # 1
        <5>1. k - 1 \in 1 .. n - 1 /\ (k - 1) + 1 = k
            BY <4>3
        <5>2. stack'[k - 1].file = q
            BY <1>4, <4>1, <5>1
        <5>. QED  BY <5>1, <5>2
      <4>. QED  BY <4>2, <4>3
    <3>. QED  BY <2>1, <3>1, <3>2
  <2>5. \A i \in 1 .. m + 1 : loaded'[i] \in seen
      BY <1>3, <1>7, <2>1, <2>2, <2>3
  <2>6. \A k \in 1 .. n - 1 : stack'[k].file \in seen
      BY <1>4, <1>9, <2>1
  <2>7. ASSUME NEW i \in 1 .. m + 1, NEW j \in 1 .. m + 1, i # j
        PROVE  loaded'[i] # loaded'[j]
    <3>1. \A k \in 1 .. m : loaded[k] # file
        BY <1>3, <2>1, <2>3
    <3>2. CASE i \in 1 .. m /\ j \in 1 .. m
        BY <1>7, <2>1, <2>7, <3>2
    <3>3. CASE i = m + 1
        BY <1>7, <2>2, <2>7, <3>1, <3>3
    <3>4. CASE j = m + 1
        BY <1>7, <2>2, <2>7, <3>1, <3>4
    <3>. QED  BY <2>2, <3>2, <3>3, <3>4
  <2>8. ASSUME NEW k \in 1 .. n - 1, NEW l \in 1 .. n - 1, k # l
        PROVE  stack'[k].file # stack'[l].file
    <3>1. k + 1 # l + 1 /\ k + 1 \in 1 .. n /\ l + 1 \in 1 .. n
        BY <2>8
    <3>2. stack[k + 1].file # stack[l + 1].file
        BY <2>1, <3>1
    <3>. QED  BY <1>4, <3>2
  <2>9. ASSUME NEW i \in 1 .. m + 1, NEW k \in 1 .. n - 1
        PROVE  loaded'[i] # stack'[k].file
    <3>1. k + 1 \in 1 .. n /\ k + 1 # 1 /\ stack'[k].file = stack[k + 1].file
        BY <1>4
    <3>2. CASE i = m + 1
        BY <1>3, <1>7, <2>1, <2>3, <3>1, <3>2
    <3>3. CASE i \in 1 .. m
        BY <1>7, <2>1, <3>1, <3>3
    <3>. QED  BY <2>2, <3>2, <3>3
  <2>10. Len(loaded') = m + 1 /\ Len(stack') = n - 1 /\ seen' = seen
      BY <1>1, <1>4, <1>7
  <2>. QED  BY <2>4, <2>5, <2>6, <2>7, <2>8, <2>9, <2>10 DEF Entered
<1>14. \A k, l \in 1 .. n : k <= l => stack[k].file \in Reached(stack[l].file)
    BY <1>2 DEF LoadInv, Descent
<1>15. Descent'
  <2>1. ASSUME NEW k \in 1 .. n - 1, NEW l \in 1 .. n - 1, k <= l
        PROVE  stack'[k].file \in Reached(stack'[l].file)
    <3>1. k + 1 <= l + 1 /\ k + 1 \in 1 .. n /\ l + 1 \in 1 .. n
        BY <2>1
    <3>2. stack[k + 1].file \in Reached(stack[l + 1].file)
        BY <1>14, <3>1
    <3>. QED  BY <1>4, <3>2
  <2>. QED  BY <1>1, <1>4, <2>1, SameFiles DEF Descent
<1>16. Walked'
  <2>1. \A k \in 1 .. n : Done(stack[k].file, stack[k].from)
      BY <1>2 DEF LoadInv, Walked
  <2>2. ASSUME NEW k \in 1 .. n - 1, NEW path, path = stack'[k].file, NEW from, from = stack'[k].from
        PROVE  Done(path, from)'
      BY <1>1, <1>4, <1>9, <2>1, <2>2, DoneStays
  <2>3. ASSUME NEW i \in 1 .. m + 1, NEW path, path = loaded'[i] PROVE Whole(path)'
    <3>1. CASE i = m + 1
        BY <1>7, <1>10, <2>3, <3>1
    <3>2. CASE i \in 1 .. m
      <4>1. Whole(loaded[i])
          BY <1>5, <3>2 DEF LoadInv, Walked
      <4>. QED  BY <1>1, <1>7, <2>3, <3>2, <4>1, DoneStays
    <3>. QED  BY <3>1, <3>2
  <2>. QED  BY <1>4, <1>7, <2>2, <2>3 DEF Walked
<1>17. Stage'
  <2>1. Main = stack[n].file
      BY <1>1, <1>2 DEF Main
  <2>2. Main' = stack[n].file
    <3>1. CASE n = 1
        BY <1>3, <1>7, <1>11, <3>1 DEF Main
    <3>2. CASE n # 1
      <4>1. n - 1 \in 1 .. n - 1 /\ (n - 1) + 1 = n
          BY <3>2
      <4>2. stack'[n - 1] = stack[n]
          BY <1>4, <4>1
      <4>. QED  BY <1>4, <1>11, <3>2, <4>2 DEF Main
    <3>. QED  BY <3>1, <3>2
  <2>3. loaded' # << >>
      BY <1>7, EmptySeq
  <2>4. at' = "loading" <=> stack' # << >> /\ at' # "failed"
      BY <1>1, <1>8, <1>11
  <2>5. \A q \in seen : q \in Reached(Main)
      BY DEF LoadInv, Stage
  <2>. QED  BY <1>1, <2>1, <2>2, <2>3, <2>4, <2>5, SameFiles DEF Stage
<1>18. IncludedFirst'
  <2>1. DOMAIN loaded = 1 .. m /\ DOMAIN loaded' = 1 .. m + 1
      BY <1>5, <1>6, <1>7
  <2>2. \A i, j \in 1 .. m + 1 : i # j => loaded'[i] # loaded'[j]
      BY <1>7, <1>13 DEF Entered
  <2>3. ASSUME NEW i \in 1 .. m + 1, NEW q \in IncludedBy(loaded'[i])
        PROVE  \/ \E j \in 1 .. i - 1 : loaded'[j] = q
               \/ loaded'[i] \in Reached(q)
    <3>1. CASE i \in 1 .. m
      <4>1. \/ \E j \in 1 .. i - 1 : loaded[j] = q
            \/ loaded[i] \in Reached(q)
          BY <1>7, <2>1, <2>3, <3>1 DEF LoadInv, IncludedFirst
      <4>2. \A j \in 1 .. i - 1 : loaded'[j] = loaded[j]
          BY <1>7, <3>1
      <4>. QED  BY <1>7, <3>1, <4>1, <4>2
    <3>2. CASE i = m + 1
      <4>1. loaded'[i] = file
          BY <1>7, <3>2
      <4>2. q \in seen
          BY <1>10, <2>3, <4>1 DEF Whole, IncludedBy
      <4>3. CASE \E j \in 1 .. m : loaded[j] = q
        <5>1. PICK j \in 1 .. m : loaded[j] = q
            BY <4>3
        <5>2. j \in 1 .. i - 1 /\ loaded'[j] = q
            BY <1>7, <3>2, <5>1
        <5>. QED  BY <5>2
      <4>4. CASE \E k \in 1 .. n : stack[k].file = q
        <5>1. PICK k \in 1 .. n : stack[k].file = q
            BY <4>4
        <5>2. 1 \in 1 .. n /\ 1 <= k
            OBVIOUS
        <5>3. stack[1].file \in Reached(stack[k].file)
            BY <1>14, <5>2
        <5>. QED  BY <1>3, <4>1, <5>1, <5>3
      <4>. QED  BY <1>2, <1>5, <4>2, <4>3, <4>4 DEF LoadInv, Entered
    <3>. QED  BY <3>1, <3>2
  <2>. QED  BY <1>1, <2>1, <2>2, <2>3, SameFiles DEF IncludedFirst
<1>. QED  BY <1>12, <1>13, <1>15, <1>16, <1>17, <1>18 DEF LoadInv

LEMMA LoadNext == LoadInv /\ [Next]_vars => LoadInv'
<1> SUFFICES ASSUME LoadInv, [Next]_vars PROVE LoadInv'
    OBVIOUS
<1>1. CASE IncludeMissing
    BY <1>1, MissingKeeps
<1>2. CASE IncludeAgain
    BY <1>2, AgainKeeps
<1>3. CASE IncludeFile
    BY <1>3, FileKeeps
<1>4. CASE TakeText
    BY <1>4, TextKeeps
<1>5. CASE UNCHANGED vars
  <2>1. content' = content /\ stack' = stack /\ seen' = seen /\ loaded' = loaded /\ at' = at
        /\ text' = text
      BY <1>5 DEF vars, loader
  <2>2. TypeOK' /\ Entered'
      BY <2>1 DEF LoadInv, TypeOK, Entered
  <2>3. Descent'
      BY <2>1, SameFiles DEF LoadInv, Descent
  <2>4. Walked'
      BY <2>1, DoneStays DEF LoadInv, Walked
  <2>5. Main' = Main
      BY <2>1 DEF Main
  <2>6. Stage'
      BY <2>1, <2>5, SameFiles DEF LoadInv, Stage
  <2>. QED  BY <2>1, <2>2, <2>3, <2>4, <2>6, OrderStays DEF LoadInv
<1>. QED  BY <1>1, <1>2, <1>3, <1>4, <1>5 DEF Next, LoaderStep

LEMMA Loads == Spec => []LoadInv
BY LoadInit, LoadNext, PTL DEF Spec

(* Every variable of the loader keeps its type: the files that are entered and  *)
(* loaded are files of the tree.                                             *)
THEOREM LoaderTypes == Spec => []TypeOK
<1>1. LoadInv => TypeOK
    BY DEF LoadInv
<1>. QED  BY <1>1, Loads, PTL

(* However the files include each other, no file is given to the parser twice,  *)
(* and each one behind all that it includes, unless that comes round to it.     *)
THEOREM LoadsInOrder == Spec => []IncludedFirst
<1>1. LoadInv => IncludedFirst
    BY DEF LoadInv
<1>. QED  BY <1>1, Loads, PTL

(* What the parser gets is all that the main file reaches and nothing else.     *)
THEOREM LoadsAll == Spec => []LoadsWhatIsReached
<1>1. ASSUME LoadInv PROVE LoadsWhatIsReached
  <2> DEFINE files == {loaded[i] : i \in DOMAIN loaded}
  <2>1. SUFFICES ASSUME at = "parsing"
                 PROVE  loaded # << >> /\ files = Reached(loaded[Len(loaded)])
      BY DEF LoadsWhatIsReached
  <2>2. stack = << >> /\ loaded # << >> /\ Len(stack) = 0
      BY <1>1, <2>1, EmptySeq DEF LoadInv, Stage
  <2>3. PICK m \in Nat \ {0} : m = Len(loaded)
      BY <1>1, <2>2, EmptySeq DEF LoadInv, TypeOK
  <2>4. DOMAIN loaded = 1 .. m /\ files \subseteq DOMAIN content /\ loaded[m] \in files
      BY <1>1, <2>3 DEF LoadInv, TypeOK
  <2>5. seen = files
      BY <1>1, <2>2, <2>3, <2>4 DEF LoadInv, Entered
  <2>6. files \subseteq Reached(loaded[m])
      BY <1>1, <2>2, <2>3, <2>5 DEF LoadInv, Stage, Main
  <2>7. Closed(files)
    <3>1. ASSUME NEW q \in files PROVE IncludedBy(q) \subseteq seen
        BY <1>1, <2>3, <2>4 DEF LoadInv, Walked, Whole, IncludedBy
    <3>. QED  BY <2>5, <3>1 DEF Closed
  <2>8. Reached(loaded[m]) \subseteq files
      BY <2>4, <2>7 DEF Reached
  <2>. QED  BY <2>2, <2>3, <2>6, <2>8
<1>. QED  BY <1>1, Loads, PTL
=============================================================================
