---------------------------- MODULE IncludeLoader ----------------------------
(***************************************************************************)
(* `load' of loader.py, which stands in front of the parser: it reads a file   *)
(* and, depth first, the files it includes, and gives the parser one text, a    *)
(* file behind those it includes.  A call of _read_thrift_with_includes is a    *)
(* frame of `stack'.                                                         *)
(***************************************************************************)
EXTENDS IdlText

CONSTANT include_dirs   \* directories, in the order they are searched

ASSUME DirsAssumption == Len(include_dirs) \in Nat

VARIABLES
    content,    \* path -> the tokens of the file, for each file there is
    stack,      \* the calls under way, innermost first: the file, and from
                \*   which token on its includes are still to come
    seen,       \* the files that were entered
    loaded      \* ghost: the files whose text has been taken, in order

loader == <<content, stack, seen, loaded>>

Path(dir, name) == [dir |-> dir, name |-> name]

(* _INCLUDE_RE.findall: where an include stands in a file, and the name behind  *)
(* it.                                                                       *)
IncludesAt(tokens) ==
    {i \in 1 .. Len(tokens) - 1 : tokens[i] = Kw("include") /\ tokens[i + 1].t = "string"}
NameAt(path, i) == content[path][i + 1].s

(* _resolve_include: the first directory that has it, the one of the file that   *)
(* includes it before all others.                                            *)
Candidate(name, base_dir, d) == Path(IF d = 0 THEN base_dir ELSE include_dirs[d], name)
Places(name, base_dir) ==
    {d \in 0 .. Len(include_dirs) : Candidate(name, base_dir, d) \in DOMAIN content}
ResolveInclude(name, base_dir) == Candidate(name, base_dir, Min(Places(name, base_dir)))

(* A file is told by its path.                                               *)
\* Mutant of IsSeen: by its name.
IsSeenByName(path) == \E p \in seen : p.name = path.name

IsSeen(path) == path \in seen

Call(path) == [file |-> path, from |-> 1]

Load(main) ==
    /\ at' = "loading"
    /\ stack' = <<Call(main)>>
    /\ seen' = {main}
    /\ UNCHANGED <<text, content, loaded>>

\* Mutant of ToCome: search where there should be findall.
ToComeOnce(call) ==
    {i \in IncludesAt(content[call.file]) :
        i >= call.from /\ \A j \in IncludesAt(content[call.file]) : i <= j}

ToCome(call) == {i \in IncludesAt(content[call.file]) : i >= call.from}
Loading == at = "loading" /\ stack # << >>
Includes == Loading /\ ToCome(Head(stack)) # {}

Next_include == Min(ToCome(Head(stack)))
Name == NameAt(Head(stack).file, Next_include)
Missing == Places(Name, Head(stack).file.dir) = {}
Included == ResolveInclude(Name, Head(stack).file.dir)
Returned == <<[Head(stack) EXCEPT !.from = Next_include + 1]>> \o Tail(stack)

(* FileNotFoundError.                                                        *)
IncludeMissing ==
    /\ Includes /\ Missing
    /\ at' = "failed"
    /\ UNCHANGED <<text, loader>>

(* A file that was entered already gives no text.                            *)
IncludeAgain ==
    /\ Includes /\ ~Missing
    /\ IsSeen(Included)
    /\ stack' = Returned
    /\ UNCHANGED <<text, at, content, seen, loaded>>

IncludeFile ==
    /\ Includes /\ ~Missing
    /\ ~IsSeen(Included)
    /\ seen' = seen \cup {Included}
    /\ stack' = <<Call(Included)>> \o Returned
    /\ UNCHANGED <<text, at, content, loaded>>

(* The text of the file comes behind that of its includes; the outermost call    *)
(* gives it all to the parser.                                               *)
TakeText ==
    /\ Loading /\ ToCome(Head(stack)) = {}
    /\ text' = text \o content[Head(stack).file]
    /\ loaded' = Append(loaded, Head(stack).file)
    /\ stack' = Tail(stack)
    /\ at' = IF Len(stack) = 1 THEN "parsing" ELSE at
    /\ UNCHANGED <<content, seen>>

LoaderStep ==
    \/ IncludeMissing
    \/ IncludeAgain
    \/ IncludeFile
    \/ TakeText

-----------------------------------------------------------------------------
(* The include graph, as the files have it.                                   *)
IncludedBy(path) ==
    {ResolveInclude(NameAt(path, i), path.dir) :
        i \in {j \in IncludesAt(content[path]) : Places(NameAt(path, j), path.dir) # {}}}

Closed(paths) == \A p \in paths : IncludedBy(p) \subseteq paths

Reached(path) ==
    {q \in DOMAIN content : \A paths \in SUBSET DOMAIN content :
        path \in paths /\ Closed(paths) => q \in paths}

(* The text of each file that is reached is there once, and behind the text of   *)
(* every file it includes, unless that one comes round to it again.            *)
IncludedFirst ==
    /\ \A i, j \in DOMAIN loaded : i # j => loaded[i] # loaded[j]
    /\ \A i \in DOMAIN loaded : \A p \in IncludedBy(loaded[i]) :
         \/ \E j \in 1 .. i - 1 : loaded[j] = p
         \/ loaded[i] \in Reached(p)

(* What the parser is given is the text of the file that was asked for, which    *)
(* comes last, and of all that it reaches, and of no other file.               *)
LoadsWhatIsReached ==
    at = "parsing" =>
        /\ loaded # << >>
        /\ {loaded[i] : i \in DOMAIN loaded} = Reached(loaded[Len(loaded)])
=============================================================================
