------------------------------- MODULE MC_Idl -------------------------------
(* Trees with declarations: one file; two files that include each other; files   *)
(* of one name in two directories, each included by another file; a file that is  *)
(* not there.  And without declarations every tree of up to four files, two names  *)
(* in two directories, with up to two includes each.                           *)
EXTENDS IdlDocument

MC_Dirs == <<"lib">>

Src(name) == Path("src", name)
Lib(name) == Path("lib", name)

Tree(includes_of, order, size) == [includes |-> includes_of, order |-> order, size |-> size]

Written_trees ==
    {Tree(Src("main") :> << >>, <<Src("main")>>, 3),
     Tree(Src("main") :> <<"common">> @@ Src("common") :> <<"main">>,
          <<Src("common"), Src("main")>>, 2),
     Tree(Src("main") :> <<"util", "common">> @@ Lib("util") :> <<"common">>
            @@ Lib("common") :> << >> @@ Src("common") :> << >>,
          <<Lib("common"), Src("main")>>, 2),
     Tree(Src("main") :> <<"common", "gone">> @@ Lib("common") :> << >>,
          <<Lib("common"), Src("main")>>, 1)}

Includes_of == {<< >>} \cup {<<a>> : a \in {"a", "b"}} \cup {<<a, b>> : a, b \in {"a", "b"}}
Places_of   == {Path(dir, name) : dir \in {"src", "lib"}, name \in {"a", "b"}}

Bare ==
    {Tree(files, <<Src("a")>>, 0) :
        files \in UNION {[paths \cup {Src("a")} -> Includes_of] : paths \in SUBSET Places_of}}

MC_Trees == Written_trees \cup Bare
=============================================================================
