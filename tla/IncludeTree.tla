----------------------------- MODULE IncludeTree -----------------------------
(***************************************************************************)
(* The loader alone, on any tree of files: IncludeLoader started on a file of  *)
(* the tree, with nothing said about what the files hold.                     *)
(***************************************************************************)
EXTENDS IncludeLoader

CONSTANT Paths      \* where files may be

Tokens == [t : STRING, s : STRING, n : Int]
Trees  == UNION {[paths -> Seq(Tokens)] : paths \in SUBSET Paths}

vars == <<text, at, loader>>

TypeOK ==
    /\ content \in Trees
    /\ at \in {"loading", "parsing", "failed"}
    /\ text \in Seq(Tokens)
    /\ stack \in Seq([file : DOMAIN content, from : Nat \ {0}])
    /\ seen \subseteq DOMAIN content
    /\ loaded \in Seq(DOMAIN content)

Init ==
    /\ content \in Trees
    /\ \E main \in DOMAIN content : stack = <<Call(main)>> /\ seen = {main}
    /\ at = "loading" /\ text = << >> /\ loaded = << >>

Next == LoaderStep

Spec == Init /\ [][Next]_vars
=============================================================================
