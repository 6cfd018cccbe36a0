------------------------------- MODULE IdlText -------------------------------
(***************************************************************************)
(* What the include loader hands to the parser: the tokens of a document, and  *)
(* how far the document has come.                                           *)
(***************************************************************************)
EXTENDS Integers, Sequences, FiniteSets, SequencesExt

VARIABLES
    text,       \* the tokens
    at          \* "writing", "loading", "parsing", "parsed" or "failed"

(* Tokens: a kind, the text of a keyword, an identifier or a string, and the   *)
(* value of a number.                                                        *)
Tok(t, s, n) == [t |-> t, s |-> s, n |-> n]
Kw(s)  == Tok("keyword", s, 0)
Id(s)  == Tok("identifier", s, 0)
Lit(s) == Tok("string", s, 0)
Num(n) == Tok("number", "", n)
Sym(c) == Tok(c, "", 0)
Eof    == Sym("eof")
Words  == {"keyword", "identifier"}
=============================================================================
