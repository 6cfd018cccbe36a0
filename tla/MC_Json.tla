------------------------------ MODULE MC_Json ------------------------------
(* Three documents: fields out of the order of their ids as text and structs *)
(* in a map; maps in a list beside a struct the reader does not know; a map  *)
(* of lists that it does not know.                                          *)
EXTENDS JsonDirect, TLC

MC_Field(id, type, known) == [id |-> id, type |-> type, known |-> known]

MC_Structs ==
    "Mixed" :> <<MC_Field(2, <<"dbl">>, TRUE),
                 MC_Field(10, <<"map", "num", "struct", "Inner">>, TRUE)>>
    @@ "Lists" :> <<MC_Field(11, <<"struct", "Inner">>, FALSE),
                    MC_Field(1, <<"list", "map", "str", "num">>, TRUE)>>
    @@ "Newer" :> <<MC_Field(1, <<"map", "num", "list", "dbl">>, FALSE),
                    MC_Field(3, <<"str">>, TRUE)>>
    @@ "Inner" :> <<MC_Field(2, <<"num">>, TRUE), MC_Field(1, <<"str">>, FALSE)>>
=============================================================================
