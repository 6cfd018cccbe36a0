----------------------------- MODULE MC_Binary -----------------------------
(* "Known": every kind of value in fields the reader knows, ids below zero and   *)
(* above a byte.  "Newer": containers and bytes in fields it does not know,       *)
(* around one it does.  "Other": a method that is not served.  "Small" comes      *)
(* behind another message, or before it.                                        *)
EXTENDS BinaryCodec, TLC

MC_Field(id, type, known) == [id |-> id, type |-> type, known |-> known]

MC_Structs ==
    "Known" :> <<MC_Field(-1, <<"i64">>, TRUE),
                 MC_Field(300, <<"map", "bool", "list", "i16">>, TRUE)>>
    @@ "Newer" :> <<MC_Field(1, <<"map", "str", "struct", "Inner">>, FALSE),
                    MC_Field(2, <<"binary">>, TRUE),
                    MC_Field(3, <<"binary">>, FALSE)>>
    @@ "Other" :> <<MC_Field(1, <<"set", "i32">>, TRUE)>>
    @@ "Small" :> <<MC_Field(256, <<"bool">>, TRUE)>>
    @@ "Inner" :> <<MC_Field(1, <<"double">>, TRUE), MC_Field(2, <<"list", "byte">>, FALSE)>>

MC_Streams ==
    {<<"Known", "Small">>, <<"Newer", "Small">>, <<"Other", "Newer">>, <<"Small", "Other">>}
MC_Numbers == {-2}
MC_Texts == {<<97>>}
MC_Blobs == {<<200, 0>>}

MC_Name == [Known |-> <<107>>, Newer |-> <<110, 119>>, Other |-> <<111>>,
            Small |-> << >>]
=============================================================================
