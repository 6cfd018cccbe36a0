----------------------------- MODULE MC_Compact -----------------------------
(* An outer struct with a field 0, as the result of a method has it, a       *)
(* boolean, a list of booleans, a map to structs the reader does not know,   *)
(* and far away from these a nested struct, which has its fields out of      *)
(* order.                                                                   *)
EXTENDS StructCodec, TLC

MC_Field(id, type, known) == [id |-> id, type |-> type, known |-> known]

MC_Structs ==
    "Outer" :> <<MC_Field(0, <<"bool">>, TRUE),
                 MC_Field(1, <<"bool">>, TRUE),
                 MC_Field(3, <<"list", "bool">>, TRUE),
                 MC_Field(4, <<"map", "scalar", "struct", "Inner">>, FALSE),
                 MC_Field(9, <<"struct", "Inner">>, TRUE),
                 MC_Field(10, <<"scalar">>, TRUE)>>
    @@ "Inner" :> <<MC_Field(2, <<"scalar">>, TRUE),
                    MC_Field(1, <<"bool">>, FALSE)>>
=============================================================================
