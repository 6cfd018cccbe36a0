\* The program ends when everything is read.
SPECIFICATION Spec
CONSTANTS
    Structs <- MC_Structs
    Root = "Outer"
    MaxNibble = 2
    MaxSize = 2
INVARIANTS TypeOK FieldIdsRight ReadsItAll BoolsRight
CHECK_DEADLOCK FALSE
