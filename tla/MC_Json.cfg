\* The program ends when everything is read.
SPECIFICATION Spec
CONSTANTS
    Structs <- MC_Structs
    Roots = {"Mixed", "Lists", "Newer"}
    Scalars = {0, 1}
    MaxSize = 2
INVARIANTS TypeOK JsonRoundTrips StacksInStep 
CHECK_DEADLOCK FALSE
