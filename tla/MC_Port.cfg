\* A connection ends, and a peer may stop where it likes.
SPECIFICATION Spec
CONSTANTS
    Setups <- MC_Setups
    Requests <- MC_Requests
    Alphabet = {34, 92, 125}
    MaxFrame = 2
    MaxBytes <- MC_MaxBytes
INVARIANTS TypeOK CutsWhereItEnds ProbeRight SocketIsClosed
PROPERTIES ProbeAnswers EveryMessageIsCut
CHECK_DEADLOCK FALSE
