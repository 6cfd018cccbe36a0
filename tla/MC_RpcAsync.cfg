\* AsyncThriftClient with cancellation, and a oneway method without a handler.
SPECIFICATION Spec
CONSTANTS
    get1 = get1
    get2 = get2
    note = note
    NoCall = NoCall
    Calls = {get1, get2, note}
    Methods = {"get", "note"}
    MethodOf <- MC_MethodOf
    Oneway = {"note"}
    Served = {"get", "note"}
    Registered = {"get"}
    AsyncHandlers = {"get"}
    Throws = {}
    Undecodable = {}
    Cancellable = TRUE
    MaxConns = 2
    SeqSpace = 3
SYMMETRY MC_Symmetry
INVARIANTS IInv OneCallAtATime OwnReplyUnlessPoisoned StaleFromSameConn StaleIsDetectable
PROPERTIES RunsAtMostOnce
CHECK_DEADLOCK FALSE
