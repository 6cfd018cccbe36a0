\* ThriftClient, one connection, every oneway method has a handler.
SPECIFICATION Spec
CONSTANTS
    get = get
    odd = odd
    bad = bad
    note = note
    NoCall = NoCall
    Calls = {get, odd, bad, note}
    Methods = {"get", "odd", "bad", "note"}
    MethodOf <- MC_MethodOf
    Oneway = {"note"}
    Served = {"get", "bad", "note"}
    Registered = {"get", "bad", "note"}
    AsyncHandlers = {}
    Throws = {"get"}
    Undecodable = {"bad"}
    Cancellable = FALSE
    MaxConns = 1
    SeqSpace = 2
INVARIANTS TypeOK OwnReply Serialised ServedInOrder DeclaredDelivered
PROPERTIES ImplementsAtMostOnce
CHECK_DEADLOCK FALSE
