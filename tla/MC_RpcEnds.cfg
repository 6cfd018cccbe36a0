\* Liveness: a ThriftClient and its server in one process, shutdown included.
SPECIFICATION ProcessSpec
CONSTANTS
    fetch = fetch
    odd = odd
    bad = bad
    NoCall = NoCall
    Calls = {fetch, odd, bad}
    Methods = {"fetch", "odd", "bad"}
    MethodOf <- MC_MethodOf
    Oneway = {}
    Served = {"fetch", "bad"}
    Registered = {"fetch", "bad"}
    AsyncHandlers = {"fetch"}
    Throws = {}
    Undecodable = {"bad"}
    Cancellable = FALSE
    MaxConns = 1
    SeqSpace = 3
PROPERTIES CallsEnd
CHECK_DEADLOCK FALSE
