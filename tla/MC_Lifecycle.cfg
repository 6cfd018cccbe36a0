\* One port.
SPECIFICATION FairSpec
CONSTANTS
    main = main
    again = again
    direct = direct
    Serves = {main, again, direct}
    Forever = {main, again}
    Ports = {1}
    PortOf <- MC_OnePort
    MaxConns = 2
INVARIANTS TypeOK NoGhostServer RunningWhileAccepting
PROPERTIES RepeatedStopEnds ServeForeverStarts
CHECK_DEADLOCK FALSE
