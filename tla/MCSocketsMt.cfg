SPECIFICATION FairSpec
CHECK_DEADLOCK FALSE
CONSTANTS
    mqtt = mqtt
    udp = udp
    other = other
    Tasks = {mqtt, udp, other}
    OpsOf <- MCOpsOf
    NumSockets = 1
    MaxConns = 2
INVARIANT CallsProtected
PROPERTY CloseReturns
