CONSTANTS
    local = local
    remote = remote
    m1 = m1
    m2 = m2
    RingSize = 4
    Package = 2
    MaxBytes = 6
    ServedBytes = 3
    Clients = {local, remote}
    Uart = Uart
    NoQueue = NoQueue
    Slots = 2
    QueueLength = 1
    MaxSockLen = 1
    Messages = {m1, m2}
SPECIFICATION Spec
INVARIANTS BridgeTypeOK InOrder GrabHasEnough RefIsReferences HeapIsReachable QueuesInTableOpen
PROPERTIES StreamInOrder BytesTakenOff
CHECK_DEADLOCK FALSE
