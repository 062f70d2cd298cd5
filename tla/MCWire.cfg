SPECIFICATION Spec
CONSTANTS
    s1 = s1
    s2 = s2
    NoSender = NoSender
    Sender = {s1, s2}
    HdrLen = 2
    Lengths = {0, 2, 5}
    Modulus = 4
    BufCap = 3
    MaxPackets = 3
INVARIANTS
    TypeOK
PROPERTIES
    PacketsWhole
    MutexFreed
    SentArrives
