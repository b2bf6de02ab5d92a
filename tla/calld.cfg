SPECIFICATION Spec
CONSTANTS
    c1 = c1
    c2 = c2
    Clients = {c1, c2}
    Impatient = {c2}
    NoFd = NoFd
    AnySpeed = AnySpeed
    Systems <- MCSystems
    Devices <- MCDevices
    Want <- MCWant
INVARIANTS LinesSafe OwnAnswer
PROPERTY LinesFreed
