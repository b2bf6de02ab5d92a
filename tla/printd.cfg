SPECIFICATION Spec
CONSTANTS
    c1 = c1
    c2 = c2
    c3 = c3
    Clients = {c1, c2}
    MaxStarts = 2
    MaxFails = 1
INVARIANTS AcceptedKept QueueSound PrintsAccepted
PROPERTIES PrintedOnce AllPrinted
