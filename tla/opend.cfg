SPECIFICATION Spec
CONSTANTS
    c1 = c1
    c2 = c2
    c3 = c3
    Clients = {c1, c2, c3}
    Forms = {"poll", "select", "private"}
    Files = {"f"}
    Missing = {"m"}
    Odd = {"two words"}
    Long = {"long"}
    Asks <- MCAsks
    MaxOpens <- MCMaxOpens
    Killable = {c2}
    NoFd = NoFd
INVARIANTS OwnFile WatchesAll
PROPERTY EveryOpenEnds
