SPECIFICATION Spec
CONSTANTS
    Programs = {"chat"}
    Chats <- MCChats
    Phone <- MCPhone
    Chars = {"O", "K", "CR", "A"}
    MaxHeard = 5
    Keys = {"a", "NL", "~"}
    MaxKeys = 2
    RemFiles <- MCRemFiles
    LocFiles <- MCLocFiles
    High <- MCHigh
    MaxInput = 1
    MaxOutput = 2
    Time = TRUE
    MaxCmds = 3
    MaxQuits = 3
    Names = {"a", "b", "d", "e"}
    Commands <- MCCommands
    Places <- MCPlaces
    Tree <- MCTree
    Nodes <- MCNodes
    NoNode = NoNode
    Cwd <- MCCwd
    Small = 1
    OpenMax = 2
    MaxChanges = 2
    MaxRuns = 3
PROPERTY ExpectReturns
CHECK_DEADLOCK FALSE
