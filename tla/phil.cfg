SPECIFICATION Spec
CONSTANTS
    N = 5
    MaxKills = 1
    MaxRuns = 2
INVARIANTS ForksExclusive FilesAreForks
PROPERTY Progress
CONSTRAINT NotBeside
