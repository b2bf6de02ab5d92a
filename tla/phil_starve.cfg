SPECIFICATION Spec
CONSTANTS
    N = 3
    MaxKills = 0
    MaxRuns = 1
PROPERTY NoStarvation
