CONSTANTS
    ChannelSize = 2
    MaxTransitions = 5
    MaxCrashes = 1
SPECIFICATION SignalsSpec
CHECK_DEADLOCK FALSE
INVARIANTS SignalsTypeOK YoungestNewsIsRight
PROPERTY MasterFollows
