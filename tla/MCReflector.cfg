CONSTANTS
    Keys = {k1, k2}
    States = {s1, s2}
    NoKey = NoKey
    NoState = NoState
    MaxVersion = 4
    MaxRelists = 2
SPECIFICATION FairReflectorSpec
INVARIANTS ReflectorTypeOK QueuedObjectsAreStored QueueBridgesTheGap OnlyReAddPanics
PROPERTIES OnlyRelistsOrphan ImplementsFeed EventuallyConverges
CHECK_DEADLOCK FALSE
