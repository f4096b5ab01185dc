CONSTANTS
    Keys = {k1, k2, k3}
    States = {s1, s2}
    NoKey = NoKey
    NoState = NoState
SPECIFICATION Spec
SYMMETRY Symmetry
INVARIANTS TypeOK QueueMatchesEvents ListConsumedIsExact NoLostWakeup QueueWithoutTakesOneOut
PROPERTY OrderIsKept
