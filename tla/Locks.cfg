CONSTANT MaxEdits = 1
SPECIFICATION LocksSpec
CHECK_DEADLOCK FALSE
INVARIANTS LocksTypeOK LockIsReleased
PROPERTY EventsAreHandled
