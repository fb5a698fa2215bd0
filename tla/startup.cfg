SPECIFICATION FairSpec
CONSTANTS
 Children = {office, driver}
 TRIES = 3
 Faults = {"fork", "exec", "create", "crash", "interrupt"}
CHECK_DEADLOCK FALSE
INVARIANT TypeOK
INVARIANT AttachedSeesValues
INVARIANT NothingLeft
PROPERTY BootEnds
