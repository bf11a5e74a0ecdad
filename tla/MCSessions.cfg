SPECIFICATION FairSpec
CONSTANTS
    Ceremonies = {st1, st2}
    Callbacks = {c1, c2}
    Requests = {r1, r2}
    NHooks = 2
    None = None
INVARIANTS
    DrainedAtMostOnce
    NoOrphanedAttachment
PROPERTIES
    KeepsPromise
    EvictedOnlyWhenOver
    OpenedIsHeldOrDrained
CHECK_DEADLOCK FALSE
