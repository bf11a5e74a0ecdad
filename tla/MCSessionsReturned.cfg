SPECIFICATION FairSpec
CONSTANTS
    Ceremonies = {st1}
    Callbacks = {c1}
    Requests = {r1, r2}
    NHooks = 1
    None = None
PROPERTY
    ReturnedMeansDrained
CHECK_DEADLOCK FALSE
