SPECIFICATION Spec
CONSTANTS
    Req = {r1, r2}
    User = {u1}
    Lang = {en}
    None = None
    MaxFacts = 1
    MaxRows = 1
    MaxGen = 2
CHECK_DEADLOCK FALSE
INVARIANT
    CacheEndsWithRegeneration
