\* Two callers who may truncate a memory flow, one of whom may seal it.
CONSTANTS
    t1 = t1
    t2 = t2
    w1 = w1
    c1 = c1
    c2 = c2
    c3 = c3
    Threads = {t1, t2}
    Truncators = {t1, t2}
    Sealers = {t1}
    Workers = {w1}
    ChunkIds = {c1, c2, c3}
    ChunkSize = 2
    PreLoadSize = 0
    MaxOffset = 3
    MaxLen = 3
    SubmitMayFail = TRUE
    Crashes = 0
SYMMETRY ChunkSymmetry
SPECIFICATION MCSpec
INVARIANTS
    WindowMatchesMedia
    OneOwner
    OnePreload
    UsedSizeExact
PROPERTIES
    AddressesCorrect
    OnlyTruncationFailsBuild
    RecoverUnlessOvertaken
CHECK_DEADLOCK FALSE
