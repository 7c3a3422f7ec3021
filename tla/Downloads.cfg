\* Two calls with two attempts each, a HEAD that is silent, right or short, a
\* removal of the cache, a process death.
SPECIFICATION FairSpec
CONSTANTS
    c1 = c1  c2 = c2
    Calls = {c1, c2}  NoCall = NoCall
    Len = 2  MaxLen = 3  MaxAttempts = 2  HeadLens = {1, 2}
    MaxRemovals = 1  MaxCrashes = 1
INVARIANTS TypeOK InstalledVerified BlameIsDeserved StopReachesAll
PROPERTIES CallsEnd KeepsPromise
CHECK_DEADLOCK FALSE
