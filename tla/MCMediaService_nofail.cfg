\* Concurrent requests, no I/O errors, no crashes.
CONSTANTS
    Procs = {p1, p2}
    m1 = m1  m2 = m2  m3 = m3  h1 = h1  h2 = h2  u1 = u1  u2 = u2
    Media <- MCMedia
    Hashes <- MCHashes
    Users <- MCUsers
    HashOf <- MCHashOf
    OwnerOf <- MCOwnerOf
    TooLarge = {}
    FailAt = {}
    MaxOps = 4
    MaxFailures = 0
    MaxCrashes = 0
    NoBlob = NoBlob
SPECIFICATION Spec
INVARIANT TypeOK
INVARIANT RefIntegrity
INVARIANT DeadlockFree
PROPERTY PruneOnlyUnreferenced
PROPERTY NotFoundOnlyIfAbsent
SYMMETRY SymProcs
