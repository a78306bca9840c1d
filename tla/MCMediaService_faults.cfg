\* Concurrent Stores and Deletes with one I/O error at any repository call
\* and one crash of the service process.
CONSTANTS
    Procs = {p1, p2}
    m1 = m1  m2 = m2  m3 = m3  h1 = h1  h2 = h2  u1 = u1  u2 = u2
    Media <- MCMedia
    Hashes <- MCHashes
    Users <- MCUsers
    HashOf <- MCHashOf
    OwnerOf <- MCOwnerOf
    TooLarge = {m3}
    FailAt <- AllSteps
    Ops <- WriteOps
    MaxOps = 4
    MaxFailures = 1
    MaxCrashes = 1
    NoBlob = NoBlob
SPECIFICATION Spec
INVARIANT BackrefsHaveMeta
 
INVARIANT DeadlockFree
SYMMETRY SymProcs
