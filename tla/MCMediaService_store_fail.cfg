\* One I/O error, only at the repository call(s) in FailAt.
CONSTANTS
    Procs = {p1, p2}
    m1 = m1  m2 = m2  m3 = m3  h1 = h1  h2 = h2  u1 = u1  u2 = u2
    Media <- MCMedia
    Hashes <- MCHashes
    Users <- MCUsers
    HashOf <- MCHashOf
    OwnerOf <- MCOwnerOf
    TooLarge = {}
    FailAt = {"st_backref"}
    MaxOps = 4
    MaxFailures = 1
    MaxCrashes = 0
    NoBlob = NoBlob
SPECIFICATION Spec
PROPERTY PruneOnlyUnreferenced
