\* Two resized downloads of one image miss the cache together.
CONSTANTS
    Procs = {p1, p2}
    p1 = p1  p2 = p2
    m1 = m1  m2 = m2  m3 = m3  h1 = h1
    Media <- MCMedia
    Hashes <- MCHashes
    HashOf <- MCHashOf
    HashName <- MCHashName
    Basedir <- MCBasedir
    FileExt <- MCFileExt
    BodyOf <- MCBodyOf
    MaxSize = 3
    Widths <- MCWidths
    MaxOps = 4
    MaxFaults = 1
SPECIFICATION Spec
INVARIANT NoTornRead
