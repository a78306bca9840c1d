\* Two clients registering, logging in and using tokens (their own, each
\* other's, forged, expired) on two media of different owners.
CONSTANTS
    c1 = c1  c2 = c2  u1 = u1  u2 = u2  pw1 = pw1  pw2 = pw2  m1 = m1  m2 = m2
    NoName = NoName
    Clients <- MCClients
    Users <- MCUsers
    Passwords <- MCPasswords
    Media <- MCMedia
    OwnerOf <- MCOwnerOf
    IdBytes <- MCIdBytes
    TokenDuration = 1
    MaxTime = 2
    MaxOps = 4
    MaxFaults = 1
SPECIFICATION Spec
INVARIANT OnlyOwnerReachesMedia EncodeMatchesReference NormalizeRecoversId
SYMMETRY SymClients
