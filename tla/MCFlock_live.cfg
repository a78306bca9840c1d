\* Three goroutines locking one blob id, two cycles each, one flock error.
CONSTANTS
    Tasks = {t1, t2, t3}
    MaxCycles = 2
    MaxFlockErrors = 1
SPECIFICATION Spec
INVARIANT NoStaleLockFile
PROPERTY LockReturns
