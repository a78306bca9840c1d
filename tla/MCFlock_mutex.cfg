\* A holder, a waiter on its inode and a newcomer: the release unlinks the
\* lock file before it closes the fd.
CONSTANTS
    Tasks = {t1, t2, t3}
    MaxCycles = 1
    MaxFlockErrors = 0
SPECIFICATION Spec
PROPERTY ImplementsBlobLock
