\* Two files, valid or with mismatching magic bytes: once one is rejected the manager
\* returns early on the
\* cancelled ctx and closes errCh while the first worker still runs.
CONSTANTS
    f1 = f1  f2 = f2  f3 = f3
    Files <- MCFiles2
    Order <- MCOrder2
    Outcomes = {"ok", "mismatch"}
    Cap = 1
    FormParses = TRUE
SPECIFICATION Spec
INVARIANT NoUnrecoveredPanic
