\* Three files in one form field, each with any outcome; any interleaving.
CONSTANTS
    f1 = f1  f2 = f2  f3 = f3
    Files <- MCFiles
    Order <- MCOrder
    Outcomes = {"ok", "toolarge", "mismatch", "storeerr", "panic"}
    Cap = 1
    FormParses = TRUE
SPECIFICATION Spec
INVARIANT ResponseMatchesOutcome
PROPERTY UploadCompletes
