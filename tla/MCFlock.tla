------------------------------ MODULE MCFlock ------------------------------
EXTENDS Flock, TLC

\* Tasks are interchangeable goroutines.
SymTasks == Permutations(Tasks)
=============================================================================
