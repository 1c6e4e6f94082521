--------------------------- MODULE MCAdvisoryLock ---------------------------
EXTENDS AdvisoryLock, TLC

CONSTANTS p1, p2, p3

\* Processes are interchangeable; sound for the safety runs only.
Symmetry == Permutations(Procs)
=============================================================================
