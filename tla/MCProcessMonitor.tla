------------------------- MODULE MCProcessMonitor -------------------------
\* Model values for the pids.  No symmetry: the run checks liveness too.
EXTENDS ProcessMonitor

CONSTANTS p1, p2
=============================================================================
