---------------------------- MODULE MCConnWorker ----------------------------
\* The symmetry of the workers, for the runs that check invariants only.
EXTENDS ConnWorker

Symmetry == Permutations(Workers)
==============================================================================
