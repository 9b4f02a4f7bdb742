---------------------------- MODULE MCOdooRestore ----------------------------
EXTENDS OdooRestore, TLC

\* Nothing distinguishes one restore from another: sound for the safety runs.
Symmetry == Permutations(Restores)
==============================================================================
