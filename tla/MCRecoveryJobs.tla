---------------------------- MODULE MCRecoveryJobs ----------------------------
EXTENDS RecoveryJobs, TLC
Symmetry == Permutations(Jobs) \cup Permutations(Uploads) \cup Permutations(Previews)
=============================================================================
