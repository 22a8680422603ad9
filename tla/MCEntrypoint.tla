---------------------------- MODULE MCEntrypoint ----------------------------
EXTENDS EntrypointClaims, TLC

Symmetry == Permutations(Sessions) \cup Permutations(Jobs)

=============================================================================
