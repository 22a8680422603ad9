----------------------------- MODULE MCLifecycle -----------------------------
EXTENDS LifecycleClaims, TLC

Symmetry == Permutations(Commands)

Serial == ~overlapped
=============================================================================
