----------------------------- MODULE MCKeyfile -----------------------------
EXTENDS KeyfileClaims, TLC

\* "padded" is a password with a space at an end.
MCTrimmed == [p \in Passwords |-> IF p = "padded" THEN "plain" ELSE p]

Symmetry == Permutations(Commands) \cup Permutations(Names)
=============================================================================
