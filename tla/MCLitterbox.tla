---------------------------- MODULE MCLitterbox ----------------------------
EXTENDS LitterboxClaims, TLC

Symmetry == Permutations(Sessions)

OneDaemon == Cardinality({d \in Sessions : dpc[d] # "none"}) <= 1

\* No update of the lockfile has been disturbed, or no two daemons raced.
OneKindOfRace == ~(disturbed /\ lockRaced)

\* Either no update of the lockfile has been disturbed, nor two daemons raced,
\* or there is only one daemon.
CalmOrOneDaemon == Calm \/ OneDaemon
============================================================================
