---------------------------- MODULE MCShareToken -----------------------------
EXTENDS ShareMigration, TLC

\* A token on its own, with all its calls; or one that an older vault moves to.
VARIABLE upgraded
MCInit == MigrationInit /\ upgraded \in BOOLEAN /\ (~upgraded => totalShares = 0)
MCNext == /\ \/ upgraded /\ MigrationNext
             \/ ~upgraded /\ Next /\ Unaided
          /\ UNCHANGED upgraded
MCSpec == MCInit /\ [][MCNext]_<<vars, migrationVars, upgraded>>

Symmetry == Permutations(Accounts \ (Spenders \cup {Strategy}))
=============================================================================
