------------------------ MODULE MCReleaseCoordinator ------------------------
EXTENDS ReleaseCoordinator, TLC

\* The runs differ in nothing but their names; for safety only.
Alike == Permutations(Runs)
=============================================================================
