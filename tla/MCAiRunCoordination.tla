------------------------ MODULE MCAiRunCoordination ------------------------
EXTENDS AiRunCoordination, TLC

Symmetry == Permutations(Runs) \cup Permutations(Probes) \cup Permutations(Models)

=============================================================================
