------------------------ MODULE MCHazardPointerStack ------------------------
\* TLC's instance of the hazard-pointer stack.
EXTENDS HazardPointerStackRefinement, TLC

\* Nodes and poppers are interchangeable in the safety and slots runs.
Symmetry == Permutations(Nodes) \cup Permutations(Poppers)
=============================================================================
