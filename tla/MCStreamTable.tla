--------------------------- MODULE MCStreamTable ---------------------------
EXTENDS StreamTable, TLC

\* Streams are interchangeable on each side.
Symmetry == Permutations(Locals) \cup Permutations(Remotes)
=============================================================================
