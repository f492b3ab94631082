--------------------------- MODULE MCManualList ---------------------------
EXTENDS ManualList, TLC

Interchangeable == Permutations(Reqs) \cup Permutations(Keys) \cup Permutations(Entries)
============================================================================
