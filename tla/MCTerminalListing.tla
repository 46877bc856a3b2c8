------------------------- MODULE MCTerminalListing --------------------------
EXTENDS TerminalListing, TLC

Symmetric == Permutations(Callers) \cup Permutations(SessionIds)
=============================================================================
