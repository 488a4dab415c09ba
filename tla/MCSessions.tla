---------------------------- MODULE MCSessions ----------------------------
EXTENDS Sessions, TLC

CONSTANTS b1, b2, c1, c2

MCBrowsers == {b1, b2}
MCCalls == {c1, c2}
Symmetry == Permutations(MCBrowsers) \cup Permutations(MCCalls)
=============================================================================
