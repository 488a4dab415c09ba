------------------------- MODULE MCMembershipCache -------------------------
EXTENDS MembershipCache, TLC

CONSTANTS l1, l2, c1, c2

MCLookups == {l1, l2}
MCChanges == {c1, c2}
Symmetry == Permutations(MCLookups) \cup Permutations(MCChanges)
=============================================================================
