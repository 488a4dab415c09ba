---------------------------- MODULE MCDocuments ----------------------------
EXTENDS Documents

CONSTANTS c1, c2

MCUploaders == {c1, c2}
=============================================================================
