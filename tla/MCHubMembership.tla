--------------------------- MODULE MCHubMembership ---------------------------
\* Small instances of HubMembership.
EXTENDS HubMembership, TLC

CONSTANTS u1, u2, u3, r1, r2

MCSymmetry == Permutations(Requests)
=============================================================================
