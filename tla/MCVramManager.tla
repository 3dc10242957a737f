---------------------------- MODULE MCVramManager ----------------------------
\* Small instances of VramManager: the registry may override a size with one
\* that is over the budget, and m3 may be known only to the registry.
EXTENDS VramManager, TLC

CONSTANTS m1, m2, m3, r1, r2, r3

MCCanonicalMb == m1 :> 2 @@ m2 :> 1
MCAllMb == m1 :> 2 @@ m2 :> 1 @@ m3 :> 1
MCSymmetry == Permutations(Requests)
=============================================================================
