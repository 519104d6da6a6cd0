---------------------------- MODULE MCRouterApps ----------------------------
EXTENDS RouterApps, TLC

MCSymmetry == Permutations(Owners) \cup Permutations(Ctxs)
=============================================================================
