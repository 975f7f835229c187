---------------------------- MODULE MCTokenLedger ----------------------------
EXTENDS TokenLedger, TLC

Symmetry == Permutations(Calls)

=============================================================================
