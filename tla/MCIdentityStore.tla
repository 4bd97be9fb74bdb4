-------------------------- MODULE MCIdentityStore --------------------------
EXTENDS IdentityStore, TLC
Symmetry == Permutations(Proc) \cup Permutations(Name) \cup Permutations(Gen)
=============================================================================
