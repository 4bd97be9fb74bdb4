---------------------------- MODULE MCWorkspace ----------------------------
EXTENDS Workspace, TLC
CONSTANTS other, n1
\* The one name given that sanitizeName rewrites becomes n1.
MCRewritten == [a \in OtherName |-> n1]
ProcSymmetry == Permutations(Proc)
=============================================================================
