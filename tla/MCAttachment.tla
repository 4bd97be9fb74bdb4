---------------------------- MODULE MCAttachment ----------------------------
EXTENDS Attachment, TLC
CONSTANTS c1, c2, c3, n1, n2
\* c1 and c2 have the same length; c2 and c3 the same name.
MCSizeOf == [c \in Content |-> IF c = c3 THEN 2 ELSE 1]
MCNameOf == [c \in Content |-> IF c = c1 THEN n1 ELSE n2]
\* Anything fails, or uploads do.
MCScenario == {Step \cup {"idle"}, {"put", "upload"}}
Symmetry == Permutations(Msg) \cup Permutations(Att) \cup Permutations(Proc)
=============================================================================
