----------------------------- MODULE FileBytes -----------------------------
(***************************************************************************)
(* The bytes of a file that write(2) has put there: byte i of a content c  *)
(* is written c at place i.                                                *)
(***************************************************************************)
EXTENDS Naturals, Sequences

\* The first k bytes of c.
Bytes(c, k) == [i \in 1..k |-> c]

\* The bytes `new`, written from the beginning of a file that holds `old`.
Over(new, old) == new \o SubSeq(old, Len(new) + 1, Len(old))
=============================================================================
