------------------------------ MODULE Backend ------------------------------
(***************************************************************************)
(* What every signed JSON-RPC call meets at the backend that               *)
(* internal/testutil/mockbackend stands for.                               *)
(***************************************************************************)
EXTENDS Naturals, Sequences

\* verifySignature accepts everybody while no document is registered.
Accepts(known, a) == known = {} \/ a \in known

\* msg.inbox returns the first `limit` messages and consumes none.
Oldest(s, limit) == SubSeq(s, 1, IF Len(s) < limit THEN Len(s) ELSE limit)
=============================================================================
