------------------------- MODULE IdentityRegistry -------------------------
(***************************************************************************)
(* What the identity store promises to the commands that use it: a map     *)
(* from a local name to at most one identity, and the name of the default  *)
(* identity.  Every operation is one atomic step, whatever processes,      *)
(* locks, temporary files and crashes the implementation goes through.     *)
(* IdentityStore.tla is shown to implement this specification.             *)
(***************************************************************************)
CONSTANTS
  Name,    \* local identity names, as sanitizeName returns them
  Gen,     \* generated identities: one DID and its key material
  Handle,  \* WNS handles
  Email,   \* local contact metadata
  Phone,
  None     \* the empty string, a missing file, no value

VARIABLES
  entry,   \* entry[n]: the identity called n, or None
  current  \* the default identity's name, or None

Identity == [did : Gen, handle : Handle \cup {None},
             email : Email \cup {None}, phone : Phone \cup {None}]

Init == /\ entry = [n \in Name |-> None]
        /\ current = None

\* A new identity never replaces one, and the first becomes the default.
Create(n, g) ==
  /\ entry[n] = None
  /\ entry' = [entry EXCEPT ![n] = [did |-> g, handle |-> None,
                                    email |-> None, phone |-> None]]
  /\ current' = IF current = None THEN n ELSE current

Select(n) ==
  /\ entry[n] # None
  /\ current' = n
  /\ UNCHANGED entry

BindHandle(n, h) ==
  /\ entry[n] # None
  /\ entry' = [entry EXCEPT ![n] = [@ EXCEPT !.handle = h]]
  /\ UNCHANGED current

\* An empty e-mail address or telephone number leaves the recorded one.
Described(i, e, f) == [did |-> i.did, handle |-> i.handle,
                       email |-> IF e = None THEN i.email ELSE e,
                       phone |-> IF f = None THEN i.phone ELSE f]

SetContact(n, e, f) ==
  /\ entry[n] # None
  /\ entry' = [entry EXCEPT ![n] = Described(@, e, f)]
  /\ UNCHANGED current

Next ==
  \E n \in Name :
    \/ \E g \in Gen : Create(n, g)
    \/ Select(n)
    \/ \E h \in Handle : BindHandle(n, h)
    \/ \E e \in Email \cup {None}, f \in Phone \cup {None} : SetContact(n, e, f)

Spec == Init /\ [][Next]_<<entry, current>>
=============================================================================
