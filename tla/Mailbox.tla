------------------------------ MODULE Mailbox ------------------------------
(***************************************************************************)
(* What sending and syncing promise about messages: an id stands for one   *)
(* message for good; the backend takes it once, and puts it once into the  *)
(* inboxes it is for, behind what is there; it is kept once, for good, by  *)
(* its sender or from the oldest of an inbox; and the contacts are those   *)
(* it was kept from.  Every one of these is one step, whichever calls      *)
(* fail, answers are lost or processes die.  Messaging.tla is shown to     *)
(* implement this specification.                                           *)
(***************************************************************************)
EXTENDS Naturals, Sequences

CONSTANTS
  Local,    \* identities that share a database
  Group,    \* groups, whose messages are for everybody
  Alias,    \* other names for an identity
  Bound,    \* Bound[h]: whose name h is
  Msg,      \* message ids
  Limit,    \* how many of an inbox can be found
  Envelope, \* messages: from, to, kind
  None      \* no value

VARIABLES
  sent,     \* sent[m]: the message taken under the id m, or None
  inbox,    \* inbox[a]: what there is for the identity a, oldest first
  row,      \* row[m]: the message m as the database keeps it, or None
  contact   \* whom messages were kept from

Init == /\ sent = [m \in Msg |-> None]
        /\ inbox = [a \in Local |-> <<>>]
        /\ row = [m \in Msg |-> None]
        /\ contact = {}

\* An inbox may show what is for others too.
Post(m, w) ==
  /\ sent[m] = None
  /\ sent' = [sent EXCEPT ![m] = w]
  /\ \E A \in SUBSET Local :
       /\ w.to \in Group => A = Local
       /\ w.to \in Local => w.to \in A
       /\ inbox' = [a \in Local |-> IF a \in A THEN Append(inbox[a], m) ELSE inbox[a]]
  /\ UNCHANGED <<row, contact>>

\* The names under which d may have been written to.
Names(d) == {d} \cup {h \in Alias : Bound[h] = d}

\* The sender's own copy.
Record(m) ==
  /\ sent[m] # None /\ sent[m].from \in Local
  /\ row[m] = None
  /\ \E name \in Names(sent[m].to) :
       row' = [row EXCEPT ![m] = [from |-> sent[m].from, to |-> name,
                                  dir |-> "out", read |-> TRUE]]
  /\ UNCHANGED <<sent, inbox, contact>>

\* What the identity a finds in its inbox, if it is somebody else's text.
Keep(m, a) ==
  /\ \E i \in 1..Len(inbox[a]) : i <= Limit /\ inbox[a][i] = m
  /\ sent[m].kind = "text" /\ sent[m].from # a
  /\ row[m] = None
  /\ row' = [row EXCEPT ![m] = [from |-> sent[m].from,
                                to |-> IF sent[m].to \in Group THEN sent[m].to ELSE a,
                                dir |-> "in", read |-> FALSE]]
  /\ UNCHANGED <<sent, inbox, contact>>

Meet(m) ==
  /\ row[m] # None
  /\ contact' = contact \cup {row[m].from}
  /\ UNCHANGED <<sent, inbox, row>>

Next ==
  \E m \in Msg :
    \/ \E w \in Envelope : Post(m, w)
    \/ Record(m)
    \/ \E a \in Local : Keep(m, a)
    \/ Meet(m)

Spec == Init /\ [][Next]_<<sent, inbox, row, contact>>
=============================================================================
