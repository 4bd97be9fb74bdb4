------------------------------ MODULE Parcels ------------------------------
(***************************************************************************)
(* What `attach` promises: a file and the message that tells of it are     *)
(* posted in one step, so that no message tells of bytes that are not      *)
(* there; what is posted stays; and a file is taken only out of a message  *)
(* that the inbox shows, is opened under the name that the message gives   *)
(* and gets bytes, from the first on, of the content whose size and digest *)
(* it gives, which is what was posted with it if it is one of ours.  How   *)
(* many it gets, and over whose bytes, is left open: a write may break off *)
(* and two may write one file.  Slots, PUTs, commits, aborts and tickets   *)
(* are not seen here.  Attachment.tla is shown to implement this           *)
(* specification.                                                          *)
(***************************************************************************)
EXTENDS FileBytes

CONSTANTS
  Local,    \* the DIDs that files are posted for
  Msg,      \* message ids
  Manifest, \* what tells of a file: from, att, digest, size, name
  SizeOf,   \* SizeOf[c]: the number of bytes of c
  Name,     \* file names
  Limit,    \* how many messages the inbox shows
  Text,     \* a message without a file
  None      \* no value

VARIABLES
  sent,  \* sent[m]: the manifest posted under the id m, Text, or None
  inbox, \* the messages, oldest first
  held,  \* held[m]: the bytes posted with m, a message of ours, or None
  file   \* file[n]: the bytes of the file named n, or None

Init == /\ sent = [m \in Msg |-> None]
        /\ inbox = <<>>
        /\ held = [m \in Msg |-> None]
        /\ file = [n \in Name |-> None]

Tells(m) == sent[m] \notin {None, Text}
Ours(m) == Tells(m) /\ sent[m].from \in Local

\* Somebody else's message, true or not.
Foreign(w) == /\ w # Text => w.from \notin Local
              /\ UNCHANGED held

\* The file of one of ours is nobody else's.
Own(m, w) == /\ w # Text /\ w.from \in Local
             /\ w.size = SizeOf[w.digest]
             /\ \A k \in Msg : Tells(k) => sent[k].att # w.att
             /\ held' = [held EXCEPT ![m] = w.digest]

Post(m) == /\ sent[m] = None
           /\ inbox' = Append(inbox, m)
           /\ \E w \in Manifest \cup {Text} :
                /\ sent' = [sent EXCEPT ![m] = w]
                /\ Foreign(w) \/ Own(m, w)
           /\ UNCHANGED file

Put(m, f) == /\ Tells(m)
             /\ file' = [file EXCEPT ![sent[m].name] = f]
             /\ UNCHANGED <<sent, inbox, held>>

\* os.WriteFile truncates the file.
Open(m) == /\ \E i \in 1..Len(inbox) : i <= Limit /\ inbox[i] = m
           /\ Put(m, <<>>)

\* The first k bytes, over what is in the file by then.
Write(m, k) == /\ k <= sent[m].size
               /\ SizeOf[sent[m].digest] = sent[m].size
               /\ Ours(m) => sent[m].digest = held[m]
               /\ file[sent[m].name] # None
               /\ Put(m, Over(Bytes(sent[m].digest, k), file[sent[m].name]))

Next == \E m \in Msg :
          \/ Post(m) \/ Open(m)
          \/ Tells(m) /\ \E k \in 0..sent[m].size : Write(m, k)

Spec == Init /\ [][Next]_<<sent, inbox, held, file>>
=============================================================================
