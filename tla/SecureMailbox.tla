--------------------------- MODULE SecureMailbox ---------------------------
(***************************************************************************)
(* What secure messages promise, whichever processes send and receive at   *)
(* once, fail, die or are stopped: an envelope is accepted once, under an  *)
(* id of its own; it is opened once, by whom it is for; a session begins   *)
(* once, where its identity had none with the peer, and what is sent in it *)
(* is sent after the peer was heard in it; whoever opens what begins one   *)
(* acknowledges it at most once; and a text is recorded once, by its       *)
(* sender, or by its recipient after it was opened.  SecureMessaging.tla   *)
(* is shown to implement this specification.                               *)
(***************************************************************************)
EXTENDS Sequences

CONSTANTS
  Did,  \* identities, one workspace each
  Msg,  \* message ids
  Wire, \* envelopes: from, to, whether it begins a session, and which
  None  \* no value

VARIABLES
  sent,    \* sent[i]: the envelope accepted under the id i, or None
  queue,   \* the ids accepted, oldest first
  session, \* session[a]: the sessions of a: id, peer, whether the peer was heard
  opened,  \* opened[a]: the ids a has opened
  row      \* row[a][i]: what a has recorded: "in", "out" or "none"

Id == Msg \X {"text", "ack"}
Text(m) == <<m, "text">>
Ack(m) == <<m, "ack">>

Init == /\ sent = [i \in Id |-> None]
        /\ queue = <<>>
        /\ session = [a \in Did |-> {}]
        /\ opened = [a \in Did |-> {}]
        /\ row = [a \in Did |-> [i \in Id |-> "none"]]

Add(i, w) == /\ sent[i] = None
             /\ sent' = [sent EXCEPT ![i] = w]
             /\ queue' = Append(queue, i)

\* A session m that a may begin with b, and a's sessions then.
MayBegin(m, a, b) == /\ a # b
                     /\ sent[Text(m)] = None
                     /\ \A d \in Did : \A s \in session[d] : s.id # m
                     /\ \A s \in session[a] : s.peer # b
Begun(m, a, b) ==
  [session EXCEPT ![a] = @ \cup {[id |-> m, peer |-> b, open |-> FALSE]}]

\* The first text to a peer; the sender may forget the session.
PostFirst(m, w) ==
  /\ w.init /\ w.session = m
  /\ MayBegin(m, w.from, w.to)
  /\ Add(Text(m), w)
  /\ session' \in {session, Begun(m, w.from, w.to)}
  /\ UNCHANGED <<opened, row>>

\* A further one, in a session with a peer that was heard.
PostWithin(m, w) ==
  /\ ~w.init
  /\ [id |-> w.session, peer |-> w.to, open |-> TRUE] \in session[w.from]
  /\ Add(Text(m), w)
  /\ UNCHANGED <<session, opened, row>>

\* A session whose first text is lost.
BeginOnly(m, a, b) ==
  /\ MayBegin(m, a, b)
  /\ session' = Begun(m, a, b)
  /\ UNCHANGED <<sent, queue, opened, row>>

Take(i) ==
  LET w == sent[i] IN
  /\ w # None /\ i \notin opened[w.to]
  /\ w.init \/ \E s \in session[w.to] : s.peer = w.from /\ s.id = w.session
  /\ opened' = [opened EXCEPT ![w.to] = @ \cup {i}]
  /\ session' = [session EXCEPT ![w.to] =
       {s \in @ : s.peer # w.from \/ s.id # w.session}
         \cup {[id |-> w.session, peer |-> w.from, open |-> TRUE]}]
  /\ UNCHANGED <<sent, queue, row>>

Acknowledge(m) ==
  LET w == sent[Text(m)] IN
  /\ w # None /\ w.init
  /\ Text(m) \in opened[w.to]
  /\ \E s \in session[w.to] :
       /\ s.peer = w.from /\ s.open
       /\ Add(Ack(m), [from |-> w.to, to |-> w.from, init |-> FALSE, session |-> s.id])
  /\ UNCHANGED <<session, opened, row>>

Enter(a, m, what) ==
  /\ row[a][Text(m)] = "none"
  /\ row' = [row EXCEPT ![a][Text(m)] = what]
  /\ UNCHANGED <<sent, queue, session, opened>>

Record(m) == sent[Text(m)] # None /\ Enter(sent[Text(m)].from, m, "out")
Keep(m) == /\ sent[Text(m)] # None
           /\ Text(m) \in opened[sent[Text(m)].to]
           /\ Enter(sent[Text(m)].to, m, "in")

Next == \/ \E m \in Msg :
             \/ \E w \in Wire : PostFirst(m, w) \/ PostWithin(m, w)
             \/ \E a, b \in Did : BeginOnly(m, a, b)
             \/ Acknowledge(m) \/ Record(m) \/ Keep(m)
        \/ \E i \in Id : Take(i)

Spec == Init /\ [][Next]_<<sent, queue, session, opened, row>>
=============================================================================
