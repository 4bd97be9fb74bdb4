----------------------- MODULE SecureMessagingProofs -----------------------
(***************************************************************************)
(* Proofs about SecureMessaging: what has been opened is stored and        *)
(* answered, and what the backend has accepted can be read.                *)
(*                                                                         *)
(* The invariant comes in layers. IInv says what is in memory, whose each  *)
(* message id and session is, what the envelopes are, and that an init is  *)
(* acknowledged by one process only. Owned says that a session which is    *)
(* still pending was begun here. CalmInv adds, for workspaces whose        *)
(* database can be written and that run no service, that a text which has  *)
(* been opened is stored or at hand in some process. SessionsInv adds, as  *)
(* long as no encrypted send loses its answer, that both ends of a session *)
(* have it, and BoxInv what SecureMailbox needs beyond these.              *)
(***************************************************************************)
EXTENDS SecureMessaging, SequenceTheorems, TLAPS

Accepteds == {i \in Id : wire[i] # None}

\* Whether a has a session with peer under that id.
Has(a, peer, id) == \E s \in session[a] : s.peer = peer /\ s.id = id

(* What a process has in memory, at each place. *)
PhaseAt(p) ==
  LET c == call[p] IN
  /\ pc[p] = "idle" => c = NoCall
  /\ pc[p] \in {"register", "publish"} => c.op \in {"init", "send"}
  /\ pc[p] \in {"encrypt", "store"} => c.op = "send"
  /\ pc[p] \in {"fetch", "rows", "ack", "row", "wait"} => c.op = "sync"
  /\ pc[p] = "wait" => p \in Listener
  /\ p \in Listener => c.op \in {"none", "sync"}
  /\ c.op # "none" => c.me \in Did
  /\ pc[p] \in {"publish", "encrypt", "store"} => c.me \in known
  /\ pc[p] \in {"ack", "row"} => batch[p] # <<>> /\ AtHand(p) \in opened[c.me]
  /\ pc[p] = "ack" => wire[AtHand(p)].init
Phases == \A p \in Proc : PhaseAt(p)

(* A message id belongs to one command, and to no envelope before that has  *)
(* encrypted it.                                                            *)
IdAt(p) ==
  LET c == call[p] IN
  /\ c.op = "send" => /\ c.to \in Did \ {c.me} /\ c.id \in drawn
                      /\ \A q \in Proc \ {p} : call[q].id # c.id
  /\ c.op # "send" => c.id = None
  /\ c.op = "send" /\ pc[p] # "store" => wire[Text(c.id)] = None
  /\ pc[p] = "store" => wire[Text(c.id)] # None /\ wire[Text(c.id)].from = c.me
Ids ==
  /\ \A m \in Msg : wire[Text(m)] # None => m \in drawn
  /\ \A p \in Proc : IdAt(p)

(* What the envelopes are, and what a database says of them. *)
Answer(m, s) == [from |-> wire[Text(m)].to, to |-> wire[Text(m)].from, init |-> FALSE,
                 session |-> s]
Envelopes ==
  /\ \A i \in Accepteds : wire[i].from # wire[i].to
  /\ \A m \in Msg : wire[Text(m)] # None /\ wire[Text(m)].init => wire[Text(m)].session = m
  /\ \A m \in Msg : wire[Ack(m)] # None =>
       /\ wire[Text(m)] # None /\ wire[Text(m)].init
       /\ \E s \in Msg : wire[Ack(m)] = Answer(m, s)
  /\ \A a \in Did : \A i \in opened[a] : wire[i] # None /\ wire[i].to = a
  /\ \A a \in Did, m \in Msg : row[a][Text(m)] = "out" =>
       wire[Text(m)] # None /\ wire[Text(m)].from = a

(* Whoever is about to acknowledge an init is the only one, and the first.  *)
AckAhead ==
  /\ \A p \in Proc, m \in Msg : pc[p] = "ack" /\ AtHand(p) = Text(m) => wire[Ack(m)] = None
  /\ \A p, q \in Proc : pc[p] = "ack" /\ pc[q] = "ack" /\ AtHand(p) = AtHand(q) => p = q
  /\ \A m \in Msg : wire[Ack(m)] # None => Text(m) \in opened[wire[Text(m)].to]

(* A session's id is that of no send which is still to be encrypted. *)
SessionIds ==
  \A a \in Did : \A s \in session[a] :
    /\ s.id \in drawn
    /\ \A p \in Proc : call[p].op = "send" /\ pc[p] # "store" => call[p].id # s.id

IInv == TypeOK /\ Phases /\ Ids /\ Envelopes /\ AckAhead /\ SessionIds

(* A message's text and its acknowledgement have ids of their own.       *)
LEMMA IdFacts ==
  /\ \A m \in Msg : Text(m) \in Id /\ Ack(m) \in Id /\ Text(m)[2] = "text"
  /\ \A m, n \in Msg : Text(m) # Ack(n)
  /\ \A m, n \in Msg : Text(m) = Text(n) => m = n
  /\ \A m, n \in Msg : Ack(m) = Ack(n) => m = n
  /\ \A i \in Id : i[2] # "ack" => \E m \in Msg : i = Text(m)
  /\ \A i \in Id : \E m \in Msg : i = Text(m) \/ i = Ack(m)
BY DEF Id, Text, Ack

(* A process that runs no command holds a call like any other.           *)
LEMMA NoCallType == NoCall \in Call
BY DEF NoCall, Call

(* What a sync is shown of a sequence is of the same kind.               *)
LEMMA ShownType ==
  ASSUME NEW S, NEW s \in Seq(S)
  PROVE  Oldest(s, Limit) \in Seq(S)
<1> DEFINE l == IF Len(s) < Limit THEN Len(s) ELSE Limit
<1>1. Len(s) \in Nat /\ Limit \in Nat
  BY SecureAssumption, LenProperties
<1>2. l \in 0..Len(s) /\ \A i \in 1..l : s[i] \in S
  BY <1>1, ElementOfSeq
<1>3. SubSeq(s, 1, l) \in Seq(S)
  BY <1>1, <1>2, SubSeqProperties
<1> QED
  BY <1>3 DEF Oldest

(* Sequences over few ids are sequences over more: what a sync has       *)
(* fetched stays accepted.                                               *)
LEMMA StillShown ==
  ASSUME NEW A, NEW T, A \subseteq T
  PROVE  \A S : \A f \in [S -> Seq(A)] : f \in [S -> Seq(T)]
<1>1. \A s \in Seq(A) : s \in Seq(T)
  BY SeqMonotonic
<1> QED
  BY <1>1

(* The backend adds an envelope to what it shows and changes nothing     *)
(* else (mock.go 266-293).                                               *)
LEMMA AcceptedEffect ==
  ASSUME TypeOK, NEW i \in Id, NEW w \in Wire, Accepted(i, w)
  PROVE  /\ wire' \in [Id -> Wire \cup {None}]
         /\ wire'[i] = w /\ w # None
         /\ \A k \in Id : k # i => wire'[k] = wire[k]
         /\ Accepteds \subseteq Accepteds'
         /\ inbox' \in Seq(Accepteds')
<1>1. /\ wire' \in [Id -> Wire \cup {None}] /\ wire'[i] = w /\ w # None
      /\ \A k \in Id : k # i => wire'[k] = wire[k]
  BY NoneIsNoWire DEF TypeOK, Accepted
<1>2. Accepteds \subseteq Accepteds' /\ i \in Accepteds'
  BY <1>1 DEF Accepteds
<1>3. inbox \in Seq(Accepteds')
  BY <1>2, SeqMonotonic DEF TypeOK, Accepteds
<1>4. inbox' \in Seq(Accepteds')
  BY <1>2, <1>3, AppendProperties DEF Accepted
<1> QED
  BY <1>1, <1>2, <1>4

ProcStep(p) ==
  \/ StartInit(p) \/ StartSend(p) \/ StartSync(p)
  \/ Register(p) \/ Publish(p) \/ EncryptInit(p) \/ EncryptCipher(p)
  \/ RefusedEncrypt(p) \/ StoreSent(p)
  \/ Fetch(p) \/ RefusedFetch(p) \/ Open(p) \/ SkipRow(p) \/ SendAck(p)
  \/ RefusedAck(p) \/ StoreRow(p) \/ EndSync(p)
  \/ Fail(p) \/ FailEncrypt(p) \/ FailOpen(p) \/ FailAck(p) \/ FailRow(p) \/ Crash(p)
  \/ p \in Listener /\ (\/ Launch(p) \/ Tick(p) \/ Stop(p) \/ LoopEnds(p)
                        \/ CloseDB(p) \/ Exit(p))

(* A step is that of one process.                                        *)
LEMMA NextCases ==
  ASSUME Next
  PROVE  \E p \in Proc : ProcStep(p)
BY SecureAssumption DEF Next, Start, Proceed, Break, Control, ProcStep

(* A scenario is chosen once.                                            *)
LEMMA ScenarioStays ==
  ASSUME NEW p, ProcStep(p)
  PROVE  may' = may
<1>1. CASE StartInit(p) \/ StartSend(p) \/ StartSync(p)
  BY <1>1 DEF StartInit, StartSend, StartSync, Begin
<1>2. CASE \/ Register(p) \/ Publish(p) \/ EncryptInit(p) \/ EncryptCipher(p)
           \/ RefusedEncrypt(p) \/ StoreSent(p)
  BY <1>2 DEF Register, Publish, EncryptInit, EncryptCipher, EncryptWithin, RefusedEncrypt,
     StoreSent
<1>3. CASE \/ Fetch(p) \/ RefusedFetch(p) \/ Open(p) \/ SkipRow(p) \/ SendAck(p)
           \/ RefusedAck(p) \/ StoreRow(p) \/ EndSync(p)
  BY <1>3 DEF Fetch, RefusedFetch, Open, OpenThen, SkipRow, PassOver, SendAck, RefusedAck,
     StoreRow, EndSync
<1>4. CASE \/ Fail(p) \/ FailEncrypt(p) \/ FailOpen(p) \/ FailAck(p) \/ FailRow(p) \/ Crash(p)
  BY <1>4 DEF Fail, CallFails, FailEncrypt, FailOpen, FailAck, FailRow, Crash
<1>5. CASE \/ Launch(p) \/ Tick(p) \/ Stop(p) \/ LoopEnds(p) \/ CloseDB(p) \/ Exit(p)
  BY <1>5 DEF Launch, Tick, Stop, LoopEnds, LoopEndsAt, CloseDB, Exit
<1> QED
  BY <1>1, <1>2, <1>3, <1>4, <1>5 DEF ProcStep

(* A process's memory, and the life of a receiver, are its own.          *)
LEMMA OthersKeep ==
  ASSUME TypeOK, NEW p \in Proc, ProcStep(p), NEW q \in Proc, q # p
  PROVE  /\ pc'[q] = pc[q] /\ call'[q] = call[q] /\ batch'[q] = batch[q]
         /\ svc'[q] = svc[q]
         /\ q \in Listener => life'[q] = life[q]
<1> USE DEF TypeOK, Goto, Return, Gone
<1>1. CASE StartInit(p) \/ StartSend(p) \/ StartSync(p)
  BY <1>1 DEF StartInit, StartSend, StartSync, Begin
<1>2. CASE \/ Register(p) \/ Publish(p) \/ EncryptInit(p) \/ EncryptCipher(p)
           \/ RefusedEncrypt(p) \/ StoreSent(p)
  BY <1>2 DEF Register, Publish, EncryptInit, EncryptCipher, EncryptWithin, RefusedEncrypt,
     StoreSent
<1>3. CASE \/ Fetch(p) \/ RefusedFetch(p) \/ Open(p) \/ SkipRow(p) \/ SendAck(p)
           \/ RefusedAck(p) \/ StoreRow(p) \/ EndSync(p)
  BY <1>3 DEF Fetch, RefusedFetch, Open, OpenThen, SkipRow, PassOver, SendAck, RefusedAck,
     StoreRow, EndSync
<1>4. CASE \/ Fail(p) \/ FailEncrypt(p) \/ FailOpen(p) \/ FailAck(p) \/ FailRow(p) \/ Crash(p)
  BY <1>4 DEF Fail, CallFails, FailEncrypt, FailOpen, FailAck, FailRow, Crash
<1>5. CASE p \in Listener /\ (\/ Launch(p) \/ Tick(p) \/ Stop(p) \/ LoopEnds(p)
                              \/ CloseDB(p) \/ Exit(p))
  BY <1>5 DEF Launch, Tick, Stop, LoopEnds, LoopEndsAt, CloseDB, Exit
<1> QED
  BY <1>1, <1>2, <1>3, <1>4, <1>5 DEF ProcStep

(* The process's own memory is well-formed, whatever it returns from. *)
LEMMA ReturnType ==
  ASSUME TypeOK, NEW p \in Proc, Return(p) \/ Gone(p)
  PROVE  /\ pc' \in [Proc -> Step \cup {"idle", "wait"}]
         /\ call' \in [Proc -> Call]
         /\ batch' \in [Proc -> Seq(Accepteds)]
         /\ svc' \in [Proc -> {"unset", "ready", "failed"}]
<1> USE DEF TypeOK, Accepteds
<1>1. CASE Gone(p)
  BY <1>1, NoCallType, EmptySeq DEF Gone
<1>2. CASE p \in Listener /\ Return(p)
  <2>1. /\ pc' = [pc EXCEPT ![p] = "wait"]
        /\ batch' = [batch EXCEPT ![p] = <<>>]
        /\ UNCHANGED <<call, svc>>
    BY <1>2 DEF Return
  <2>2. <<>> \in Seq(Accepteds)
    BY EmptySeq
  <2> QED
    BY <2>1, <2>2
<1> QED
  BY <1>1, <1>2 DEF Return

\* p answers the init m in an open session with the sender.
AcksIn(p, m) ==
  /\ AtHand(p) = Text(m)
  /\ \E s \in Usable(call[p].me, wire[Text(m)].from) :
       s.open /\ Accepted(Ack(m), Answer(m, s.id)) /\ Answer(m, s.id) \in Wire

\* An acknowledgement answers the init at hand.
LEMMA AckDelivers ==
  ASSUME IInv, NEW p \in Proc, SendAck(p)
  PROVE  pc[p] = "ack" /\ SendAck(p) /\ \E m \in Msg : AcksIn(p, m)
<1>0. TypeOK /\ PhaseAt(p) /\ Envelopes
  BY DEF IInv, Phases
<1>1. pc[p] = "ack"
  BY DEF SendAck, Goto
<1>2. /\ AtHand(p) \in opened[call[p].me] /\ wire[AtHand(p)].init /\ call[p].me \in Did
  BY <1>0, <1>1 DEF PhaseAt
<1>3. /\ AtHand(p) \in Id /\ wire[AtHand(p)] # None /\ wire[AtHand(p)].to = call[p].me
  BY <1>0, <1>2 DEF Envelopes, TypeOK
<1>4. \A m \in Msg : AtHand(p) # Ack(m)
  <2>1. ASSUME NEW m \in Msg, AtHand(p) = Ack(m) PROVE FALSE
    <3>1. PICK s \in Msg : wire[AtHand(p)] = Answer(m, s)
      BY <1>0, <1>3, <2>1 DEF Envelopes
    <3>2. ~Answer(m, s).init
      BY DEF Answer
    <3> QED
      BY <1>2, <3>1, <3>2
  <2> QED
    BY <2>1
<1>5. PICK m \in Msg : AtHand(p) = Text(m)
  BY <1>3, <1>4, IdFacts
<1>6. wire[AtHand(p)].session = m
  BY <1>0, <1>2, <1>3, <1>5 DEF Envelopes
<1>7. PICK s \in Usable(call[p].me, wire[Text(m)].from) :
        s.open /\ Accepted(Ack(m), Answer(m, s.id))
  <2>1. PICK s \in Usable(call[p].me, wire[AtHand(p)].from) :
          /\ s.open
          /\ Accepted(Ack(wire[AtHand(p)].session),
                      [from |-> call[p].me, to |-> wire[AtHand(p)].from,
                       init |-> FALSE, session |-> s.id])
    BY DEF SendAck
  <2> QED
    BY <1>3, <1>5, <1>6, <2>1 DEF Answer
<1>8. wire[Text(m)] \in Wire /\ s.id \in Msg
  BY <1>0, <1>2, <1>3, <1>5, <1>7 DEF TypeOK, Usable
<1>9. Answer(m, s.id) \in Wire
  BY <1>8 DEF Answer, Wire
<1> QED
  BY <1>1, <1>5, <1>7, <1>9 DEF AcksIn

(* An envelope is accepted from a sender at "encrypt" or from whoever       *)
(* answers an init; what else a step does, it does not reach the backend.   *)
LEMMA Deliveries ==
  ASSUME IInv, NEW p \in Proc, ProcStep(p)
  PROVE  \/ UNCHANGED <<wire, inbox>>
         \/ /\ pc[p] = "encrypt"
            /\ \E w \in Wire :
                 /\ Accepted(Text(call[p].id), w)
                 /\ w.from = call[p].me /\ w.to = call[p].to
                 /\ \/ /\ EncryptInit(p) \/ FailEncrypt(p)
                       /\ w.init /\ w.session = call[p].id
                    \/ /\ EncryptCipher(p)
                       /\ ~w.init
                       /\ \E s \in Usable(call[p].me, call[p].to) : s.open /\ s.id = w.session
         \/ /\ pc[p] = "ack" /\ SendAck(p)
            /\ \E m \in Msg : AcksIn(p, m)
<1>0. TypeOK /\ PhaseAt(p) /\ IdAt(p) /\ Envelopes
  BY DEF IInv, Phases, Ids
<1>1. CASE \/ StartInit(p) \/ StartSend(p) \/ StartSync(p)
           \/ Register(p) \/ Publish(p) \/ RefusedEncrypt(p) \/ StoreSent(p)
  BY <1>1 DEF StartInit, StartSend, StartSync, Begin, Register, Publish, RefusedEncrypt,
     StoreSent, backend
<1>2. CASE \/ Fetch(p) \/ RefusedFetch(p) \/ Open(p) \/ SkipRow(p) \/ RefusedAck(p)
           \/ StoreRow(p) \/ EndSync(p)
  BY <1>2 DEF Fetch, RefusedFetch, Open, OpenThen, SkipRow, PassOver, RefusedAck, StoreRow,
     EndSync, backend
<1>3. CASE Fail(p) \/ FailOpen(p) \/ FailAck(p) \/ FailRow(p) \/ Crash(p)
  BY <1>3 DEF Fail, CallFails, FailOpen, FailAck, FailRow, Crash, backend
<1>4. CASE \/ Launch(p) \/ Tick(p) \/ Stop(p) \/ LoopEnds(p) \/ CloseDB(p) \/ Exit(p)
  BY <1>4 DEF Launch, Tick, Stop, LoopEnds, LoopEndsAt, CloseDB, Exit, backend
<1>a. pc[p] = "encrypt" =>
        /\ call[p].me \in Did /\ call[p].to \in Did /\ call[p].id \in Msg
        /\ Usable(call[p].me, call[p].to) \subseteq [id : Msg, peer : Did, open : BOOLEAN]
  BY <1>0 DEF PhaseAt, IdAt, TypeOK, Usable
<1>5. CASE EncryptInit(p) \/ FailEncrypt(p)
  <2>1. pc[p] = "encrypt" /\ (Accepted(Text(call[p].id), InitWire(p)) \/ UNCHANGED <<wire, inbox>>)
    BY <1>5 DEF EncryptInit, FailEncrypt, Goto
  <2>2. /\ InitWire(p) \in Wire /\ InitWire(p).from = call[p].me /\ InitWire(p).to = call[p].to
        /\ InitWire(p).init /\ InitWire(p).session = call[p].id
    BY <1>a, <2>1 DEF InitWire, Wire
  <2> QED
    BY <1>5, <2>1, <2>2
<1>6. CASE EncryptCipher(p)
  <2>1. pc[p] = "encrypt"
    BY <1>6 DEF EncryptCipher, EncryptWithin, Goto
  <2>2. PICK s \in Usable(call[p].me, call[p].to) :
          /\ s.open
          /\ Accepted(Text(call[p].id), [from |-> call[p].me, to |-> call[p].to,
                                         init |-> FALSE, session |-> s.id])
    BY <1>6 DEF EncryptCipher, EncryptWithin
  <2> DEFINE w == [from |-> call[p].me, to |-> call[p].to, init |-> FALSE, session |-> s.id]
  <2>3. w \in Wire /\ w.from = call[p].me /\ w.to = call[p].to /\ ~w.init /\ w.session = s.id
    BY <1>a, <2>1 DEF Wire
  <2>4. Accepted(Text(call[p].id), w)
    BY <2>2
  <2> HIDE DEF w
  <2> QED
    BY <1>6, <2>1, <2>2, <2>3, <2>4
<1>7. CASE SendAck(p)
  BY <1>7, AckDelivers
<1> QED
  BY <1>1, <1>2, <1>3, <1>4, <1>5, <1>6, <1>7 DEF ProcStep

(* The backend's envelopes stay as they are. *)
LEMMA WireStep ==
  ASSUME IInv, NEW p \in Proc, ProcStep(p)
  PROVE  /\ wire' \in [Id -> Wire \cup {None}]
         /\ \A i \in Id : wire[i] # None => wire'[i] = wire[i]
         /\ \A i \in Id : wire'[i] # wire[i] =>
              \/ i = Text(call[p].id) /\ pc[p] = "encrypt"
              \/ \E m \in Msg : i = Ack(m) /\ pc[p] = "ack"
         /\ Accepteds \subseteq Accepteds'
         /\ inbox' \in Seq(Accepteds')
<1>0. TypeOK /\ PhaseAt(p) /\ IdAt(p) /\ Envelopes
  BY DEF IInv, Phases, Ids
<1>1. CASE UNCHANGED <<wire, inbox>>
  BY <1>0, <1>1 DEF TypeOK, Accepteds
<1>2. ASSUME pc[p] = "encrypt", NEW w \in Wire, Accepted(Text(call[p].id), w)
      PROVE  /\ wire' \in [Id -> Wire \cup {None}]
             /\ \A i \in Id : wire[i] # None => wire'[i] = wire[i]
             /\ \A i \in Id : wire'[i] # wire[i] => i = Text(call[p].id)
             /\ Accepteds \subseteq Accepteds'
             /\ inbox' \in Seq(Accepteds')
  <2>1. Text(call[p].id) \in Id /\ wire[Text(call[p].id)] = None
    BY <1>0, <1>2, IdFacts DEF PhaseAt, IdAt, TypeOK
  <2> QED
    BY <1>0, <1>2, <2>1, AcceptedEffect
<1>3. ASSUME NEW m \in Msg, pc[p] = "ack", AcksIn(p, m)
      PROVE  /\ wire' \in [Id -> Wire \cup {None}]
             /\ \A i \in Id : wire[i] # None => wire'[i] = wire[i]
             /\ \A i \in Id : wire'[i] # wire[i] => i = Ack(m)
             /\ Accepteds \subseteq Accepteds'
             /\ inbox' \in Seq(Accepteds')
  <2>1. PICK w \in Wire : Accepted(Ack(m), w)
    BY <1>3 DEF AcksIn
  <2>2. Ack(m) \in Id /\ wire[Ack(m)] = None
    BY <1>3, IdFacts DEF IInv, AckAhead, AcksIn
  <2> QED
    BY <1>0, <2>1, <2>2, AcceptedEffect
<1> QED
  BY <1>1, <1>2, <1>3, Deliveries

MemoryOK(shown) ==
  /\ pc' \in [Proc -> Step \cup {"idle", "wait"}]
  /\ call' \in [Proc -> Call]
  /\ batch' \in [Proc -> Seq(shown)]
  /\ svc' \in [Proc -> {"unset", "ready", "failed"}]
  /\ life' \in [Listener -> {"off", "running", "stopping", "closed"}]
  /\ faults' \in 0..MaxFaults
  /\ drawn' \subseteq Msg

(* Every step keeps the types of what is in memory.                      *)
LEMMA MemoryType ==
  ASSUME IInv, NEW p \in Proc, ProcStep(p)
  PROVE  MemoryOK(Accepteds)
<1>0. TypeOK /\ PhaseAt(p)
  BY DEF IInv, Phases
<1>1. /\ batch \in [Proc -> Seq(Accepteds)] /\ inbox \in Seq(Accepteds)
      /\ pc \in [Proc -> Step \cup {"idle", "wait"}] /\ call \in [Proc -> Call]
      /\ svc \in [Proc -> {"unset", "ready", "failed"}]
      /\ life \in [Listener -> {"off", "running", "stopping", "closed"}]
      /\ faults \in 0..MaxFaults /\ drawn \subseteq Msg
  BY <1>0 DEF TypeOK, Accepteds
<1>2. \A steps : Fault(p, steps) => faults' \in 0..MaxFaults
  BY <1>1, SecureAssumption DEF Fault
<1> USE <1>1 DEF MemoryOK, Goto, Step
\* The next envelope.
<1>3. batch[p] # <<>> => Tail(batch[p]) \in Seq(Accepteds)
  BY HeadTailProperties
<1>4. CASE StartInit(p) \/ StartSync(p)
  <2>1. \A a \in Did : /\ [NoCall EXCEPT !.op = "init", !.me = a] \in Call
                       /\ [NoCall EXCEPT !.op = "sync", !.me = a] \in Call
    BY DEF NoCall, Call
  <2>2. PICK c \in Call, to \in {"register", "fetch"} : Begin(p, c, to) /\ UNCHANGED drawn
    BY <1>4, <2>1 DEF StartInit, StartSync
  <2>3. /\ pc' = [pc EXCEPT ![p] = to] /\ call' = [call EXCEPT ![p] = c]
        /\ UNCHANGED <<batch, svc, life, faults, drawn>>
    BY <2>2 DEF Begin
  <2> QED
    BY <2>3
<1>5. CASE StartSend(p)
  <2>1. PICK a \in Did, m \in Msg \ drawn, b \in Did :
          /\ Begin(p, [to |-> b, op |-> "send", me |-> a, id |-> m], "register")
          /\ drawn' = drawn \cup {m}
    BY <1>5 DEF StartSend
  <2>2. [to |-> b, op |-> "send", me |-> a, id |-> m] \in Call
    BY DEF Call
  <2> QED
    BY <2>1, <2>2 DEF Begin
<1>6. CASE EndSync(p) \/ StoreSent(p) \/ RefusedEncrypt(p) \/ RefusedFetch(p)
           \/ (Publish(p) /\ call[p].op # "send")
  <2>1. Return(p) /\ UNCHANGED <<drawn, life, faults>>
    BY <1>6 DEF EndSync, StoreSent, RefusedEncrypt, RefusedFetch, Publish
  <2> QED
    BY <1>0, <2>1, ReturnType
<1>7. CASE Fail(p) \/ FailEncrypt(p)
  <2>1. Return(p) /\ UNCHANGED <<drawn, life>> /\ faults' \in 0..MaxFaults
    BY <1>2, <1>7 DEF Fail, CallFails, FailEncrypt
  <2> QED
    BY <1>0, <2>1, ReturnType
<1>8. CASE Crash(p)
  <2>1. /\ Gone(p) /\ drawn' = drawn /\ faults' \in 0..MaxFaults
        /\ life' = [l \in Listener |-> IF l = p THEN "off" ELSE life[l]]
    BY <1>2, <1>8 DEF Crash
  <2>2. life' \in [Listener -> {"off", "running", "stopping", "closed"}]
    BY <2>1
  <2> QED
    BY <1>0, <2>1, <2>2, ReturnType
<1>9. CASE \/ Register(p) \/ EncryptInit(p) \/ EncryptCipher(p) \/ SendAck(p)
           \/ RefusedAck(p) \/ (Publish(p) /\ call[p].op = "send")
  BY <1>9 DEF Register, EncryptInit, EncryptCipher, EncryptWithin, SendAck, RefusedAck, Publish
<1>10. CASE Fetch(p)
  BY <1>10, ShownType DEF Fetch
<1>11. CASE Open(p)
  <2>1. /\ UNCHANGED <<drawn, call, life, faults>>
        /\ svc' = [svc EXCEPT ![p] = "ready"]
        /\ pc' = [pc EXCEPT ![p] = Follows(AtHand(p))]
        /\ batch' = batch \/ batch' = [batch EXCEPT ![p] = Tail(@)]
        /\ batch[p] # <<>>
    BY <1>11 DEF Open, OpenThen
  <2>2. Follows(AtHand(p)) \in Step
    BY DEF Follows
  <2> QED
    BY <1>3, <2>1, <2>2
<1>12. CASE SkipRow(p) \/ StoreRow(p)
  <2>1. batch[p] # <<>>
    BY <1>0, <1>12 DEF SkipRow, StoreRow, PhaseAt
  <2> QED
    BY <1>3, <1>12, <2>1 DEF SkipRow, PassOver, StoreRow
<1>13. CASE FailOpen(p) \/ FailAck(p) \/ FailRow(p)
  <2>1. batch[p] # <<>>
    BY <1>0, <1>13 DEF FailOpen, FailAck, FailRow, PhaseAt
  <2>2. faults' \in 0..MaxFaults
    BY <1>2, <1>13 DEF FailOpen, FailAck, FailRow
  <2> QED
    BY <1>3, <1>13, <2>1, <2>2 DEF FailOpen, FailAck, FailRow
<1>14. CASE p \in Listener /\ Launch(p)
  <2>1. Home(p) \in Did
    BY <1>0, <1>14, SecureAssumption DEF Home, TypeOK
  <2>2. [NoCall EXCEPT !.op = "sync", !.me = Home(p)] \in Call
    BY <2>1 DEF NoCall, Call
  <2> QED
    BY <1>14, <2>2 DEF Launch
<1>15. CASE p \in Listener /\ (Tick(p) \/ Stop(p) \/ CloseDB(p))
  BY <1>15 DEF Tick, Stop, CloseDB
<1>16. CASE p \in Listener /\ (LoopEnds(p) \/ Exit(p))
  <2>1. /\ Gone(p) /\ UNCHANGED <<drawn, faults>>
        /\ life' = life \/ life' = [life EXCEPT ![p] = "off"]
    BY <1>16 DEF LoopEnds, LoopEndsAt, Exit
  <2> QED
    BY <1>0, <1>16, <2>1, ReturnType
<1> QED
  BY <1>4, <1>5, <1>6, <1>7, <1>8, <1>9, <1>10, <1>11, <1>12, <1>13, <1>14, <1>15, <1>16
     DEF ProcStep

(* What a step tells the backend of an identity, and what it writes to its  *)
(* workspace.                                                               *)
SessionType == [id : Msg, peer : Did, open : BOOLEAN]
Registers(p) ==
  /\ known' = known \/ (known' = known \cup {call[p].me} /\ call[p].me \in Did)
  /\ bundle' = bundle \/ (bundle' = bundle \cup {call[p].me} /\ call[p].me \in known)
Keeps(p) ==
  /\ pc[p] = "encrypt" /\ (EncryptInit(p) \/ FailEncrypt(p))
  /\ session' = Kept(p) /\ opened' = opened
  /\ [id |-> call[p].id, peer |-> call[p].to, open |-> FALSE] \in SessionType
Opens(p) ==
  /\ pc[p] = "rows" /\ Open(p)
  /\ batch[p] # <<>> /\ AtHand(p) \in Accepteds /\ call[p].me \in Did
  /\ Readable(call[p].me, AtHand(p))
  /\ opened' = [opened EXCEPT ![call[p].me] = @ \cup {AtHand(p)}]
  /\ session' = [session EXCEPT ![call[p].me] = Advanced(call[p].me, AtHand(p))]
  /\ Advanced(call[p].me, AtHand(p)) \subseteq SessionType
Writes(p) ==
  /\ call[p].me \in Did
  /\ \/ /\ StoreSent(p) /\ pc[p] = "store" /\ call[p].id \in Msg
        /\ row' = [row EXCEPT ![call[p].me][Text(call[p].id)] = "out"]
     \/ /\ StoreRow(p) /\ pc[p] = "row" /\ AtHand(p) \in Accepteds /\ ~Closed(p)
        /\ row' = [row EXCEPT ![call[p].me][AtHand(p)] = IF @ = "none" THEN "in" ELSE @]

(* Every step keeps the types of what is on disk.                        *)
LEMMA DiskStep ==
  ASSUME IInv, NEW p \in Proc, ProcStep(p)
  PROVE  /\ Registers(p)
         /\ Keeps(p) \/ Opens(p) \/ UNCHANGED <<session, opened>>
         /\ Writes(p) \/ UNCHANGED row
<1>0. TypeOK /\ PhaseAt(p) /\ IdAt(p)
  BY DEF IInv, Phases, Ids
<1>1. batch[p] # <<>> => AtHand(p) \in Accepteds
  BY <1>0, HeadTailProperties DEF TypeOK, Accepteds, AtHand
<1>2. CASE Register(p) \/ Publish(p)
  BY <1>0, <1>2 DEF Register, Publish, PhaseAt, Goto, disk, Registers
<1>3. CASE \/ StartInit(p) \/ StartSend(p) \/ StartSync(p) \/ EncryptCipher(p)
           \/ RefusedEncrypt(p) \/ Fetch(p) \/ RefusedFetch(p) \/ SkipRow(p) \/ SendAck(p)
           \/ RefusedAck(p) \/ EndSync(p) \/ Fail(p) \/ FailOpen(p) \/ FailAck(p) \/ FailRow(p) \/ Crash(p)
  BY <1>3 DEF StartInit, StartSend, StartSync, Begin, EncryptCipher, EncryptWithin,
     RefusedEncrypt, Fetch, RefusedFetch, SkipRow, PassOver, SendAck, RefusedAck, EndSync, Fail,
     CallFails, FailOpen, FailAck, FailRow, Crash, disk, backend, Registers
<1>4. CASE \/ Launch(p) \/ Tick(p) \/ Stop(p) \/ LoopEnds(p) \/ CloseDB(p) \/ Exit(p)
  BY <1>4 DEF Launch, Tick, Stop, LoopEnds, LoopEndsAt, CloseDB, Exit, disk, backend, Registers
<1>5. CASE EncryptInit(p) \/ FailEncrypt(p)
  <2>1. /\ pc[p] = "encrypt" /\ UNCHANGED <<known, bundle, opened, row>>
        /\ session' = session \/ session' = Kept(p)
    BY <1>5 DEF EncryptInit, FailEncrypt, Goto
  <2>2. [id |-> call[p].id, peer |-> call[p].to, open |-> FALSE] \in SessionType
    BY <1>0, <2>1 DEF PhaseAt, IdAt, TypeOK, SessionType
  <2> QED
    BY <1>5, <2>1, <2>2 DEF Keeps, Registers
<1>6. CASE Open(p)
  <2>1. /\ pc[p] = "rows" /\ batch[p] # <<>> /\ Readable(call[p].me, AtHand(p))
        /\ opened' = [opened EXCEPT ![call[p].me] = @ \cup {AtHand(p)}]
        /\ session' = [session EXCEPT ![call[p].me] = Advanced(call[p].me, AtHand(p))]
        /\ UNCHANGED <<known, bundle, row>>
    BY <1>6 DEF Open, OpenThen, Goto, backend
  <2>2. AtHand(p) \in Accepteds /\ call[p].me \in Did
    BY <1>0, <1>1, <2>1 DEF PhaseAt
  <2>3. wire[AtHand(p)] \in Wire
    BY <1>0, <2>2 DEF Accepteds, TypeOK
  <2>4. [id |-> wire[AtHand(p)].session, peer |-> wire[AtHand(p)].from, open |-> TRUE]
          \in SessionType
    BY <2>3 DEF Wire, SessionType
  <2>5. session[call[p].me] \subseteq SessionType
    BY <1>0, <2>2 DEF TypeOK, SessionType
  <2>6. Advanced(call[p].me, AtHand(p)) \subseteq SessionType
    BY <2>4, <2>5 DEF Advanced
  <2> QED
    BY <1>6, <2>1, <2>2, <2>6 DEF Opens, Registers
<1>7. CASE StoreSent(p)
  <2>1. /\ pc[p] = "store" /\ row' = [row EXCEPT ![call[p].me][Text(call[p].id)] = "out"]
        /\ UNCHANGED <<known, bundle, session, opened>>
    BY <1>7 DEF StoreSent, backend
  <2> QED
    BY <1>0, <1>7, <2>1 DEF PhaseAt, IdAt, TypeOK, Writes, Registers
<1>8. CASE StoreRow(p)
  <2>1. /\ pc[p] = "row" /\ UNCHANGED <<known, bundle, session, opened>>
        /\ row' = IF Closed(p) THEN row
                  ELSE [row EXCEPT ![call[p].me][AtHand(p)] = IF @ = "none" THEN "in" ELSE @]
    BY <1>8 DEF StoreRow, Goto, backend
  <2>2. AtHand(p) \in Accepteds /\ call[p].me \in Did
    BY <1>0, <1>1, <2>1 DEF PhaseAt
  <2> QED
    BY <1>8, <2>1, <2>2 DEF Writes, Registers
<1> QED
  BY <1>2, <1>3, <1>4, <1>5, <1>6, <1>7, <1>8 DEF ProcStep

(* Every step keeps the types.                                           *)
LEMMA TypeStep ==
  ASSUME IInv, NEW p \in Proc, ProcStep(p)
  PROVE  TypeOK'
<1>0. TypeOK
  BY DEF IInv
<1>1. MemoryOK(Accepteds)
  BY MemoryType
<1>2. batch' \in [Proc -> Seq(Accepteds')]
  BY <1>1, WireStep, StillShown DEF MemoryOK
<1>3. known' \subseteq Did /\ bundle' \subseteq known'
  BY <1>0, DiskStep DEF Registers, TypeOK
<1>4. session' \in [Did -> SUBSET SessionType] /\ opened' \in [Did -> SUBSET Id]
  <2>1. session \in [Did -> SUBSET SessionType] /\ opened \in [Did -> SUBSET Id]
    BY <1>0 DEF TypeOK, SessionType
  <2>2. CASE Keeps(p)
    BY <2>1, <2>2 DEF Keeps, Kept
  <2>3. CASE Opens(p)
    BY <2>1, <2>3 DEF Opens, Accepteds
  <2> QED
    BY <2>1, <2>2, <2>3, DiskStep
<1>5. row' \in [Did -> [Id -> {"none", "in", "out"}]]
  <2>1. row \in [Did -> [Id -> {"none", "in", "out"}]]
    BY <1>0 DEF TypeOK
  <2>2. CASE Writes(p)
    <3>1. PICK a \in Did, i \in Id : \E v \in {"none", "in", "out"} :
            row' = [row EXCEPT ![a][i] = v]
      <4>1. call[p].id \in Msg => Text(call[p].id) \in Id
        BY IdFacts
      <4>2. \A i \in Id : row[call[p].me][i] \in {"none", "in", "out"}
        BY <2>1, <2>2 DEF Writes
      <4> QED
        BY <2>1, <2>2, <4>1, <4>2 DEF Writes, Accepteds
    <3> QED
      BY <2>1, <3>1
  <2> QED
    BY <2>1, <2>2, DiskStep
<1> QED
  BY <1>0, <1>1, <1>2, <1>3, <1>4, <1>5, WireStep, ScenarioStays
     DEF TypeOK, Accepteds, SessionType, MemoryOK

(* What is on the disk and at the backend only grows. *)
LEMMA Grows ==
  ASSUME IInv, NEW p \in Proc, ProcStep(p)
  PROVE  /\ known \subseteq known'
         /\ \A a \in Did : opened[a] \subseteq opened'[a]
         /\ \A a \in Did : \A peer, id : Has(a, peer, id) => Has(a, peer, id)'
<1>0. TypeOK
  BY DEF IInv
<1>1. known \subseteq known'
  BY DiskStep DEF Registers
<1>2. CASE UNCHANGED <<session, opened>>
  BY <1>1, <1>2 DEF Has
<1>3. CASE Keeps(p)
  BY <1>0, <1>1, <1>3 DEF Keeps, Kept, Has, TypeOK
<1>4. CASE Opens(p)
  <2> DEFINE me == call[p].me
             w == wire[AtHand(p)]
  <2>1. /\ opened' = [opened EXCEPT ![me] = @ \cup {AtHand(p)}]
        /\ session' = [session EXCEPT ![me] = Advanced(me, AtHand(p))]
        /\ me \in Did
    BY <1>4 DEF Opens
  <2>2. \A s \in session[me] : \E t \in Advanced(me, AtHand(p)) : t.peer = s.peer /\ t.id = s.id
    <3>1. ASSUME NEW s \in session[me], s.peer = w.from, s.id = w.session
          PROVE  \E t \in Advanced(me, AtHand(p)) : t.peer = s.peer /\ t.id = s.id
      <4>1. [id |-> w.session, peer |-> w.from, open |-> TRUE] \in Advanced(me, AtHand(p))
        BY DEF Advanced
      <4> QED
        BY <3>1, <4>1
    <3>2. ASSUME NEW s \in session[me], ~(s.peer = w.from /\ s.id = w.session)
          PROVE  s \in Advanced(me, AtHand(p))
      BY <3>2 DEF Advanced
    <3> QED
      BY <3>1, <3>2
  <2> HIDE DEF me
  <2> QED
    BY <1>0, <1>1, <2>1, <2>2 DEF TypeOK, Has
<1> QED
  BY <1>2, <1>3, <1>4, DiskStep

(* Every step keeps what each place in a command stands for.             *)
LEMMA PhaseStep ==
  ASSUME IInv, NEW p \in Proc, ProcStep(p)
  PROVE  Phases'
<1>0. TypeOK /\ Phases /\ Envelopes
  BY DEF IInv
<1>1. ASSUME NEW q \in Proc, pc'[q] = pc[q], call'[q] = call[q], batch'[q] = batch[q]
      PROVE  PhaseAt(q)'
  <2>1. PhaseAt(q)
    BY <1>0 DEF Phases
  <2>2. AtHand(q)' = AtHand(q)
    BY <1>1 DEF AtHand
  <2>3. pc[q] \in {"ack", "row"} => /\ AtHand(q) \in Id /\ call[q].me \in Did
                                    /\ wire[AtHand(q)] # None
    BY <1>0, <2>1 DEF PhaseAt, Envelopes, TypeOK
  <2>4. pc[q] \in {"ack", "row"} => /\ wire'[AtHand(q)] = wire[AtHand(q)]
                                    /\ opened[call[q].me] \subseteq opened'[call[q].me]
    BY <2>3, WireStep, Grows
  <2>5. known \subseteq known'
    BY Grows
  <2> QED
    BY <1>1, <2>1, <2>2, <2>4, <2>5 DEF PhaseAt
<1>2. PhaseAt(p)'
  <2>0. PhaseAt(p)
    BY <1>0 DEF Phases
  <2>a. known \subseteq known'
    BY Grows
  <2>b. CASE pc'[p] = "idle" /\ call'[p] = NoCall
    BY <2>b DEF PhaseAt, NoCall
  <2>c. CASE Gone(p)
    BY <1>0, <2>b, <2>c DEF Gone, TypeOK
  <2>d. CASE Return(p) /\ pc[p] # "idle"
    <3>1. CASE p \in Listener
      <4>1. pc'[p] = "wait" /\ call'[p] = call[p]
        BY <1>0, <2>d, <3>1 DEF Return, TypeOK
      <4>2. call[p].op = "sync"
        BY <1>0, <2>0, <2>d, <3>1 DEF PhaseAt, TypeOK, Step
      <4> QED
        BY <2>0, <3>1, <4>1, <4>2 DEF PhaseAt
    <3>2. CASE p \notin Listener
      BY <2>c, <2>d, <3>2 DEF Return
    <3> QED
      BY <3>1, <3>2
  <2>1. CASE StartInit(p) \/ StartSync(p)
    <3>1. PICK a \in Did, o \in {"init", "sync"} :
            /\ call' = [call EXCEPT ![p] = [NoCall EXCEPT !.op = o, !.me = a]]
            /\ pc'[p] = IF o = "sync" THEN "fetch" ELSE "register"
            /\ p \notin Listener
      BY <1>0, <2>1 DEF StartInit, StartSync, Begin, Goto, TypeOK
    <3>2. call'[p] = [NoCall EXCEPT !.op = o, !.me = a]
      BY <1>0, <3>1 DEF TypeOK
    <3>3. call'[p].op = o /\ call'[p].me = a
      BY <3>2 DEF NoCall
    <3> QED
      BY <3>1, <3>3 DEF PhaseAt
  <2>2. CASE StartSend(p)
    <3>1. PICK a \in Did, m \in Msg, b \in Did :
            Begin(p, [to |-> b, op |-> "send", me |-> a, id |-> m], "register")
      BY <2>2 DEF StartSend
    <3>2. call'[p].op = "send" /\ call'[p].me = a /\ pc'[p] = "register" /\ p \notin Listener
      BY <1>0, <3>1 DEF Begin, Goto, TypeOK
    <3> QED
      BY <3>2 DEF PhaseAt
  <2>3. CASE Register(p)
    <3>1. pc[p] = "register" /\ pc'[p] = "publish" /\ call' = call /\ call[p].me \in known'
      BY <1>0, <2>3 DEF Register, Goto, TypeOK
    <3> QED
      BY <2>0, <3>1 DEF PhaseAt
  <2>4. CASE Publish(p) /\ call[p].op = "send"
    <3>1. pc[p] = "publish" /\ pc'[p] = "encrypt" /\ call' = call
      BY <1>0, <2>4 DEF Publish, TypeOK
    <3> QED
      BY <2>0, <2>4, <2>a, <3>1 DEF PhaseAt
  <2>5. CASE EncryptInit(p) \/ EncryptCipher(p)
    <3>1. pc[p] = "encrypt" /\ pc'[p] = "store" /\ call' = call
      BY <1>0, <2>5 DEF EncryptInit, EncryptCipher, EncryptWithin, Goto, TypeOK
    <3> QED
      BY <2>0, <2>a, <3>1 DEF PhaseAt
  <2>6. CASE (Publish(p) /\ call[p].op # "send") \/ RefusedEncrypt(p) \/ StoreSent(p)
             \/ RefusedFetch(p) \/ EndSync(p) \/ Fail(p) \/ FailEncrypt(p)
    BY <2>6, <2>d DEF Publish, RefusedEncrypt, StoreSent, RefusedFetch, EndSync, Fail,
       FailEncrypt, CallFails
  <2>7. CASE Fetch(p) \/ SkipRow(p) \/ StoreRow(p) \/ FailOpen(p) \/ FailRow(p)
    <3>1. /\ pc[p] \in {"fetch", "rows", "row"} /\ pc'[p] = "rows" /\ call' = call
      BY <1>0, <2>7 DEF Fetch, SkipRow, PassOver, StoreRow, FailOpen, FailRow, Goto, TypeOK
    <3> QED
      BY <2>0, <2>a, <3>1 DEF PhaseAt
  <2>8. CASE SendAck(p) \/ RefusedAck(p) \/ FailAck(p)
    <3>1. /\ pc[p] = "ack" /\ pc'[p] = "row" /\ call' = call /\ batch' = batch
          /\ opened' = opened
      BY <1>0, <2>8 DEF SendAck, RefusedAck, FailAck, Goto, disk, TypeOK
    <3> QED
      BY <2>0, <2>a, <3>1 DEF PhaseAt, AtHand
  <2>9. CASE Open(p)
    <3>1. /\ pc[p] = "rows" /\ pc'[p] = Follows(AtHand(p)) /\ call' = call /\ wire' = wire
          /\ batch[p] # <<>> /\ call[p].me \in Did /\ call[p].op = "sync"
          /\ opened' = [opened EXCEPT ![call[p].me] = @ \cup {AtHand(p)}]
          /\ Follows(AtHand(p)) # "rows" => batch' = batch
      BY <1>0, <2>0, <2>9 DEF Open, OpenThen, Goto, TypeOK, backend, PhaseAt
    <3>2. AtHand(p) \in opened'[call[p].me]
      BY <1>0, <3>1 DEF TypeOK
    <3>3. Follows(AtHand(p)) \in {"ack", "rows", "row"}
          /\ (Follows(AtHand(p)) = "ack" => wire[AtHand(p)].init)
      BY DEF Follows
    <3>4. CASE Follows(AtHand(p)) = "rows"
      BY <2>0, <3>1, <3>4 DEF PhaseAt
    <3>5. CASE Follows(AtHand(p)) # "rows"
      BY <2>0, <3>1, <3>2, <3>3, <3>5 DEF PhaseAt, AtHand
    <3> QED
      BY <3>4, <3>5
  <2>10. CASE p \in Listener /\ Launch(p)
    <3>1. /\ call' = [call EXCEPT ![p] = [NoCall EXCEPT !.op = "sync", !.me = Home(p)]]
          /\ pc'[p] = "fetch" /\ Home(p) \in Did
      BY <1>0, <2>10, SecureAssumption DEF Launch, Goto, TypeOK, Home
    <3>2. call'[p] = [NoCall EXCEPT !.op = "sync", !.me = Home(p)]
      BY <1>0, <3>1 DEF TypeOK
    <3>3. call'[p].op = "sync" /\ call'[p].me = Home(p)
      BY <3>2 DEF NoCall
    <3> QED
      BY <3>1, <3>3 DEF PhaseAt
  <2>11. CASE p \in Listener /\ Tick(p)
    <3>1. pc[p] = "wait" /\ pc'[p] = "fetch" /\ call' = call
      BY <1>0, <2>11 DEF Tick, Goto, TypeOK
    <3> QED
      BY <2>0, <3>1 DEF PhaseAt
  <2>12. CASE p \in Listener /\ (Stop(p) \/ CloseDB(p))
    BY <1>1, <2>12 DEF Stop, CloseDB
  <2>13. CASE (p \in Listener /\ (LoopEnds(p) \/ Exit(p))) \/ Crash(p)
    BY <2>13, <2>c DEF LoopEnds, LoopEndsAt, Exit, Crash
  <2> QED
    BY <2>1, <2>2, <2>3, <2>4, <2>5, <2>6, <2>7, <2>8, <2>9, <2>10, <2>11, <2>12, <2>13
       DEF ProcStep
<1>3. \A q \in Proc : q # p => PhaseAt(q)'
  BY <1>0, <1>1, OthersKeep
<1> QED
  BY <1>2, <1>3 DEF Phases

(* A step draws an id for a new send, ends or starts another call, or goes  *)
(* on with the one at hand.                                                 *)
Draws(p) ==
  /\ call'[p].op = "send" /\ call'[p].to \in Did \ {call'[p].me}
  /\ call'[p].id \in Msg \ drawn /\ drawn' = drawn \cup {call'[p].id}
  /\ UNCHANGED wire /\ pc'[p] = "register"
Drops(p) ==
  /\ UNCHANGED drawn
  /\ call'[p].op # "send" /\ call'[p].id = None /\ pc'[p] # "store"
GoesOn(p) ==
  /\ UNCHANGED drawn /\ call'[p] = call[p]
  /\ call[p].op = "send" =>
       \/ pc'[p] # "store" /\ UNCHANGED wire
       \/ pc'[p] = "store" /\ (EncryptInit(p) \/ EncryptCipher(p))
  /\ call[p].op # "send" => pc'[p] # "store"

(* What a command works on does not change until it ends.                *)
LEMMA CallStep ==
  ASSUME IInv, NEW p \in Proc, ProcStep(p)
  PROVE  Draws(p) \/ Drops(p) \/ GoesOn(p)
<1>0. TypeOK /\ PhaseAt(p) /\ IdAt(p)
  BY DEF IInv, Phases, Ids
<1>1. CASE Gone(p) /\ UNCHANGED drawn
  BY <1>0, <1>1 DEF Gone, TypeOK, NoCall, Drops
<1>2. CASE Return(p) /\ pc[p] # "idle" /\ UNCHANGED drawn
  <2>1. CASE p \in Listener
    <3>1. pc'[p] = "wait" /\ call'[p] = call[p] /\ call[p].op # "send"
      BY <1>0, <1>2, <2>1 DEF Return, TypeOK, PhaseAt
    <3> QED
      BY <1>2, <3>1 DEF GoesOn
  <2>2. CASE p \notin Listener
    BY <1>1, <1>2, <2>2 DEF Return
  <2> QED
    BY <2>1, <2>2
<1>3. CASE StartInit(p) \/ StartSync(p)
  <2>1. PICK a \in Did, o \in {"init", "sync"} :
          /\ call' = [call EXCEPT ![p] = [NoCall EXCEPT !.op = o, !.me = a]]
          /\ pc'[p] = IF o = "sync" THEN "fetch" ELSE "register"
          /\ drawn' = drawn
    BY <1>0, <1>3 DEF StartInit, StartSync, Begin, Goto, TypeOK
  <2>2. call'[p] = [NoCall EXCEPT !.op = o, !.me = a]
    BY <1>0, <2>1 DEF TypeOK
  <2>3. call'[p].op = o /\ call'[p].id = None
    BY <2>2 DEF NoCall
  <2> QED
    BY <2>1, <2>3 DEF Drops
<1>4. CASE StartSend(p)
  <2>1. PICK a \in Did, m \in Msg \ drawn : \E b \in Did \ {a} :
          /\ Begin(p, [to |-> b, op |-> "send", me |-> a, id |-> m], "register")
          /\ drawn' = drawn \cup {m}
    BY <1>4 DEF StartSend
  <2>2. PICK b \in Did \ {a} : Begin(p, [to |-> b, op |-> "send", me |-> a, id |-> m], "register")
    BY <2>1
  <2>3. /\ call'[p] = [to |-> b, op |-> "send", me |-> a, id |-> m]
        /\ pc'[p] = "register" /\ wire' = wire
    BY <1>0, <2>2 DEF Begin, Goto, TypeOK, backend
  <2> QED
    BY <2>1, <2>3 DEF Draws
<1>5. CASE Register(p) \/ (Publish(p) /\ call[p].op = "send")
  BY <1>0, <1>5 DEF Register, Publish, Goto, TypeOK, GoesOn
<1>6. CASE EncryptInit(p) \/ EncryptCipher(p)
  <2>1. /\ pc[p] = "encrypt" /\ pc'[p] = "store" /\ call' = call /\ drawn' = drawn
    BY <1>0, <1>6 DEF EncryptInit, EncryptCipher, EncryptWithin, Goto, TypeOK
  <2> QED
    BY <1>0, <1>6, <2>1 DEF GoesOn, PhaseAt
<1>7. CASE (Publish(p) /\ call[p].op # "send") \/ RefusedEncrypt(p) \/ StoreSent(p)
           \/ RefusedFetch(p) \/ EndSync(p) \/ Fail(p) \/ FailEncrypt(p)
  BY <1>7, <1>2 DEF Publish, RefusedEncrypt, StoreSent, RefusedFetch, EndSync, Fail,
     FailEncrypt, CallFails
<1>8. CASE Fetch(p) \/ SkipRow(p) \/ StoreRow(p) \/ FailOpen(p) \/ FailRow(p) \/ SendAck(p)
           \/ RefusedAck(p) \/ FailAck(p) \/ Open(p)
  <2>1. /\ pc[p] \in {"fetch", "rows", "row", "ack"} /\ pc'[p] \in {"rows", "row", "ack"}
        /\ call' = call /\ drawn' = drawn
    BY <1>0, <1>8 DEF Fetch, SkipRow, PassOver, StoreRow, FailOpen, FailRow, SendAck,
       RefusedAck, FailAck, Open, OpenThen, Follows, Goto, TypeOK
  <2> QED
    BY <1>0, <2>1 DEF PhaseAt, GoesOn
<1>9. CASE p \in Listener /\ Launch(p)
  <2>1. /\ call' = [call EXCEPT ![p] = [NoCall EXCEPT !.op = "sync", !.me = Home(p)]]
        /\ pc'[p] = "fetch" /\ drawn' = drawn
    BY <1>0, <1>9 DEF Launch, Goto, TypeOK
  <2>2. call'[p] = [NoCall EXCEPT !.op = "sync", !.me = Home(p)]
    BY <1>0, <2>1 DEF TypeOK
  <2>3. call'[p].op = "sync" /\ call'[p].id = None
    BY <2>2 DEF NoCall
  <2> QED
    BY <2>1, <2>3 DEF Drops
<1>10. CASE p \in Listener /\ (Tick(p) \/ Stop(p) \/ CloseDB(p))
  <2>1. /\ call' = call /\ drawn' = drawn /\ (pc' = pc \/ pc'[p] = "fetch")
        /\ call[p].op # "send"
    BY <1>0, <1>10 DEF Tick, Stop, CloseDB, Goto, TypeOK, PhaseAt
  <2> QED
    BY <1>0, <2>1 DEF PhaseAt, GoesOn
<1>11. CASE (p \in Listener /\ (LoopEnds(p) \/ Exit(p))) \/ Crash(p)
  BY <1>11, <1>1 DEF LoopEnds, LoopEndsAt, Exit, Crash
<1> QED
  BY <1>3, <1>4, <1>5, <1>6, <1>7, <1>8, <1>9, <1>10, <1>11 DEF ProcStep

\* From "store" a send ends.
LEMMA StoreEnds ==
  ASSUME IInv, NEW p \in Proc, ProcStep(p), pc[p] = "store", call'[p] = call[p]
  PROVE  FALSE
<1>0. TypeOK /\ PhaseAt(p) /\ p \notin Listener /\ call[p] # NoCall
  BY DEF IInv, Phases, PhaseAt, NoCall
<1>1. ~Gone(p)
  BY <1>0 DEF Gone, TypeOK
<1>2. ~Return(p)
  BY <1>0, <1>1 DEF Return
<1> QED
  BY <1>0, <1>1, <1>2
     DEF ProcStep, StartInit, StartSend, StartSync, Begin, Register, Publish, EncryptInit,
         EncryptCipher, EncryptWithin, RefusedEncrypt, StoreSent, Fetch, RefusedFetch, Open,
         OpenThen, SkipRow, PassOver, SendAck, RefusedAck, StoreRow, EndSync, Fail, FailEncrypt,
         FailOpen, FailAck, FailRow, Crash, Goto

\* Encrypting hands the backend an envelope from the sender.
LEMMA Encrypts ==
  ASSUME IInv, NEW p \in Proc, EncryptInit(p) \/ EncryptCipher(p)
  PROVE  \E w \in Wire : Accepted(Text(call[p].id), w) /\ w.from = call[p].me
<1>0. TypeOK /\ PhaseAt(p) /\ IdAt(p) /\ pc[p] = "encrypt"
  BY DEF IInv, Phases, Ids, EncryptInit, EncryptCipher, EncryptWithin, Goto
<1>1. /\ call[p].me \in Did /\ call[p].to \in Did /\ call[p].id \in Msg
      /\ Usable(call[p].me, call[p].to) \subseteq SessionType
  BY <1>0 DEF PhaseAt, IdAt, TypeOK, Usable, SessionType
<1>2. CASE EncryptInit(p)
  <2>1. Accepted(Text(call[p].id), InitWire(p))
    BY <1>2 DEF EncryptInit
  <2>2. InitWire(p) \in Wire /\ InitWire(p).from = call[p].me
    BY <1>1 DEF InitWire, Wire
  <2> QED
    BY <2>1, <2>2
<1>3. CASE EncryptCipher(p)
  <2>1. PICK s \in Usable(call[p].me, call[p].to) :
          Accepted(Text(call[p].id), [from |-> call[p].me, to |-> call[p].to,
                                      init |-> FALSE, session |-> s.id])
    BY <1>3 DEF EncryptCipher, EncryptWithin
  <2> DEFINE w == [from |-> call[p].me, to |-> call[p].to, init |-> FALSE, session |-> s.id]
  <2>2. w \in Wire /\ w.from = call[p].me
    BY <1>1 DEF Wire, SessionType
  <2>3. Accepted(Text(call[p].id), w)
    BY <2>1
  <2> HIDE DEF w
  <2> QED
    BY <2>2, <2>3
<1> QED
  BY <1>2, <1>3

(* Every step keeps the ids apart.                                       *)
LEMMA IdsStep ==
  ASSUME IInv, NEW p \in Proc, ProcStep(p)
  PROVE  Ids'
<1>0. TypeOK /\ PhaseAt(p) /\ Ids
  BY DEF IInv, Phases
<1>1. drawn \subseteq drawn'
  BY CallStep DEF Draws, Drops, GoesOn
<1>2. pc[p] = "encrypt" => call[p].op = "send" /\ call[p].id \in drawn
  BY <1>0 DEF PhaseAt, Ids, IdAt
<1>3. ASSUME NEW m \in Msg, wire'[Text(m)] # None PROVE m \in drawn'
  <2>1. CASE wire'[Text(m)] = wire[Text(m)]
    BY <1>0, <1>1, <1>3, <2>1 DEF Ids
  <2>2. CASE wire'[Text(m)] # wire[Text(m)]
    <3>1. Text(m) = Text(call[p].id) /\ pc[p] = "encrypt"
      BY <2>2, IdFacts, WireStep
    <3>2. m = call[p].id
      BY <1>0, <1>2, <3>1, IdFacts DEF TypeOK
    <3> QED
      BY <1>1, <1>2, <3>1, <3>2
  <2> QED
    BY <2>1, <2>2
\* Nobody else's id is touched.
<1>4. ASSUME NEW q \in Proc \ {p}
      PROVE  /\ call[q].op = "send" => wire'[Text(call[q].id)] = wire[Text(call[q].id)]
             /\ pc[q] = "store" => call[q].op = "send"
  <2>1. PhaseAt(q) /\ IdAt(q)
    BY <1>0 DEF IInv, Phases, Ids
  <2>2. ASSUME call[q].op = "send", wire'[Text(call[q].id)] # wire[Text(call[q].id)]
        PROVE  FALSE
    <3>1. call[q].id \in Msg /\ call[q].id # call[p].id
      BY <1>0, <2>1, <2>2 DEF IdAt, TypeOK
    <3>2. Text(call[q].id) = Text(call[p].id) /\ pc[p] = "encrypt"
      BY <2>2, <3>1, IdFacts, WireStep
    <3> QED
      BY <1>0, <1>2, <3>1, <3>2, IdFacts DEF TypeOK
  <2> QED
    BY <2>1, <2>2 DEF PhaseAt
<1>5. \A q \in Proc \ {p} : pc'[q] = pc[q] /\ call'[q] = call[q]
  BY <1>0, OthersKeep
<1>6. ASSUME NEW q \in Proc \ {p}, call'[p].id = None \/ call'[p].id # call[q].id
      PROVE  IdAt(q)'
  <2>1. IdAt(q)
    BY <1>0 DEF Ids
  <2>2. call[q].op = "send" => call[q].id # None
    BY <1>0, <2>1, SecureAssumption DEF IdAt, TypeOK
  <2> QED
    BY <1>1, <1>4, <1>5, <1>6, <2>1, <2>2 DEF IdAt
<1>7. CASE Draws(p)
  <2>1. \A q \in Proc : call[q].id # call'[p].id
    <3>1. \A q \in Proc : call[q].id = None \/ call[q].id \in drawn
      BY <1>0 DEF Ids, IdAt
    <3> QED
      BY <1>7, <3>1, SecureAssumption DEF Draws
  <2>2. wire'[Text(call'[p].id)] = None
    BY <1>0, <1>7 DEF Draws, Ids
  <2>3. IdAt(p)'
    BY <1>5, <1>7, <2>1, <2>2 DEF IdAt, Draws
  <2> QED
    BY <1>3, <1>6, <2>1, <2>3 DEF Ids
<1>8. CASE Drops(p)
  <2>1. IdAt(p)'
    BY <1>8 DEF Drops, IdAt
  <2> QED
    BY <1>3, <1>6, <1>8, <2>1 DEF Ids, Drops
<1>9. CASE GoesOn(p)
  <2>0. IdAt(p)
    BY <1>0 DEF Ids
  <2>1. \A q \in Proc \ {p} : IdAt(q)'
    <3>1. \A q \in Proc \ {p} : call[p].id = None \/ call[p].id # call[q].id
      BY <1>0 DEF Ids, IdAt
    <3> QED
      BY <1>6, <1>9, <3>1 DEF GoesOn
  <2>2. IdAt(p)'
    <3>1. CASE call[p].op # "send"
      BY <1>9, <2>0, <3>1 DEF IdAt, GoesOn
    <3>2. CASE call[p].op = "send" /\ pc'[p] # "store"
      <4>1. pc[p] # "store"
        <5>1. CASE pc[p] = "store"
          <6>1. call'[p] # call[p]
            BY <1>0, <3>2, <5>1, StoreEnds
          <6> QED
            BY <1>9, <6>1 DEF GoesOn
        <5> QED
          BY <5>1
      <4> QED
        BY <1>1, <1>5, <1>9, <2>0, <3>2, <4>1 DEF IdAt, GoesOn
    <3>3. CASE call[p].op = "send" /\ pc'[p] = "store"
      <4>1. PICK w \in Wire : Accepted(Text(call[p].id), w) /\ w.from = call[p].me
        <5>1. EncryptInit(p) \/ EncryptCipher(p)
          BY <1>9, <3>3 DEF GoesOn
        <5> QED
          BY <5>1, Encrypts
      <4>2. wire'[Text(call[p].id)] = w /\ w # None
        <5>1. Text(call[p].id) \in Id
          BY <1>0, <2>0, <3>3, IdFacts DEF IdAt, TypeOK
        <5> QED
          BY <1>0, <4>1, <5>1, AcceptedEffect
      <4> QED
        BY <1>1, <1>5, <1>9, <2>0, <3>3, <4>1, <4>2 DEF IdAt, GoesOn
    <3> QED
      BY <3>1, <3>2, <3>3
  <2> QED
    BY <1>3, <2>1, <2>2 DEF Ids
<1> QED
  BY <1>7, <1>8, <1>9, CallStep

\* What the envelope is that a step adds.
LEMMA NewEnvelope ==
  ASSUME IInv, NEW p \in Proc, ProcStep(p), NEW i \in Id, wire'[i] # wire[i]
  PROVE  /\ wire[i] = None /\ wire'[i] \in Wire /\ wire'[i].from # wire'[i].to
         /\ \/ /\ pc[p] = "encrypt" /\ call[p].id \in Msg /\ i = Text(call[p].id)
               /\ wire'[i].from = call[p].me /\ wire'[i].to = call[p].to
               /\ \/ /\ EncryptInit(p) \/ FailEncrypt(p)
                     /\ wire'[i].init /\ wire'[i].session = call[p].id
                  \/ /\ EncryptCipher(p) /\ ~wire'[i].init
                     /\ \E s \in Usable(call[p].me, call[p].to) :
                          s.open /\ s.id = wire'[i].session
            \/ /\ pc[p] = "ack"
               /\ \E m \in Msg :
                    /\ i = Ack(m) /\ AtHand(p) = Text(m)
                    /\ wire[Text(m)] # None /\ wire[Text(m)].init
                    /\ \E s \in Usable(call[p].me, wire[Text(m)].from) :
                         s.open /\ s.id \in Msg /\ wire'[i] = Answer(m, s.id)
<1>0. TypeOK /\ PhaseAt(p) /\ IdAt(p) /\ Envelopes
  BY DEF IInv, Phases, Ids
<1>1. wire[i] = None
  BY WireStep
<1>2. ASSUME pc[p] = "encrypt", NEW w \in Wire, Accepted(Text(call[p].id), w)
      PROVE  i = Text(call[p].id) /\ wire'[i] = w /\ call[p].id \in Msg
  <2>1. Text(call[p].id) \in Id /\ call[p].id \in Msg
    BY <1>0, <1>2, IdFacts DEF PhaseAt, IdAt, TypeOK
  <2> QED
    BY <1>0, <1>2, <2>1, AcceptedEffect
<1>3. CASE pc[p] = "encrypt"
  <2>1. PICK w \in Wire :
               /\ Accepted(Text(call[p].id), w)
               /\ w.from = call[p].me /\ w.to = call[p].to
               /\ \/ /\ EncryptInit(p) \/ FailEncrypt(p)
                     /\ w.init /\ w.session = call[p].id
                  \/ /\ EncryptCipher(p)
                     /\ ~w.init
                     /\ \E s \in Usable(call[p].me, call[p].to) : s.open /\ s.id = w.session
    BY <1>3, Deliveries
  <2>2. i = Text(call[p].id) /\ wire'[i] = w /\ call[p].id \in Msg
    BY <1>2, <1>3, <2>1
  <2>3. call[p].me # call[p].to
    BY <1>0, <1>3 DEF PhaseAt, IdAt
  <2> QED
    BY <1>1, <1>3, <2>1, <2>2, <2>3
<1>4. CASE pc[p] # "encrypt"
  <2>1. PICK m \in Msg : pc[p] = "ack" /\ AcksIn(p, m)
    BY <1>4, Deliveries
  <2>2. PICK s \in Usable(call[p].me, wire[Text(m)].from) :
          s.open /\ Accepted(Ack(m), Answer(m, s.id)) /\ Answer(m, s.id) \in Wire
    BY <2>1 DEF AcksIn
  <2>3. i = Ack(m) /\ wire'[i] = Answer(m, s.id)
    <3>1. Ack(m) \in Id
      BY IdFacts
    <3> QED
      BY <1>0, <2>2, <3>1, AcceptedEffect
  <2>4. AtHand(p) = Text(m) /\ wire[Text(m)] # None /\ wire[Text(m)].init
    BY <1>0, <2>1 DEF PhaseAt, Envelopes, AcksIn
  <2>5. Answer(m, s.id).from # Answer(m, s.id).to
    BY <1>0, <2>4, IdFacts DEF Envelopes, Accepteds, Answer
  <2>6. s.id \in Msg
    BY <1>0, <2>1, <2>2 DEF PhaseAt, Usable, TypeOK
  <2> QED
    BY <1>1, <2>1, <2>2, <2>3, <2>4, <2>5, <2>6
<1> QED
  BY <1>3, <1>4

(* Every step keeps what the envelopes are.                              *)
LEMMA EnvelopesStep ==
  ASSUME IInv, NEW p \in Proc, ProcStep(p)
  PROVE  Envelopes'
<1>0. TypeOK /\ PhaseAt(p) /\ IdAt(p) /\ Envelopes
  BY DEF IInv, Phases, Ids
<1>1. \A i \in Accepteds' : wire'[i].from # wire'[i].to
  BY <1>0, NewEnvelope, WireStep DEF Envelopes, Accepteds
<1>2. ASSUME NEW m \in Msg, wire'[Text(m)] # None, wire'[Text(m)].init
      PROVE  wire'[Text(m)].session = m
  <2>1. CASE wire'[Text(m)] = wire[Text(m)]
    BY <1>0, <1>2, <2>1 DEF Envelopes
  <2>2. CASE wire'[Text(m)] # wire[Text(m)]
    <3>1. /\ Text(m) = Text(call[p].id) /\ call[p].id \in Msg
          /\ wire'[Text(m)].session = call[p].id
      BY <1>2, <2>2, NewEnvelope, IdFacts
    <3> QED
      BY <3>1, IdFacts
  <2> QED
    BY <2>1, <2>2
<1>3. ASSUME NEW m \in Msg, wire'[Ack(m)] # None
      PROVE  /\ wire'[Text(m)] # None /\ wire'[Text(m)].init
             /\ \E s \in Msg : wire'[Ack(m)] = Answer(m, s)'
  <2>1. /\ wire[Text(m)] # None /\ wire[Text(m)].init
        /\ \E s \in Msg : wire'[Ack(m)] = Answer(m, s)
    <3>1. CASE wire'[Ack(m)] = wire[Ack(m)]
      BY <1>0, <1>3, <3>1 DEF Envelopes
    <3>2. CASE wire'[Ack(m)] # wire[Ack(m)]
      <4>1. PICK n \in Msg : /\ Ack(m) = Ack(n)
                             /\ wire[Text(n)] # None /\ wire[Text(n)].init
                             /\ \E s \in Msg : wire'[Ack(m)] = Answer(n, s)
        <5>1. Ack(m) \in Id /\ \A n \in Msg : Ack(m) # Text(n)
          BY IdFacts
        <5> QED
          BY <3>2, <5>1, NewEnvelope
      <4>2. m = n
        BY <4>1, IdFacts
      <4> QED
        BY <4>1, <4>2
    <3> QED
      BY <3>1, <3>2
  <2>2. wire'[Text(m)] = wire[Text(m)]
    BY <2>1, IdFacts, WireStep
  <2>3. \A s : Answer(m, s)' = Answer(m, s)
    BY <2>2 DEF Answer
  <2> QED
    BY <2>1, <2>2, <2>3
<1>4. ASSUME NEW a \in Did, NEW i \in opened'[a]
      PROVE  wire'[i] # None /\ wire'[i].to = a
  <2>1. CASE i \in opened[a]
    <3>1. i \in Id /\ wire[i] # None /\ wire[i].to = a
      BY <1>0, <2>1 DEF Envelopes, TypeOK
    <3> QED
      BY <3>1, WireStep
  <2>2. CASE i \notin opened[a]
    <3>1. Opens(p)
      BY <1>4, <2>2, DiskStep DEF Keeps
    <3>2. a = call[p].me /\ i = AtHand(p)
      BY <1>0, <1>4, <2>2, <3>1 DEF Opens, TypeOK
    <3>3. i \in Accepteds /\ wire[i].to = a
      BY <3>1, <3>2 DEF Opens, Readable
    <3> QED
      BY <3>3, WireStep DEF Accepteds
  <2> QED
    BY <2>1, <2>2
<1>5. ASSUME NEW a \in Did, NEW m \in Msg, row'[a][Text(m)] = "out"
      PROVE  wire'[Text(m)] # None /\ wire'[Text(m)].from = a
  <2>0. Text(m) \in Id
    BY IdFacts
  <2>1. CASE row[a][Text(m)] = "out"
    BY <1>0, <2>0, <2>1, WireStep DEF Envelopes
  <2>2. CASE row[a][Text(m)] # "out"
    <3>1. Writes(p)
      BY <1>5, <2>2, DiskStep
    <3>2. /\ pc[p] = "store" /\ call[p].id \in Msg /\ a = call[p].me
          /\ Text(m) = Text(call[p].id)
      <4>1. CASE StoreRow(p) /\ row' = [row EXCEPT ![call[p].me][AtHand(p)] =
                                         IF @ = "none" THEN "in" ELSE @]
        BY <1>0, <1>5, <2>0, <2>2, <3>1, <4>1 DEF TypeOK, Writes, Accepteds
      <4>2. CASE /\ StoreSent(p) /\ pc[p] = "store" /\ call[p].id \in Msg
                 /\ row' = [row EXCEPT ![call[p].me][Text(call[p].id)] = "out"]
        BY <1>0, <1>5, <2>0, <2>2, <3>1, <4>2, IdFacts DEF TypeOK, Writes
      <4> QED
        BY <3>1, <4>1, <4>2 DEF Writes
    <3>3. wire[Text(m)] # None /\ wire[Text(m)].from = a
      BY <1>0, <3>2 DEF IdAt
    <3> QED
      BY <2>0, <3>3, WireStep
  <2> QED
    BY <2>1, <2>2
<1> QED
  BY <1>1, <1>2, <1>3, <1>4, <1>5 DEF Envelopes

(* An envelope is at hand after it is opened, until its row is dealt with. *)
LEMMA HandStep ==
  ASSUME IInv, NEW p \in Proc, ProcStep(p), pc'[p] \in {"ack", "row"}
  PROVE  /\ call'[p] = call[p] /\ batch'[p] = batch[p]
         /\ \/ Opens(p) /\ pc'[p] = Follows(AtHand(p)) /\ UNCHANGED wire
            \/ /\ pc[p] \in {"ack", "row"}
               /\ pc'[p] = "ack" => pc[p] = "ack" /\ UNCHANGED wire
<1>0. TypeOK /\ PhaseAt(p)
  BY DEF IInv, Phases
<1> USE DEF TypeOK, Goto
<1>1. CASE Open(p)
  <2>1. pc[p] = "rows" /\ opened' = [opened EXCEPT ![call[p].me] = @ \cup {AtHand(p)}]
        /\ Readable(call[p].me, AtHand(p)) /\ wire' = wire
        /\ pc'[p] = Follows(AtHand(p)) /\ call' = call
        /\ batch' = [batch EXCEPT ![p] = IF Follows(AtHand(p)) = "rows" THEN Tail(@) ELSE @]
    BY <1>0, <1>1 DEF Open, OpenThen, backend
  <2>2. call[p].me \in Did
    BY <1>0, <2>1 DEF PhaseAt
  <2>3. opened' # opened
    BY <1>0, <2>1, <2>2 DEF Readable
  <2>4. Opens(p)
    BY <2>1, <2>3, DiskStep DEF Keeps
  <2> QED
    BY <1>0, <2>1, <2>4
<1>2. CASE \/ StartInit(p) \/ StartSend(p) \/ StartSync(p)
           \/ Register(p) \/ Publish(p) \/ EncryptInit(p) \/ EncryptCipher(p)
           \/ RefusedEncrypt(p) \/ StoreSent(p) \/ Fetch(p) \/ RefusedFetch(p)
           \/ SkipRow(p) \/ StoreRow(p) \/ EndSync(p)
  BY <1>0, <1>2 DEF StartInit, StartSend, StartSync, Begin, Register, Publish, EncryptInit,
     EncryptCipher, EncryptWithin, RefusedEncrypt, StoreSent, Fetch, RefusedFetch, SkipRow,
     PassOver, StoreRow, EndSync, Return, Gone
<1>3. CASE SendAck(p) \/ RefusedAck(p) \/ FailAck(p)
  BY <1>0, <1>3 DEF SendAck, RefusedAck, FailAck
<1>4. CASE Fail(p) \/ FailEncrypt(p) \/ FailOpen(p) \/ FailRow(p) \/ Crash(p)
  BY <1>0, <1>4 DEF Fail, CallFails, FailEncrypt, FailOpen, FailRow, Crash, Return, Gone
<1>5. CASE p \in Listener /\ (\/ Launch(p) \/ Tick(p) \/ Stop(p) \/ LoopEnds(p)
                              \/ CloseDB(p) \/ Exit(p))
  BY <1>0, <1>5 DEF Launch, Tick, Stop, LoopEnds, LoopEndsAt, CloseDB, Exit, Gone, backend
<1> QED
  BY <1>1, <1>2, <1>3, <1>4, <1>5 DEF ProcStep

(* Whoever is about to acknowledge an init is the only one, and the first. *)
LEMMA AckAheadStep ==
  ASSUME IInv, NEW p \in Proc, ProcStep(p)
  PROVE  AckAhead'
<1>0. TypeOK /\ Phases /\ Envelopes /\ AckAhead
  BY DEF IInv
<1>1. \A q \in Proc \ {p} : pc'[q] = pc[q] /\ call'[q] = call[q] /\ batch'[q] = batch[q]
  BY <1>0, OthersKeep
\* Who is at "ack" has opened what is at hand, which is for nobody else.
<1>2. ASSUME NEW q \in Proc, pc[q] = "ack"
      PROVE  /\ call[q].me \in Did /\ AtHand(q) \in opened[call[q].me]
             /\ wire[AtHand(q)].to = call[q].me
  <2>1. call[q].me \in Did /\ AtHand(q) \in opened[call[q].me]
    BY <1>0, <1>2 DEF Phases, PhaseAt
  <2> QED
    BY <1>0, <2>1 DEF Envelopes
\* Who has just opened it is the first.
<1>3. ASSUME Opens(p)
      PROVE  /\ wire[AtHand(p)].to = call[p].me /\ call[p].me \in Did
             /\ AtHand(p) \notin opened[wire[AtHand(p)].to]
  BY <1>3 DEF Opens, Readable
<1>4. ASSUME NEW m \in Msg, wire'[Ack(m)] # None
      PROVE  Text(m) \in opened'[wire'[Text(m)].to]
  <2>1. Text(m) \in Id /\ Ack(m) \in Id
    BY IdFacts
  <2>2. wire[Text(m)] # None /\ Text(m) \in opened[wire[Text(m)].to]
    <3>1. CASE wire[Ack(m)] # None
      BY <1>0, <3>1 DEF AckAhead, Envelopes
    <3>2. CASE wire[Ack(m)] = None
      <4>1. pc[p] = "ack" /\ AtHand(p) = Text(m) /\ wire[Text(m)] # None
        BY <1>4, <2>1, <3>2, NewEnvelope, IdFacts
      <4> QED
        BY <1>2, <4>1
    <3> QED
      BY <3>1, <3>2
  <2>3. wire'[Text(m)] = wire[Text(m)] /\ wire[Text(m)].to \in Did
    BY <1>0, <2>1, <2>2, WireStep DEF TypeOK, Wire
  <2> QED
    BY <2>2, <2>3, Grows
<1>5. ASSUME NEW q \in Proc, NEW m \in Msg, pc'[q] = "ack", Head(batch'[q]) = Text(m)
      PROVE  wire'[Ack(m)] = None
  <2>1. CASE q # p
    <3>1. pc[q] = "ack" /\ AtHand(q) = Text(m)
      BY <1>1, <1>5, <2>1 DEF AtHand
    <3>2. wire[Ack(m)] = None
      BY <1>0, <3>1 DEF AckAhead
    <3>3. wire'[Ack(m)] # wire[Ack(m)] => pc[p] = "ack" /\ AtHand(p) = Text(m)
      BY NewEnvelope, IdFacts
    <3> QED
      BY <1>0, <2>1, <3>1, <3>2, <3>3 DEF AckAhead
  <2>2. CASE q = p
    <3>1. AtHand(p) = Text(m)
      BY <1>5, <2>2, HandStep DEF AtHand
    <3>2. CASE pc[p] = "ack" /\ UNCHANGED wire
      BY <1>0, <3>1, <3>2 DEF AckAhead
    <3>3. CASE Opens(p) /\ UNCHANGED wire
      BY <1>0, <1>3, <3>1, <3>3 DEF AckAhead
    <3> QED
      BY <1>5, <2>2, <3>2, <3>3, HandStep
  <2> QED
    BY <2>1, <2>2
<1>6. ASSUME NEW q \in Proc, q # p, pc'[q] = "ack", pc'[p] = "ack",
             Head(batch'[p]) = Head(batch'[q])
      PROVE  FALSE
  <2>1. pc[q] = "ack" /\ AtHand(p) = AtHand(q)
    BY <1>1, <1>6, HandStep DEF AtHand
  <2>2. CASE pc[p] = "ack"
    BY <1>0, <1>6, <2>1, <2>2 DEF AckAhead
  <2>3. CASE Opens(p)
    BY <1>2, <1>3, <2>1, <2>3
  <2> QED
    BY <1>6, <2>2, <2>3, HandStep
<1>7. ASSUME NEW q \in Proc, NEW r \in Proc, pc'[q] = "ack", pc'[r] = "ack",
             Head(batch'[q]) = Head(batch'[r])
      PROVE  q = r
  <2>1. CASE q # p /\ r # p
    BY <1>0, <1>1, <1>7, <2>1 DEF AckAhead, AtHand
  <2> QED
    BY <1>6, <1>7, <2>1
<1> QED
  BY <1>4, <1>5, <1>7 DEF AckAhead, AtHand

\* Where the sessions of a come from: from before, from a send that begins
\* one, or from what is opened.
LEMMA SessionsFrom ==
  ASSUME IInv, NEW p \in Proc, ProcStep(p), NEW a \in Did, NEW s \in session'[a]
  PROVE  \/ \E t \in session[a] : t.id = s.id
         \/ Keeps(p) /\ s.id = call[p].id
         \/ \E m \in Msg : s.id = m /\ wire[Text(m)] # None
<1>0. TypeOK /\ Envelopes
  BY DEF IInv
<1>1. CASE UNCHANGED session
  BY <1>1
<1>2. CASE Keeps(p)
  <2>1. s \in session[a] \/ s = [id |-> call[p].id, peer |-> call[p].to, open |-> FALSE]
    BY <1>0, <1>2 DEF Keeps, Kept, TypeOK
  <2> QED
    BY <1>2, <2>1
<1>3. CASE Opens(p)
  <2> DEFINE i == AtHand(p)
             w == wire[i]
  <2>1. /\ i \in Id /\ w # None /\ call[p].me \in Did /\ Readable(call[p].me, i)
        /\ session' = [session EXCEPT ![call[p].me] = Advanced(call[p].me, i)]
    BY <1>3 DEF Opens, Accepteds
  <2>2. \/ s \in session[a]
        \/ a = call[p].me /\ s = [id |-> w.session, peer |-> w.from, open |-> TRUE]
    BY <1>0, <2>1 DEF Advanced, TypeOK
  <2>3. ASSUME w.init PROVE \E m \in Msg : w.session = m /\ wire[Text(m)] # None
    <3>1. ASSUME NEW m \in Msg, i = Ack(m) PROVE FALSE
      <4>1. PICK n \in Msg : w = Answer(m, n)
        BY <1>0, <2>1, <3>1 DEF Envelopes
      <4> QED
        BY <2>3, <4>1 DEF Answer
    <3>2. PICK m \in Msg : i = Text(m)
      BY <2>1, <3>1, IdFacts
    <3> QED
      BY <1>0, <2>1, <2>3, <3>2 DEF Envelopes
  <2>4. ASSUME ~w.init PROVE \E t \in session[call[p].me] : t.id = w.session
    BY <2>1, <2>4 DEF Readable
  <2> HIDE DEF w, i
  <2> QED
    BY <2>2, <2>3, <2>4
<1> QED
  BY <1>1, <1>2, <1>3, DiskStep

(* A session's id is never that of a send which is still to be encrypted.  *)
LEMMA SessionIdsStep ==
  ASSUME IInv, NEW p \in Proc, ProcStep(p)
  PROVE  SessionIds'
<1>0. TypeOK /\ Phases /\ Ids /\ SessionIds
  BY DEF IInv
<1>1. drawn \subseteq drawn'
  BY CallStep DEF Draws, Drops, GoesOn
<1>2. \A q \in Proc \ {p} : pc'[q] = pc[q] /\ call'[q] = call[q]
  BY <1>0, OthersKeep
<1> SUFFICES ASSUME NEW a \in Did, NEW s \in session'[a]
             PROVE  /\ s.id \in drawn
                    /\ \A q \in Proc : call'[q].op = "send" /\ pc'[q] # "store"
                                         => call'[q].id # s.id
  BY <1>1 DEF SessionIds
<1>3. ASSUME NEW t \in session[a], t.id = s.id
      PROVE  /\ s.id \in drawn
             /\ \A q \in Proc : call'[q].op = "send" /\ pc'[q] # "store" => call'[q].id # s.id
  <2>1. s.id \in drawn
    BY <1>0, <1>3 DEF SessionIds
  <2>2. ASSUME NEW q \in Proc, q # p, call'[q].op = "send", pc'[q] # "store"
        PROVE  call'[q].id # s.id
    BY <1>0, <1>2, <1>3, <2>2 DEF SessionIds
  <2>3. ASSUME call'[p].op = "send", pc'[p] # "store"
        PROVE  call'[p].id # s.id
    <3>1. CASE Draws(p)
      BY <2>1, <3>1 DEF Draws
    <3>2. CASE GoesOn(p)
      <4>1. call'[p] = call[p]
        BY <3>2 DEF GoesOn
      <4>2. pc[p] # "store"
        BY <4>1, StoreEnds
      <4> QED
        BY <1>0, <1>3, <2>3, <4>1, <4>2 DEF SessionIds
    <3> QED
      BY <2>3, <3>1, <3>2, CallStep DEF Drops
  <2> QED
    BY <2>1, <2>2, <2>3
<1>4. CASE Keeps(p) /\ s.id = call[p].id
  <2>1. /\ PhaseAt(p) /\ IdAt(p) /\ pc[p] = "encrypt" /\ (EncryptInit(p) \/ FailEncrypt(p))
    BY <1>0, <1>4 DEF Phases, Ids, Keeps
  <2>2. call[p].op = "send" /\ call[p].id \in drawn /\ p \notin Listener
    BY <2>1 DEF PhaseAt, IdAt
  <2>3. ASSUME NEW q \in Proc, q # p PROVE call'[q].id # s.id
    BY <1>2, <1>4, <2>1, <2>2, <2>3 DEF IdAt
  <2>4. pc'[p] = "store" \/ call'[p].op # "send"
    <3>1. CASE EncryptInit(p)
      BY <1>0, <3>1 DEF EncryptInit, Goto, TypeOK
    <3>2. CASE FailEncrypt(p)
      <4>1. call' = [call EXCEPT ![p] = NoCall]
        BY <2>2, <3>2 DEF FailEncrypt, Return, Gone
      <4> QED
        BY <1>0, <4>1 DEF NoCall, TypeOK
    <3> QED
      BY <2>1, <3>1, <3>2
  <2> QED
    BY <1>4, <2>2, <2>3, <2>4
<1>5. ASSUME NEW m \in Msg, s.id = m, wire[Text(m)] # None
      PROVE  /\ s.id \in drawn
             /\ \A q \in Proc : call'[q].op = "send" /\ pc'[q] # "store" => call'[q].id # s.id
  <2>1. m \in drawn
    BY <1>0, <1>5 DEF Ids
  <2>2. wire'[Text(m)] # None
    BY <1>5, WireStep, IdFacts
  <2>3. ASSUME NEW q \in Proc, call'[q].op = "send", pc'[q] # "store"
        PROVE  wire'[Text(call'[q].id)] = None
    <3>1. Ids'
      BY IdsStep
    <3> QED
      BY <2>3, <3>1 DEF Ids, IdAt
  <2> QED
    BY <1>5, <2>1, <2>2, <2>3
<1> QED
  BY <1>3, <1>4, <1>5, SessionsFrom

(* The invariant holds at first.                                         *)
LEMMA InitIInv == Init => IInv
<1> SUFFICES ASSUME Init PROVE IInv
  OBVIOUS
<1>1. TypeOK
  BY NoCallType, EmptySeq, SecureAssumption DEF Init, TypeOK
<1>2. Phases
  BY DEF Init, Phases, PhaseAt, NoCall
<1>3. \A m \in Msg : wire[Text(m)] = None /\ wire[Ack(m)] = None
  BY IdFacts DEF Init
<1>4. \A a \in Did, m \in Msg : row[a][Text(m)] = "none"
  BY IdFacts DEF Init
<1>5. Ids
  BY <1>3 DEF Init, Ids, IdAt, NoCall
<1>6. Envelopes
  BY <1>3, <1>4 DEF Init, Envelopes, Accepteds
<1>7. AckAhead /\ SessionIds
  BY <1>3 DEF Init, AckAhead, SessionIds
<1> QED
  BY <1>1, <1>2, <1>5, <1>6, <1>7 DEF IInv

(* The first layer of the invariant holds of every state.                *)
THEOREM InductiveInvariant == Spec => []IInv
<1>1. IInv /\ [Next]_vars => IInv'
  <2>1. CASE Next
    BY <2>1, NextCases, TypeStep, PhaseStep, IdsStep, EnvelopesStep, AckAheadStep,
       SessionIdsStep DEF IInv
  <2>2. CASE UNCHANGED vars
    <3>1. IInv => TypeOK' /\ Phases' /\ Ids'
      BY <2>2 DEF vars, backend, disk, process, IInv, TypeOK, Phases, PhaseAt, AtHand, Ids, IdAt
    <3>2. IInv => Envelopes' /\ AckAhead' /\ SessionIds'
      BY <2>2 DEF vars, backend, disk, process, IInv, Envelopes, Accepteds, Answer, AckAhead,
         AtHand, SessionIds
    <3> QED
      BY <3>1, <3>2 DEF IInv
  <2> QED
    BY <2>1, <2>2
<1> QED
  BY <1>1, InitIInv, PTL DEF Spec

(* The types, for any workspaces, receivers and messages.                *)
THEOREM TypeCorrect == Spec => []TypeOK
<1>1. IInv => TypeOK
  BY DEF IInv
<1> QED
  BY <1>1, InductiveInvariant, PTL

-----------------------------------------------------------------------------
(* Whoever has opened an envelope and has no service among the receivers    *)
(* does with it what the next two theorems need.                            *)
Calm == Steady /\ may.service = {} /\ \A l \in Listener : life[l] # "closed"

(* Without a service nothing closes the database under a sync.           *)
LEMMA CalmStep ==
  ASSUME Steady, may.service = {}, \A l \in Listener : life[l] # "closed",
         TypeOK, NEW p \in Proc, ProcStep(p)
  PROVE  \A l \in Listener : life'[l] # "closed"
<1>1. \A l \in Listener : l # p => life'[l] = life[l]
  BY OthersKeep, SecureAssumption
<1>2. ASSUME p \in Listener PROVE life'[p] # "closed"
  <2>1. ~CloseDB(p)
    BY DEF CloseDB, Service
  <2>2. life' = life \/ \E v \in {"off", "running", "stopping"} : life' = [life EXCEPT ![p] = v]
                     \/ life' = [l \in Listener |-> IF l = p THEN "off" ELSE life[l]]
    BY <2>1 DEF ProcStep, StartInit, StartSend, StartSync, Begin, Register, Publish, EncryptInit,
         EncryptCipher, EncryptWithin, RefusedEncrypt, StoreSent, Fetch, RefusedFetch, Open,
         OpenThen, SkipRow, PassOver, SendAck, RefusedAck, StoreRow, EndSync, Fail, CallFails,
         FailEncrypt, FailOpen, FailAck, FailRow, Crash, Launch, Tick, Stop, LoopEnds, LoopEndsAt, Exit
  <2> QED
    BY <1>2, <2>2 DEF TypeOK
<1> QED
  BY <1>1, <1>2

(* Whoever has opened a text answers it, stores it or does nothing.      *)
LEMMA OpenedStep ==
  ASSUME Calm, IInv, NEW p \in Proc, ProcStep(p), pc[p] \in {"ack", "row"}
  PROVE  \/ /\ SendAck(p) \/ RefusedAck(p)
            /\ pc[p] = "ack" /\ pc'[p] = "row" /\ UNCHANGED <<call, batch>>
         \/ StoreRow(p) /\ pc[p] = "row"
         \/ UNCHANGED <<pc, call, batch, wire, row, opened>>
<1>0. TypeOK
  BY DEF IInv
<1>1. ~Fault(p, may.fail) /\ ~Fault(p, may.die)
  BY DEF Calm, Steady, Fault
<1>2. p \in Listener => ~CloseDB(p) /\ ~Exit(p)
  BY DEF Calm, CloseDB, Service, Exit
<1>3. SendAck(p) \/ RefusedAck(p) =>
        pc[p] = "ack" /\ pc'[p] = "row" /\ UNCHANGED <<call, batch>>
  BY <1>0 DEF SendAck, RefusedAck, Goto, TypeOK
<1>4. StoreRow(p) => pc[p] = "row"
  BY DEF StoreRow, Goto
<1>5. Stop(p) => UNCHANGED <<pc, call, batch, wire, row, opened>>
  BY DEF Stop, backend, disk
<1>6. SendAck(p) \/ RefusedAck(p) \/ StoreRow(p) \/ Stop(p)
  BY <1>1, <1>2
     DEF ProcStep, StartInit, StartSend, StartSync, Begin, Register, Publish, EncryptInit,
         EncryptCipher, EncryptWithin, RefusedEncrypt, StoreSent, Fetch, RefusedFetch, Open,
         OpenThen, SkipRow, PassOver, EndSync, Fail, CallFails, FailEncrypt,
         FailOpen, FailAck, FailRow, Crash, Launch, Tick, LoopEnds, LoopEndsAt, Goto
<1> QED
  BY <1>3, <1>4, <1>5, <1>6

\* What a process that opens a text does next.
LEMMA TextOpened ==
  ASSUME IInv, NEW p \in Proc, Opens(p), NEW m \in Msg, AtHand(p) = Text(m)
  PROVE  /\ pc'[p] = IF wire[Text(m)].init THEN "ack" ELSE "row"
         /\ call'[p] = call[p] /\ batch'[p] = batch[p] /\ wire' = wire
<1>0. TypeOK
  BY DEF IInv
<1>1. Follows(AtHand(p)) = IF wire[Text(m)].init THEN "ack" ELSE "row"
  BY IdFacts DEF Follows, Opens
<1>2. OpenThen(p, Follows(AtHand(p)))
  BY DEF Opens, Open
<1> QED
  BY <1>0, <1>1, <1>2 DEF OpenThen, Goto, TypeOK, backend

\* An envelope's reader is who has just opened it, or had.
LEMMA WhoOpens ==
  ASSUME IInv, NEW p \in Proc, ProcStep(p), NEW a \in Did, NEW i \in opened'[a]
  PROVE  i \in opened[a] \/ (Opens(p) /\ call[p].me = a /\ AtHand(p) = i)
<1>0. TypeOK
  BY DEF IInv
<1>1. CASE Opens(p)
  BY <1>0, <1>1 DEF Opens, TypeOK
<1> QED
  BY <1>1, DiskStep DEF Keeps

(* Every step keeps an opened text stored or at hand.                    *)
LEMMA StoredStep ==
  ASSUME Calm, IInv, \A a \in Did : Stored(a), NEW p \in Proc, ProcStep(p)
  PROVE  \A a \in Did : Stored(a)'
<1>0. TypeOK /\ IdAt(p) /\ PhaseAt(p) /\ Envelopes
  BY DEF IInv, Ids, Phases
<1> SUFFICES ASSUME NEW a \in Did, NEW m \in Msg, Text(m) \in opened'[a]
             PROVE  row'[a][Text(m)] = "in" \/ Handled(a, Text(m))'
  BY DEF Stored
<1> DEFINE i == Text(m)
<1>1. i \in Id
  BY IdFacts
<1>2. CASE i \notin opened[a]
  <2>1. Opens(p) /\ call[p].me = a /\ AtHand(p) = i
    BY <1>2, WhoOpens
  <2>2. pc'[p] \in {"ack", "row"} /\ call'[p] = call[p] /\ batch'[p] = batch[p]
    BY <2>1, TextOpened
  <2> QED
    BY <2>1, <2>2 DEF Handled, AtHand
<1>3. CASE i \in opened[a]
  \* It is from somebody else, so it is not recorded as sent.
  <2>1. wire[i] # None /\ wire[i].to = a /\ wire[i].from # a
    BY <1>0, <1>1, <1>3 DEF Envelopes, Accepteds
  <2>2. row[a][i] # "out"
    BY <1>0, <2>1 DEF Envelopes
  <2>3. CASE row[a][i] = "in"
    <3>1. CASE UNCHANGED row
      BY <2>3, <3>1
    <3>2. CASE Writes(p)
      <4>1. ~(StoreSent(p) /\ pc[p] = "store" /\ call[p].me = a /\ Text(call[p].id) = i)
        BY <1>0, <2>1 DEF IdAt
      <4>2. CASE /\ StoreSent(p) /\ pc[p] = "store" /\ call[p].id \in Msg
                 /\ row' = [row EXCEPT ![call[p].me][Text(call[p].id)] = "out"]
        BY <1>0, <1>1, <2>3, <4>1, <4>2, IdFacts, <3>2 DEF TypeOK, Writes
      <4>3. CASE row' = [row EXCEPT ![call[p].me][AtHand(p)] =
                           IF @ = "none" THEN "in" ELSE @]
        BY <1>0, <1>1, <2>3, <4>3, <3>2 DEF TypeOK, Writes
      <4> QED
        BY <3>2, <4>2, <4>3 DEF Writes
    <3> QED
      BY <3>1, <3>2, DiskStep
  <2>4. CASE row[a][i] # "in"
    <3>1. PICK q \in Proc : pc[q] \in {"ack", "row"} /\ call[q].me = a /\ AtHand(q) = i
      BY <1>3, <2>4 DEF Stored, Handled
    <3>2. CASE q # p
      <4>1. pc'[q] = pc[q] /\ call'[q] = call[q] /\ batch'[q] = batch[q]
        BY <1>0, <3>2, OthersKeep
      <4> QED
        BY <3>1, <4>1 DEF Handled, AtHand
    <3>3. CASE q = p
      <4>1. CASE pc'[p] = "row" /\ UNCHANGED <<call, batch>>
        BY <3>1, <3>3, <4>1 DEF Handled, AtHand
      <4>2. CASE UNCHANGED <<pc, call, batch>>
        BY <3>1, <3>3, <4>2 DEF Handled, AtHand
      <4>3. CASE StoreRow(p)
        <5>1. ~Closed(p)
          BY DEF Closed, Calm
        <5>2. row' = [row EXCEPT ![a][i] = IF @ = "none" THEN "in" ELSE @]
          BY <3>1, <3>3, <4>3, <5>1 DEF StoreRow
        <5>3. row[a][i] = "none"
          BY <1>0, <1>1, <2>2, <2>4 DEF TypeOK
        <5> QED
          BY <1>0, <1>1, <5>2, <5>3 DEF TypeOK
      <4> QED
        BY <3>1, <3>3, <4>1, <4>2, <4>3, OpenedStep
    <3> QED
      BY <3>2, <3>3
  <2> QED
    BY <2>3, <2>4
<1> QED
  BY <1>2, <1>3

(* A session whose text this side has not opened is one it has begun; a    *)
(* pending one is.                                                         *)
Owned == \A a \in Did : \A s \in session[a] :
  /\ Text(s.id) \notin opened[a] => wire[Text(s.id)] = None \/ wire[Text(s.id)].from = a
  /\ ~s.open => Text(s.id) \notin opened[a]

(* Every step keeps the pending sessions those that were begun here.       *)
LEMMA OwnedStep ==
  ASSUME IInv, Owned, NEW p \in Proc, ProcStep(p)
  PROVE  Owned'
<1>0. TypeOK /\ Envelopes /\ SessionIds
  BY DEF IInv
<1> SUFFICES ASSUME NEW a \in Did, NEW s \in session'[a]
             PROVE  /\ Text(s.id) \notin opened'[a] =>
                         wire'[Text(s.id)] = None \/ wire'[Text(s.id)].from = a
                    /\ ~s.open => Text(s.id) \notin opened'[a]
  BY DEF Owned
\* A session that was there is still one this side has begun, if it was.
<1>1. ASSUME NEW t \in session[a], t.id = s.id
      PROVE  Text(s.id) \notin opened[a] =>
               /\ Text(s.id) \notin opened'[a]
               /\ wire'[Text(s.id)] = None \/ wire'[Text(s.id)].from = a
  <2> SUFFICES ASSUME Text(s.id) \notin opened[a]
               PROVE  /\ Text(s.id) \notin opened'[a]
                      /\ wire'[Text(s.id)] = None \/ wire'[Text(s.id)].from = a
    OBVIOUS
  <2>1. wire[Text(s.id)] = None \/ wire[Text(s.id)].from = a
    BY <1>1 DEF Owned
  <2>2. s.id \in Msg /\ Text(s.id) \in Id
    BY <1>0, <1>1, IdFacts DEF TypeOK
  <2>3. Text(s.id) \notin opened'[a]
    <3>1. ASSUME Text(s.id) \in opened'[a] PROVE FALSE
      <4>1. Opens(p) /\ call[p].me = a /\ AtHand(p) = Text(s.id)
        BY <3>1, WhoOpens
      <4>2. Text(s.id) \in Accepteds /\ wire[Text(s.id)].to = a
        BY <4>1 DEF Opens, Readable
      <4> QED
        BY <1>0, <2>1, <4>2 DEF Envelopes, Accepteds
    <3> QED
      BY <3>1
  <2>4. CASE wire'[Text(s.id)] = wire[Text(s.id)]
    BY <2>1, <2>3, <2>4
  <2>5. CASE wire'[Text(s.id)] # wire[Text(s.id)]
    <3>1. pc[p] = "encrypt" /\ call[p].id = s.id
      BY <2>2, <2>5, NewEnvelope, IdFacts
    <3>2. call[p].op = "send" /\ call[p].id # t.id
      BY <1>0, <3>1 DEF IInv, Phases, PhaseAt, SessionIds
    <3> QED
      BY <1>1, <3>1, <3>2
  <2> QED
    BY <2>4, <2>5
<1>2. CASE s \in session[a]
  <2>1. ~s.open => Text(s.id) \notin opened[a]
    BY <1>2 DEF Owned
  <2> QED
    BY <1>1, <1>2, <2>1, Grows
<1>3. CASE s \notin session[a] /\ Keeps(p)
  <2>1. a = call[p].me /\ s.id = call[p].id /\ opened' = opened
    BY <1>0, <1>3 DEF Keeps, Kept, TypeOK
  <2>2. pc[p] = "encrypt" /\ call[p].op = "send" /\ call[p].id \in Msg
        /\ wire[Text(call[p].id)] = None
    BY <1>0, <1>3 DEF Keeps, IInv, Phases, PhaseAt, Ids, IdAt, TypeOK
  <2>3. Text(s.id) \notin opened[a] /\ Text(s.id) \in Id
    BY <1>0, <2>1, <2>2, IdFacts DEF Envelopes
  <2>4. wire'[Text(s.id)] = None \/ wire'[Text(s.id)].from = a
    BY <2>1, <2>2, <2>3, NewEnvelope
  <2> QED
    BY <2>1, <2>3, <2>4
<1>4. CASE s \notin session[a] /\ Opens(p)
  <2> DEFINE i == AtHand(p)
             w == wire[i]
  <2>1. /\ a = call[p].me /\ s = [id |-> w.session, peer |-> w.from, open |-> TRUE]
    BY <1>0, <1>4 DEF Opens, Advanced, TypeOK
  <2>2. /\ i \in Id /\ w # None /\ Readable(a, i)
        /\ opened' = [opened EXCEPT ![a] = @ \cup {i}]
    BY <1>4, <2>1 DEF Opens, Accepteds
  <2>3. s.id = w.session /\ s.open
    BY <2>1
  <2>4. CASE w.init
    <3>1. i = Text(w.session)
      <4>1. ASSUME NEW m \in Msg, i = Ack(m) PROVE FALSE
        <5>1. PICK n \in Msg : w = Answer(m, n)
          BY <1>0, <2>2, <4>1 DEF Envelopes
        <5> QED
          BY <2>4, <5>1 DEF Answer
      <4>2. PICK m \in Msg : i = Text(m)
        BY <2>2, <4>1, IdFacts
      <4> QED
        BY <1>0, <2>2, <2>4, <4>2 DEF Envelopes
    <3>2. i \in opened'[a]
      BY <1>0, <2>2 DEF TypeOK
    <3> HIDE DEF w, i
    <3> QED
      BY <2>3, <3>1, <3>2
  <2>5. CASE ~w.init
    <3>1. PICK t \in session[a] : t.id = w.session
      BY <2>2, <2>5 DEF Readable
    <3> HIDE DEF w, i
    <3> QED
      BY <1>1, <2>3, <3>1, Grows
  <2> QED
    BY <2>4, <2>5
<1> QED
  BY <1>2, <1>3, <1>4, DiskStep

LEMMA OwnedAlways == Spec => []Owned
<1>1. Init => Owned
  BY DEF Init, Owned
<1>2. IInv /\ Owned /\ [Next]_vars => Owned'
  <2>1. ASSUME IInv, Owned, Next PROVE Owned'
    BY <2>1, NextCases, OwnedStep
  <2>2. CASE UNCHANGED vars
    BY <2>2 DEF vars, backend, disk, Owned
  <2> QED
    BY <2>1, <2>2
<1> QED
  BY <1>1, <1>2, InductiveInvariant, PTL DEF Spec

AnsweredFor(a, m) ==
  \/ wire[Ack(m)] # None
  \/ \E p \in Proc : pc[p] = "ack" /\ call[p].me = a /\ AtHand(p) = Text(m)
  \/ HasBegun(a, wire[Text(m)].from)
Answered == \A a \in Did, m \in Msg :
              Text(m) \in opened[a] /\ wire[Text(m)].init => AnsweredFor(a, m)

(* Every step keeps an opened init answered or about to be.              *)
LEMMA AnsweredStep ==
  ASSUME Calm, IInv, Owned, Answered, NEW p \in Proc, ProcStep(p)
  PROVE  Answered'
<1>0. TypeOK /\ Envelopes
  BY DEF IInv
<1> SUFFICES ASSUME NEW a \in Did, NEW m \in Msg, Text(m) \in opened'[a], wire'[Text(m)].init
             PROVE  AnsweredFor(a, m)'
  BY DEF Answered
<1>1. Text(m) \in Id /\ Ack(m) \in Id
  BY IdFacts
<1>2. CASE Text(m) \notin opened[a]
  <2>1. Opens(p) /\ call[p].me = a /\ AtHand(p) = Text(m)
    BY <1>2, WhoOpens
  <2>2. pc'[p] = "ack" /\ call'[p] = call[p] /\ batch'[p] = batch[p]
    BY <2>1, TextOpened
  <2> QED
    BY <2>1, <2>2 DEF AnsweredFor, AtHand
<1>3. CASE Text(m) \in opened[a]
  <2>1. wire[Text(m)] # None /\ wire'[Text(m)] = wire[Text(m)]
    BY <1>0, <1>1, <1>3, WireStep DEF Envelopes
  <2>2. AnsweredFor(a, m)
    BY <1>3, <2>1 DEF Answered
  <2>3. CASE wire[Ack(m)] # None
    BY <1>1, <2>3, WireStep DEF AnsweredFor
  <2>4. ASSUME NEW q \in Proc, pc[q] = "ack", call[q].me = a, AtHand(q) = Text(m)
        PROVE  AnsweredFor(a, m)'
    <3>1. CASE q # p
      <4>1. pc'[q] = pc[q] /\ call'[q] = call[q] /\ batch'[q] = batch[q]
        BY <1>0, <3>1, OthersKeep
      <4> QED
        BY <2>4, <4>1 DEF AnsweredFor, AtHand
    <3>2. CASE q = p /\ UNCHANGED <<pc, call, batch>>
      BY <2>4, <3>2 DEF AnsweredFor, AtHand
    <3>3. CASE q = p /\ SendAck(p)
      <4>1. PICK n \in Msg : AcksIn(p, n)
        BY <3>3, AckDelivers
      <4>2. n = m
        BY <2>4, <3>3, <4>1, IdFacts DEF AcksIn
      <4>3. PICK s \in Usable(a, wire[Text(m)].from) :
              Accepted(Ack(m), Answer(m, s.id)) /\ Answer(m, s.id) \in Wire
        BY <2>4, <3>3, <4>1, <4>2 DEF AcksIn
      <4>4. wire'[Ack(m)] # None
        BY <1>0, <1>1, <4>3, AcceptedEffect
      <4> QED
        BY <4>4 DEF AnsweredFor
    <3>4. CASE q = p /\ RefusedAck(p)
      <4>1. PICK s \in session[a] : s.peer = wire[Text(m)].from /\ ~s.open
        BY <2>4, <3>4 DEF RefusedAck, Usable
      <4>2. Text(s.id) \notin opened[a]
        BY <4>1 DEF Owned
      <4>3. UNCHANGED <<session, opened, wire>>
        BY <3>4 DEF RefusedAck, disk, backend
      <4>4. HasBegun(a, wire[Text(m)].from)'
        BY <4>1, <4>2, <4>3 DEF HasBegun
      <4> QED
        BY <4>4 DEF AnsweredFor
    <3> QED
      BY <2>4, <3>1, <3>2, <3>3, <3>4, OpenedStep
  <2>5. ASSUME HasBegun(a, wire[Text(m)].from)
        PROVE  AnsweredFor(a, m)'
    <3>1. PICK s \in session[a] : s.peer = wire[Text(m)].from /\ Text(s.id) \notin opened[a]
      BY <2>5 DEF HasBegun
    <3>2. Has(a, wire[Text(m)].from, s.id)
      BY <3>1 DEF Has
    <3>3. PICK t \in session'[a] : t.peer = wire[Text(m)].from /\ t.id = s.id
      <4>1. \A peer, id : Has(a, peer, id) => \E t \in session'[a] : t.peer = peer /\ t.id = id
        BY Grows DEF Has
      <4> QED
        BY <3>2, <4>1
    <3>4. Text(s.id) \notin opened'[a]
      <4>1. ASSUME Text(s.id) \in opened'[a] PROVE FALSE
        <5>1. Opens(p) /\ call[p].me = a /\ AtHand(p) = Text(s.id)
          BY <3>1, <4>1, WhoOpens
        <5>2. Text(s.id) \in Accepteds /\ wire[Text(s.id)].to = a
          BY <5>1 DEF Opens, Readable
        <5>3. wire[Text(s.id)] = None \/ wire[Text(s.id)].from = a
          BY <3>1 DEF Owned
        <5> QED
          BY <1>0, <5>2, <5>3 DEF Envelopes, Accepteds
      <4> QED
        BY <4>1
    <3>5. HasBegun(a, wire[Text(m)].from)'
      BY <2>1, <3>3, <3>4 DEF HasBegun
    <3> QED
      BY <3>5 DEF AnsweredFor
  <2> QED
    BY <2>2, <2>3, <2>4, <2>5 DEF AnsweredFor
<1> QED
  BY <1>2, <1>3

CalmInv ==
  Steady /\ may.service = {} =>
    /\ \A l \in Listener : life[l] # "closed"
    /\ \A a \in Did : Stored(a)
    /\ Answered

(* The second layer of the invariant.                                    *)
LEMMA CalmInvariant == Spec => []CalmInv
<1>1. Init => CalmInv
  <2> SUFFICES ASSUME Init PROVE CalmInv
    OBVIOUS
  <2>1. \A a \in Did : opened[a] = {}
    BY DEF Init
  <2>2. \A l \in Listener : life[l] # "closed"
    BY DEF Init
  <2> QED
    BY <2>1, <2>2 DEF CalmInv, Stored, Answered
<1>2. IInv /\ Owned /\ CalmInv /\ [Next]_vars => CalmInv'
  <2>1. CASE UNCHANGED vars
    BY <2>1 DEF vars, backend, disk, process, CalmInv, Steady, Stored, Handled, AtHand,
       Answered, AnsweredFor, HasBegun
  <2>2. ASSUME IInv, Owned, CalmInv, Next PROVE CalmInv'
    <3>1. PICK p \in Proc : ProcStep(p)
      BY <2>2, NextCases
    <3>2. may' = may
      BY <3>1, ScenarioStays
    <3> SUFFICES ASSUME Steady, may.service = {}
                 PROVE  /\ \A l \in Listener : life'[l] # "closed"
                        /\ \A a \in Did : Stored(a)'
                        /\ Answered'
      BY <3>2 DEF CalmInv, Steady
    <3>3. Calm /\ (\A a \in Did : Stored(a)) /\ Answered
      BY <2>2 DEF CalmInv, Calm
    <3>4. \A l \in Listener : life'[l] # "closed"
      BY <2>2, <3>1, <3>3, CalmStep DEF Calm, IInv
    <3>5. \A a \in Did : Stored(a)'
      BY <2>2, <3>1, <3>3, StoredStep
    <3>6. Answered'
      BY <2>2, <3>1, <3>3, AnsweredStep
    <3> QED
      BY <3>4, <3>5, <3>6
  <2> QED
    BY <2>1, <2>2
<1> QED
  BY <1>1, <1>2, InductiveInvariant, OwnedAlways, PTL DEF Spec

(* service.go 250-252, 314-348, runtime.go 56-67: a text whose one-time  *)
(* key is used up, where the database can be written and no service      *)
(* runs, is in the database or in the hands of the sync that stores it   *)
(* next, for any number of workspaces, commands and receivers that are   *)
(* told to stop at any moment.                                           *)
THEOREM OpenedTextsAreStored == Spec => []OpenedAreStored
<1>1. CalmInv => OpenedAreStored
  BY DEF CalmInv, OpenedAreStored
<1> QED
  BY <1>1, CalmInvariant, PTL

(* service.go 296-298, 417-425: under the same conditions an init that   *)
(* has been opened is answered before its row or anything after it can   *)
(* fail, unless a session begun here with the same peer, for which the   *)
(* answer may be refused, is in its way.                                 *)
THEOREM InitsAreAcknowledged == Spec => []Acknowledged
<1>1. CalmInv => Acknowledged
  BY DEF CalmInv, Acknowledged, Answered, AnsweredFor
<1> QED
  BY <1>1, CalmInvariant, PTL

-----------------------------------------------------------------------------
(* Both ends of a session have it: the sender of every envelope, the        *)
(* recipient of all but the inits, and the peer of whoever takes it as      *)
(* confirmed.                                                               *)
SessionsInv ==
  "encrypt" \notin may.fail =>
    /\ \A i \in Accepteds : Has(wire[i].from, wire[i].to, wire[i].session)
    /\ \A i \in Accepteds : ~wire[i].init => Has(wire[i].to, wire[i].from, wire[i].session)
    /\ \A a \in Did : \A s \in session[a] : s.open => Has(s.peer, a, s.id)
    /\ \A a \in Did : \A i \in opened[a] : Has(a, wire[i].from, wire[i].session)

(* Every step keeps both ends of the sessions.                           *)
LEMMA SessionsStep ==
  ASSUME IInv, SessionsInv, "encrypt" \notin may.fail, NEW p \in Proc, ProcStep(p)
  PROVE  SessionsInv'
<1>0. TypeOK /\ PhaseAt(p) /\ IdAt(p) /\ Envelopes
  BY DEF IInv, Phases, Ids
<1>1. \A a \in Did : \A peer, id : Has(a, peer, id) => Has(a, peer, id)'
  BY Grows
<1>2. \A i \in Accepteds : wire'[i] = wire[i] /\ wire[i] \in Wire /\ i \in Id
  BY <1>0, WireStep DEF Accepteds, TypeOK
<1>3. ASSUME NEW i \in Id, wire'[i] # wire[i]
      PROVE  /\ Has(wire[i].from, wire[i].to, wire[i].session)'
             /\ ~wire'[i].init => Has(wire[i].to, wire[i].from, wire[i].session)'
  <2>1. CASE pc[p] = "encrypt"
    <3>1. /\ wire'[i].from = call[p].me /\ wire'[i].to = call[p].to
          /\ \/ /\ EncryptInit(p) \/ FailEncrypt(p)
                /\ wire'[i].init /\ wire'[i].session = call[p].id
             \/ /\ EncryptCipher(p) /\ ~wire'[i].init
                /\ \E s \in Usable(call[p].me, call[p].to) :
                     s.open /\ s.id = wire'[i].session
      BY <1>3, <2>1, NewEnvelope
    <3>2. ~FailEncrypt(p)
      BY <2>1 DEF FailEncrypt, Fault
    <3>3. call[p].me \in Did /\ call[p].to \in Did
      BY <1>0, <2>1 DEF PhaseAt, IdAt
    <3>4. CASE EncryptInit(p) /\ wire'[i].init /\ wire'[i].session = call[p].id
      <4> DEFINE t == [id |-> call[p].id, peer |-> call[p].to, open |-> FALSE]
      <4>1. t \in session'[call[p].me]
        BY <1>0, <3>3, <3>4 DEF EncryptInit, Kept, TypeOK
      <4>2. t.id = call[p].id /\ t.peer = call[p].to
        OBVIOUS
      <4> HIDE DEF t
      <4> QED
        BY <3>1, <3>4, <4>1, <4>2 DEF Has
    <3>5. CASE /\ EncryptCipher(p) /\ ~wire'[i].init
               /\ \E s \in Usable(call[p].me, call[p].to) : s.open /\ s.id = wire'[i].session
      <4>1. PICK s \in session[call[p].me] :
              s.peer = call[p].to /\ s.open /\ s.id = wire'[i].session
        BY <3>5 DEF Usable
      <4>2. Has(call[p].me, call[p].to, s.id) /\ Has(call[p].to, call[p].me, s.id)
        BY <3>3, <4>1 DEF SessionsInv, Has
      <4>3. Has(call[p].me, call[p].to, s.id) /\ Has(call[p].to, call[p].me, s.id)
            /\ session' = session
        BY <3>5, <4>2 DEF EncryptCipher, EncryptWithin, disk
      <4> QED
        BY <3>1, <4>1, <4>3 DEF Has
    <3> QED
      BY <3>1, <3>2, <3>4, <3>5
  <2>2. CASE pc[p] # "encrypt"
    <3>1. PICK m \in Msg :
            /\ pc[p] = "ack" /\ AtHand(p) = Text(m) /\ wire[Text(m)] # None
            /\ \E s \in Usable(call[p].me, wire[Text(m)].from) :
                 s.open /\ wire'[i] = Answer(m, s.id)
      BY <1>3, <2>2, NewEnvelope
    <3> DEFINE a == call[p].me
               b == wire[Text(m)].from
    <3>2. /\ a \in Did /\ wire[Text(m)].to = a /\ Text(m) \in Id
      BY <1>0, <3>1, IdFacts DEF PhaseAt, Envelopes
    <3>3. b \in Did
      BY <1>0, <3>1, <3>2 DEF TypeOK, Wire
    <3>4. PICK s \in session[a] : s.peer = b /\ s.open /\ wire'[i] = Answer(m, s.id)
      BY <3>1 DEF Usable
    <3>5. wire'[i].from = a /\ wire'[i].to = b /\ wire'[i].session = s.id
      BY <3>2, <3>4 DEF Answer
    <3>6. Has(a, b, s.id) /\ Has(b, a, s.id)
      BY <3>2, <3>4 DEF SessionsInv, Has
    <3>7. \A c, d : c \in Did /\ Has(c, d, s.id) =>
                      \E t \in session'[c] : t.peer = d /\ t.id = s.id
      BY <1>1 DEF Has
    <3> HIDE DEF a, b
    <3> QED
      BY <3>2, <3>3, <3>5, <3>6, <3>7 DEF Has
  <2> QED
    BY <2>1, <2>2
<1>4. \A i \in Accepteds' : Has(wire[i].from, wire[i].to, wire[i].session)'
  <2> SUFFICES ASSUME NEW i \in Accepteds', wire'[i] = wire[i]
               PROVE  Has(wire[i].from, wire[i].to, wire[i].session)'
    BY <1>3 DEF Accepteds
  <2>1. i \in Accepteds /\ wire[i].from \in Did
    BY <1>2 DEF Accepteds, Wire
  <2>2. Has(wire[i].from, wire[i].to, wire[i].session)
    BY <2>1 DEF SessionsInv
  <2>3. \A b, c : Has(wire[i].from, b, c) =>
                    \E s \in session'[wire[i].from] : s.peer = b /\ s.id = c
    BY <1>1, <2>1 DEF Has
  <2> QED
    BY <2>2, <2>3 DEF Has
<1>5. \A i \in Accepteds' : ~wire'[i].init => Has(wire[i].to, wire[i].from, wire[i].session)'
  <2> SUFFICES ASSUME NEW i \in Accepteds', wire'[i] = wire[i], ~wire[i].init
               PROVE  Has(wire[i].to, wire[i].from, wire[i].session)'
    BY <1>3 DEF Accepteds
  <2>1. i \in Accepteds /\ wire[i].to \in Did
    BY <1>2 DEF Accepteds, Wire
  <2>2. Has(wire[i].to, wire[i].from, wire[i].session)
    BY <2>1 DEF SessionsInv
  <2>3. \A b, c : Has(wire[i].to, b, c) =>
                    \E s \in session'[wire[i].to] : s.peer = b /\ s.id = c
    BY <1>1, <2>1 DEF Has
  <2> QED
    BY <2>2, <2>3 DEF Has
<1>6. ASSUME NEW a \in Did, NEW s \in session'[a], s.open PROVE Has(s.peer, a, s.id)'
  <2>1. CASE s \in session[a]
    <3>1. Has(s.peer, a, s.id) /\ s.peer \in Did
      BY <1>0, <1>6, <2>1 DEF SessionsInv, TypeOK
    <3> QED
      BY <1>1, <3>1
  <2>2. CASE s \notin session[a]
    <3>1. CASE Keeps(p)
      BY <1>0, <1>6, <2>2, <3>1 DEF Keeps, Kept, TypeOK
    <3>2. CASE Opens(p)
      <4> DEFINE w == wire[AtHand(p)]
      <4>1. /\ a = call[p].me /\ s = [id |-> w.session, peer |-> w.from, open |-> TRUE]
        BY <1>0, <1>6, <2>2, <3>2 DEF Opens, Advanced, TypeOK
      <4>2. w.to = a /\ AtHand(p) \in Accepteds /\ w.from \in Did
        BY <1>2, <3>2, <4>1 DEF Opens, Readable, Wire
      <4>3. Has(w.from, a, w.session)
        BY <4>2 DEF SessionsInv
      <4>4. s.peer = w.from /\ s.id = w.session
        BY <4>1
      <4> HIDE DEF w
      <4>5. Has(s.peer, a, s.id) /\ s.peer \in Did
        BY <4>2, <4>3, <4>4
      <4> QED
        BY <1>1, <4>5
    <3> QED
      BY <1>6, <2>2, <3>1, <3>2, DiskStep
  <2> QED
    BY <2>1, <2>2
<1>7. ASSUME NEW a \in Did, NEW i \in opened'[a]
      PROVE  Has(a, wire[i].from, wire[i].session)'
  <2>1. CASE i \in opened[a]
    <3>1. wire'[i] = wire[i]
      BY <1>0, <1>2, <2>1 DEF Envelopes, Accepteds, TypeOK
    <3>2. Has(a, wire[i].from, wire[i].session)
      BY <2>1 DEF SessionsInv
    <3>3. \A b, c : Has(a, b, c) => \E s \in session'[a] : s.peer = b /\ s.id = c
      BY <1>1 DEF Has
    <3> QED
      BY <3>1, <3>2, <3>3 DEF Has
  <2>2. CASE i \notin opened[a]
    <3>1. Opens(p) /\ call[p].me = a /\ AtHand(p) = i
      BY <2>2, <1>7, WhoOpens
    <3> DEFINE t == [id |-> wire[i].session, peer |-> wire[i].from, open |-> TRUE]
    <3>2. t \in session'[a]
      BY <1>0, <3>1 DEF Opens, Advanced, TypeOK
    <3>3. wire'[i] = wire[i]
      BY <1>2, <3>1 DEF Opens
    <3>4. t.id = wire[i].session /\ t.peer = wire[i].from
      OBVIOUS
    <3> HIDE DEF t
    <3> QED
      BY <3>2, <3>3, <3>4 DEF Has
  <2> QED
    BY <2>1, <2>2
<1> QED
  BY <1>4, <1>5, <1>6, <1>7 DEF SessionsInv

(* service.go 317-333: what the backend has accepted has been opened by  *)
(* its recipient or can be, whoever wrote first and whatever fails other *)
(* than the answer to an encrypted send.                                 *)
THEOREM AcceptedTextsCanBeRead == Spec => []NothingUnreadable
<1>1. Init => SessionsInv
  <2> SUFFICES ASSUME Init PROVE SessionsInv
    OBVIOUS
  <2>1. Accepteds = {} /\ \A a \in Did : session[a] = {} /\ opened[a] = {}
    BY DEF Init, Accepteds
  <2> QED
    BY <2>1 DEF SessionsInv
<1>2. IInv /\ SessionsInv /\ [Next]_vars => SessionsInv'
  <2>1. CASE UNCHANGED vars
    BY <2>1 DEF vars, backend, disk, process, SessionsInv, Accepteds, Has
  <2>2. ASSUME IInv, SessionsInv, Next PROVE SessionsInv'
    <3>1. PICK p \in Proc : ProcStep(p)
      BY <2>2, NextCases
    <3>2. may' = may
      BY <3>1, ScenarioStays
    <3>3. CASE "encrypt" \in may.fail
      BY <3>2, <3>3 DEF SessionsInv
    <3>4. CASE "encrypt" \notin may.fail
      BY <2>2, <3>1, <3>4, SessionsStep
    <3> QED
      BY <3>3, <3>4
  <2> QED
    BY <2>1, <2>2
<1>3. IInv /\ SessionsInv => NothingUnreadable
  <2> SUFFICES ASSUME IInv, SessionsInv, "encrypt" \notin may.fail,
                      NEW a \in Did, NEW m \in Msg,
                      wire[Text(m)] # None, wire[Text(m)].to = a
               PROVE  Text(m) \in opened[a] \/ Readable(a, Text(m))
    BY DEF NothingUnreadable
  <2>1. Text(m) \in Accepteds
    BY IdFacts DEF Accepteds
  <2>2. ~wire[Text(m)].init => Has(a, wire[Text(m)].from, wire[Text(m)].session)
    BY <2>1 DEF SessionsInv
  <2> QED
    BY <2>2 DEF Readable, Has
<1> QED
  BY <1>1, <1>2, <1>3, InductiveInvariant, PTL DEF Spec
-----------------------------------------------------------------------------
(* What SecureMailbox needs to know beyond IInv: only texts are answered   *)
(* and stored, and those that were opened.                                 *)
AtText == \A p \in Proc : pc[p] \in {"ack", "row"} => AtHand(p)[2] = "text"
RowsOpened == \A a \in Did, m \in Msg : row[a][Text(m)] = "in" => Text(m) \in opened[a]
BoxInv == AtText /\ RowsOpened

(* No acknowledgement is opened only to be acknowledged or stored.         *)
LEMMA AtTextStep ==
  ASSUME IInv, AtText, NEW p \in Proc, ProcStep(p)
  PROVE  AtText'
<1>0. TypeOK /\ Envelopes
  BY DEF IInv
<1>1. ASSUME NEW q \in Proc, q # p, pc'[q] \in {"ack", "row"}
      PROVE  Head(batch'[q])[2] = "text"
  BY <1>0, <1>1, OthersKeep DEF AtText, AtHand
<1>2. ASSUME pc'[p] \in {"ack", "row"}
      PROVE  Head(batch'[p])[2] = "text"
  <2>1. CASE pc[p] \in {"ack", "row"}
    BY <1>2, <2>1, HandStep DEF AtText, AtHand
  <2>2. CASE Opens(p) /\ pc'[p] = Follows(AtHand(p))
    <3>1. AtHand(p) \in Id /\ wire[AtHand(p)] # None
      BY <2>2 DEF Opens, Accepteds
    <3>2. ASSUME NEW m \in Msg, AtHand(p) = Ack(m) PROVE FALSE
      <4>1. PICK n \in Msg : wire[Ack(m)] = Answer(m, n)
        BY <1>0, <3>1, <3>2 DEF Envelopes
      <4>2. ~wire[AtHand(p)].init /\ AtHand(p)[2] = "ack"
        BY <3>2, <4>1 DEF Answer, Ack
      <4> QED
        BY <1>2, <2>2, <4>2 DEF Follows
    <3>3. \A m \in Msg : AtHand(p) # Ack(m)
      BY <3>2
    <3>4. AtHand(p)[2] = "text"
      BY <3>1, <3>3, IdFacts
    <3> QED
      BY <1>2, <3>4, HandStep DEF AtHand
  <2> QED
    BY <1>2, <2>1, <2>2, HandStep
<1> QED
  BY <1>1, <1>2 DEF AtText, AtHand

(* A text is recorded as received only where it was opened.                *)
LEMMA RowsOpenedStep ==
  ASSUME IInv, RowsOpened, NEW p \in Proc, ProcStep(p)
  PROVE  RowsOpened'
<1>0. TypeOK /\ PhaseAt(p)
  BY DEF IInv, Phases
<1> SUFFICES ASSUME NEW a \in Did, NEW m \in Msg, row'[a][Text(m)] = "in"
             PROVE  Text(m) \in opened[a]
  BY Grows DEF RowsOpened
<1>1. CASE row[a][Text(m)] = "in"
  BY <1>1 DEF RowsOpened
<1>2. CASE row[a][Text(m)] # "in" /\ Writes(p)
  <2>1. StoreRow(p) /\ pc[p] = "row" /\ AtHand(p) = Text(m) /\ call[p].me = a
    BY <1>0, <1>2, IdFacts DEF Writes, TypeOK
  <2> QED
    BY <1>0, <2>1 DEF PhaseAt
<1> QED
  BY <1>1, <1>2, DiskStep

LEMMA BoxAlways == Spec => []BoxInv
<1>1. Init => BoxInv
  <2> SUFFICES ASSUME Init PROVE BoxInv
    OBVIOUS
  <2>1. /\ \A p \in Proc : pc[p] = "idle"
        /\ \A a \in Did, m \in Msg : row[a][Text(m)] = "none"
    BY IdFacts DEF Init
  <2> QED
    BY <2>1 DEF BoxInv, AtText, RowsOpened
<1>2. IInv /\ BoxInv /\ [Next]_vars => BoxInv'
  <2>1. ASSUME IInv, BoxInv, Next PROVE BoxInv'
    BY <2>1, NextCases, AtTextStep, RowsOpenedStep DEF BoxInv
  <2>2. CASE UNCHANGED vars
    BY <2>2 DEF vars, backend, disk, process, BoxInv, AtText, RowsOpened, AtHand
  <2> QED
    BY <2>1, <2>2
<1> QED
  BY <1>1, <1>2, InductiveInvariant, PTL DEF Spec

\* An envelope that is accepted under an id of its own.
LEMMA Adds ==
  ASSUME NEW i, NEW w, wire[i] = None, Accepted(i, w)
  PROVE  Box!Add(i, w)
BY DEF Accepted, Box!Add

(* A send posts its envelope, or begins a session with it, in one step of  *)
(* SecureMailbox, whether its answer arrives or not.                       *)
LEMMA SendRefines ==
  ASSUME IInv, BoxInv, NEW p \in Proc, EncryptInit(p) \/ EncryptCipher(p) \/ FailEncrypt(p)
  PROVE  [Box!Next]_<<wire, inbox, session, opened, row>>
<1> DEFINE c == call[p]
<1>0. TypeOK /\ PhaseAt(p) /\ IdAt(p) /\ pc[p] = "encrypt"
  BY DEF IInv, Phases, Ids, EncryptInit, EncryptCipher, EncryptWithin, FailEncrypt, Goto
<1>1. /\ c.me \in Did /\ c.to \in Did /\ c.me # c.to /\ c.id \in Msg /\ wire[Text(c.id)] = None
  BY <1>0 DEF PhaseAt, IdAt, TypeOK
<1>2. opened' = opened /\ row' = row
  BY DEF EncryptInit, EncryptCipher, EncryptWithin, FailEncrypt, disk
<1>3. ASSUME SendsInit(p) PROVE Box!MayBegin(c.id, c.me, c.to)
  <2>1. \A d \in Did : \A s \in session[d] : s.id # c.id
    BY <1>0 DEF IInv, SessionIds, PhaseAt
  <2>2. \A s \in session[c.me] : s.peer # c.to
    BY <1>3 DEF SendsInit, Usable
  <2> QED
    BY <1>1, <2>1, <2>2 DEF Box!MayBegin, Box!Text, Text
<1>4. Kept(p) = Box!Begun(c.id, c.me, c.to)
  BY DEF Kept, Box!Begun
<1>5. ASSUME SendsInit(p), Accepted(Text(c.id), InitWire(p)), session' \in {session, Kept(p)}
      PROVE  Box!Next
  <2> DEFINE w == InitWire(p)
  <2>1. /\ w \in Wire /\ w.from = c.me /\ w.to = c.to /\ w.init /\ w.session = c.id
    BY <1>1 DEF InitWire, Wire
  <2>2. Box!Add(Text(c.id), w)
    BY <1>1, <1>5, Adds
  <2> HIDE DEF c, w
  <2>3. Box!PostFirst(c.id, w)
    BY <1>2, <1>3, <1>4, <1>5, <2>1, <2>2 DEF Box!PostFirst, Box!Text, Text
  <2> QED
    BY <1>1, <2>1, <2>3 DEF Box!Next
<1>6. CASE EncryptInit(p)
  BY <1>5, <1>6 DEF EncryptInit
<1>7. CASE FailEncrypt(p)
  <2>1. SendsInit(p) /\ session' \in {session, Kept(p)}
    BY <1>7 DEF FailEncrypt
  <2>2. CASE Accepted(Text(c.id), InitWire(p))
    BY <1>5, <2>1, <2>2
  <2>3. CASE UNCHANGED <<wire, inbox>> /\ session' = Kept(p)
    <3>1. Box!BeginOnly(c.id, c.me, c.to)
      BY <1>2, <1>3, <1>4, <2>1, <2>3 DEF Box!BeginOnly
    <3> QED
      BY <1>1, <3>1 DEF Box!Next
  <2>4. CASE UNCHANGED <<wire, inbox, session>>
    BY <1>2, <2>4
  <2> QED
    BY <1>7, <2>1, <2>2, <2>3, <2>4 DEF FailEncrypt
<1>8. CASE EncryptCipher(p)
  <2>1. PICK s \in Usable(c.me, c.to) :
          /\ s.open = TRUE
          /\ Accepted(Text(c.id), [from |-> c.me, to |-> c.to, init |-> FALSE,
                                   session |-> s.id])
    BY <1>8 DEF EncryptCipher, EncryptWithin
  <2> DEFINE w == [from |-> c.me, to |-> c.to, init |-> FALSE, session |-> s.id]
  <2>2. s \in session[c.me] /\ s.peer = c.to /\ s \in SessionType
    BY <1>0, <1>1 DEF Usable, TypeOK, SessionType
  <2>3. s = [id |-> s.id, peer |-> c.to, open |-> TRUE]
    BY <2>1, <2>2 DEF SessionType
  <2>4. w \in Wire /\ w.from = c.me /\ w.to = c.to /\ ~w.init /\ w.session = s.id
    BY <1>1, <2>2 DEF Wire, SessionType
  <2>5. Box!Add(Text(c.id), w)
    BY <1>1, <2>1, Adds
  <2>6. session' = session
    BY <1>8 DEF EncryptCipher, EncryptWithin, disk
  <2> HIDE DEF c, w
  <2>7. Box!PostWithin(c.id, w)
    BY <1>2, <2>2, <2>3, <2>4, <2>5, <2>6 DEF Box!PostWithin, Box!Text, Text
  <2> QED
    BY <1>1, <2>4, <2>7 DEF Box!Next
<1> QED
  BY <1>6, <1>7, <1>8

(* An envelope is taken once, and an acknowledgement sent once.            *)
LEMMA TakeRefines ==
  ASSUME IInv, BoxInv, NEW p \in Proc, Open(p) \/ SendAck(p)
  PROVE  Box!Next
<1>0. TypeOK /\ PhaseAt(p) /\ Envelopes
  BY DEF IInv, Phases
<1>1. CASE Open(p)
  <2> DEFINE i == AtHand(p)
             a == call[p].me
  <2>1. /\ pc[p] = "rows" /\ batch[p] # <<>> /\ Readable(a, i)
        /\ opened' = [opened EXCEPT ![a] = @ \cup {i}]
        /\ session' = [session EXCEPT ![a] = Advanced(a, i)]
        /\ UNCHANGED <<wire, inbox, row>>
    BY <1>1 DEF Open, OpenThen, Goto, backend
  <2>2. i \in Accepteds
    BY <1>0, <2>1, HeadTailProperties DEF TypeOK, Accepteds, AtHand
  <2>3. i \in Id /\ wire[i] # None /\ wire[i].to = a
    BY <2>1, <2>2 DEF Accepteds, Readable
  <2> HIDE DEF i, a
  <2>4. Box!Take(i)
    BY <2>1, <2>3 DEF Box!Take, Readable, Advanced
  <2> QED
    BY <2>3, <2>4 DEF Box!Next, Box!Id, Id
<1>2. CASE SendAck(p)
  <2>1. pc[p] = "ack" /\ UNCHANGED <<session, opened, row>>
    BY <1>2 DEF SendAck, Goto, disk
  <2>2. PICK m \in Msg : AcksIn(p, m)
    BY <1>2, AckDelivers
  <2>3. PICK s \in Usable(call[p].me, wire[Text(m)].from) :
          s.open /\ Accepted(Ack(m), Answer(m, s.id))
    BY <2>2 DEF AcksIn
  <2>4. /\ wire[Text(m)].init /\ Text(m) \in opened[call[p].me] /\ call[p].me \in Did
        /\ AtHand(p) = Text(m)
    BY <1>0, <2>1, <2>2 DEF PhaseAt, AcksIn
  <2>5. wire[Text(m)] # None /\ wire[Text(m)].to = call[p].me
    BY <1>0, <2>4 DEF Envelopes
  <2>6. wire[Ack(m)] = None
    BY <2>1, <2>4 DEF IInv, AckAhead
  <2>7. Box!Add(Ack(m), Answer(m, s.id))
    BY <2>3, <2>6, Adds
  <2>8. s \in session[wire[Text(m)].to] /\ s.peer = wire[Text(m)].from /\ s.open
    BY <2>3, <2>5 DEF Usable
  <2>9. Box!Acknowledge(m)
    BY <2>1, <2>4, <2>5, <2>7, <2>8 DEF Box!Acknowledge, Box!Text, Box!Ack, Text, Ack, Answer
  <2> QED
    BY <2>9 DEF Box!Next
<1> QED
  BY <1>1, <1>2

(* A text is recorded once on each side.                                   *)
LEMMA RowRefines ==
  ASSUME IInv, BoxInv, NEW p \in Proc, StoreSent(p) \/ StoreRow(p)
  PROVE  [Box!Next]_<<wire, inbox, session, opened, row>>
<1>0. TypeOK /\ PhaseAt(p) /\ IdAt(p) /\ Envelopes
  BY DEF IInv, Phases, Ids
<1>1. UNCHANGED <<wire, inbox, session, opened>>
  BY DEF StoreSent, StoreRow, backend
<1>2. CASE StoreSent(p)
  <2> DEFINE a == call[p].me
             m == call[p].id
  <2>1. pc[p] = "store" /\ row' = [row EXCEPT ![a][Text(m)] = "out"]
    BY <1>2 DEF StoreSent
  <2>2. /\ a \in Did /\ m \in Msg /\ Text(m) \in Id
        /\ wire[Text(m)] # None /\ wire[Text(m)].from = a
    BY <1>0, <2>1, IdFacts DEF PhaseAt, IdAt, TypeOK
  <2>3. row[a][Text(m)] # "in"
    <3>1. ASSUME Text(m) \in opened[a] PROVE FALSE
      BY <1>0, <2>2, <3>1 DEF Envelopes, Accepteds
    <3> QED
      BY <2>2, <3>1 DEF BoxInv, RowsOpened
  <2>4. CASE row[a][Text(m)] = "none"
    <3> HIDE DEF a, m
    <3>1. Box!Record(m)
      BY <1>1, <2>1, <2>2, <2>4 DEF Box!Record, Box!Enter, Box!Text, Text
    <3> QED
      BY <2>2, <3>1 DEF Box!Next
  <2>5. CASE row[a][Text(m)] = "out"
    <3>1. row' = row
      BY <1>0, <2>1, <2>2, <2>5 DEF TypeOK
    <3> QED
      BY <1>1, <3>1
  <2> QED
    BY <1>0, <2>2, <2>3, <2>4, <2>5 DEF TypeOK
<1>3. CASE StoreRow(p)
  <2> DEFINE a == call[p].me
             i == AtHand(p)
  <2>1. /\ pc[p] = "row"
        /\ \/ row' = row
           \/ row' = [row EXCEPT ![a][i] = IF @ = "none" THEN "in" ELSE @]
    BY <1>3 DEF StoreRow, Goto
  <2>2. /\ a \in Did /\ i \in opened[a] /\ i[2] = "text"
    BY <1>0, <2>1 DEF PhaseAt, BoxInv, AtText
  <2>3. i \in Id /\ wire[i] # None /\ wire[i].to = a
    BY <1>0, <2>2 DEF TypeOK, Envelopes
  <2>4. PICK m \in Msg : i = Text(m)
    BY <2>2, <2>3, IdFacts
  <2> HIDE DEF a, i
  <2>5. CASE row' # row /\ row[a][i] = "none"
    <3>1. row' = [row EXCEPT ![a][i] = "in"]
      BY <1>0, <2>1, <2>2, <2>3, <2>5 DEF TypeOK
    <3>2. Box!Keep(m)
      BY <1>1, <2>2, <2>3, <2>4, <2>5, <3>1 DEF Box!Keep, Box!Enter, Box!Text, Text
    <3> QED
      BY <3>2 DEF Box!Next
  <2>6. CASE row' = row
    BY <1>1, <2>6
  <2>7. CASE row[a][i] # "none"
    <3>1. row' = row
      BY <1>0, <2>1, <2>2, <2>3, <2>7 DEF TypeOK
    <3> QED
      BY <1>1, <3>1
  <2> QED
    BY <2>5, <2>6, <2>7
<1> QED
  BY <1>2, <1>3

(* Whatever else a process does, SecureMailbox does not see it.            *)
LEMMA NothingElse ==
  ASSUME NEW p \in Proc, ProcStep(p),
         ~(EncryptInit(p) \/ EncryptCipher(p) \/ FailEncrypt(p)),
         ~(Open(p) \/ SendAck(p)), ~(StoreSent(p) \/ StoreRow(p))
  PROVE  UNCHANGED <<wire, inbox, session, opened, row>>
<1>1. CASE StartInit(p) \/ StartSend(p) \/ StartSync(p)
  BY <1>1 DEF StartInit, StartSend, StartSync, Begin, backend, disk
<1>2. CASE Register(p) \/ Publish(p) \/ RefusedEncrypt(p) \/ Fetch(p) \/ RefusedFetch(p)
           \/ SkipRow(p) \/ RefusedAck(p) \/ EndSync(p)
  BY <1>2 DEF Register, Publish, RefusedEncrypt, Fetch, RefusedFetch, SkipRow, PassOver,
     RefusedAck, EndSync, backend, disk
<1>3. CASE Fail(p) \/ FailOpen(p) \/ FailAck(p) \/ FailRow(p) \/ Crash(p)
  BY <1>3 DEF Fail, CallFails, FailOpen, FailAck, FailRow, Crash, backend, disk
<1>4. CASE Launch(p) \/ Tick(p) \/ Stop(p) \/ LoopEnds(p) \/ CloseDB(p) \/ Exit(p)
  BY <1>4 DEF Launch, Tick, Stop, LoopEnds, LoopEndsAt, CloseDB, Exit, backend, disk
<1> QED
  BY <1>1, <1>2, <1>3, <1>4 DEF ProcStep

(* Secure messages are what SecureMailbox promises, in every scenario,     *)
(* with the services and all the failures there are: accepted, opened,     *)
(* acknowledged and recorded once each, and sent in sessions whose other   *)
(* end was heard (service.go 103-150, 253-348, 410-425).                   *)
THEOREM ImplementsSecureMailbox == Spec => SecureMailboxSpec
<1>1. Init => Box!Init
  BY DEF Init, Box!Init, Id, Box!Id
<1>2. IInv /\ BoxInv /\ [Next]_vars => [Box!Next]_<<wire, inbox, session, opened, row>>
  <2>1. CASE UNCHANGED vars
    BY <2>1 DEF vars, backend, disk
  <2>2. ASSUME IInv, BoxInv, NEW p \in Proc, ProcStep(p)
        PROVE  [Box!Next]_<<wire, inbox, session, opened, row>>
    BY <2>2, SendRefines, TakeRefines, RowRefines, NothingElse
  <2> QED
    BY <2>1, <2>2, NextCases
<1> QED
  BY <1>1, <1>2, InductiveInvariant, BoxAlways, PTL DEF Spec, SecureMailboxSpec, Box!Spec
=============================================================================
