-------------------------- MODULE MessagingProofs --------------------------
(***************************************************************************)
(* Proofs about Messaging: that the database shows only what was           *)
(* exchanged, that a row never changes, that a failure loses one message   *)
(* at most and nothing else loses any, that a sync leaves no gap, and that *)
(* sending and syncing implement Mailbox, whatever processes send and sync *)
(* at once.                                                                *)
(*                                                                         *)
(* IInv, which a run checks, needs a message id to belong to one command   *)
(* and to no envelope before that command has delivered it (IdsFresh):     *)
(* otherwise a row stored under it would tell of another message. Counting *)
(* the losses needs nothing more: LostStep shows what one step can lose.   *)
(* Mailbox needs BoxInv: that what a process has in memory is still so at  *)
(* the backend and in the database.                                        *)
(***************************************************************************)
EXTENDS Messaging, SequenceTheorems, FiniteSetTheorems, TLAPS

(* What the backend shows are messages it has accepted. *)
Accepteds == {m \in Msg : wire[m] # None}

(* What the inbox query returns are envelopes of the inbox (mock.go      *)
(* 753-774).                                                             *)
LEMMA OldestType ==
  ASSUME NEW S, NEW s \in Seq(S)
  PROVE  Oldest(s, Limit) \in Seq(S)
<1> DEFINE n == IF Len(s) < Limit THEN Len(s) ELSE Limit
<1>1. n \in Nat /\ n <= Len(s)
  BY LenProperties, MessagingAssumption
<1>2. \A i \in 1..n : s[i] \in S
  BY <1>1, ElementOfSeq, LenProperties
<1>3. SubSeq(s, 1, n) \in Seq(S)
  BY <1>1, <1>2, SubSeqProperties
<1> QED
  BY <1>3 DEF Oldest

(* They are its first ones, in their order.                              *)
LEMMA OldestIs ==
  ASSUME NEW S, NEW s \in Seq(S)
  PROVE  /\ Len(Oldest(s, Limit)) = IF Len(s) < Limit THEN Len(s) ELSE Limit
         /\ \A i \in 1..Len(Oldest(s, Limit)) : Oldest(s, Limit)[i] = s[i]
<1> DEFINE n == IF Len(s) < Limit THEN Len(s) ELSE Limit
<1>1. n \in Nat /\ n <= Len(s)
  BY LenProperties, MessagingAssumption
<1>2. \A i \in 1..n : s[i] \in S
  BY <1>1, ElementOfSeq, LenProperties
<1>3. Len(SubSeq(s, 1, n)) = n /\ \A i \in 1..n : SubSeq(s, 1, n)[i] = s[i]
  BY <1>1, <1>2, SubSeqProperties
<1> QED
  BY <1>3 DEF Oldest

(* A process that runs no command holds a call like any other.           *)
LEMMA NoCallType == NoCall \in Call
BY DEF NoCall, Call

\* The envelope of a send whose target resolves.
LEMMA EnvelopeType ==
  ASSUME TypeOK, NEW c \in Call, c.me \in Local, c.to # None, Resolves(c.to)
  PROVE  [from |-> c.me, to |-> Resolved(c.to), kind |-> c.kind] \in Wire
<1>1. c.to \in Did \cup Group \cup Alias
  BY DEF Call
<1>2. Resolved(c.to) \in Did \cup Group
  BY <1>1, MessagingAssumption DEF Resolves, Resolved, TypeOK, Did
<1>3. c.kind \in {"text", "payload"} /\ c.me \in Did
  BY DEF Call, Did
<1> QED
  BY <1>2, <1>3 DEF Wire

(* A new envelope adds to what the backend shows and changes nothing else. *)
LEMMA AcceptedEffect ==
  ASSUME TypeOK, NEW m \in Msg, NEW w \in Wire, Accepted(m, w)
  PROVE  /\ wire' \in [Msg -> Wire \cup {None}]
         /\ wire'[m] = w /\ w # None
         /\ \A k \in Msg : k # m => wire'[k] = wire[k]
         /\ Accepteds \subseteq Accepteds'
         /\ inbox' \in [Local -> Seq(Accepteds')]
<1>1. /\ wire' \in [Msg -> Wire \cup {None}] /\ wire'[m] = w /\ w # None
      /\ \A k \in Msg : k # m => wire'[k] = wire[k]
  BY NoneIsNoRecord DEF TypeOK, Accepted
<1>2. Accepteds \subseteq Accepteds' /\ m \in Accepteds'
  BY <1>1 DEF Accepteds
<1>3. ASSUME NEW a \in Local
      PROVE  inbox[a] \in Seq(Accepteds') /\ Append(inbox[a], m) \in Seq(Accepteds')
  <2>1. inbox[a] \in Seq(Accepteds)
    BY DEF TypeOK, Accepteds
  <2>2. inbox[a] \in Seq(Accepteds')
    BY <1>2, <2>1, SeqMonotonic
  <2> QED
    BY <1>2, <2>2, AppendProperties
<1>4. inbox' \in [Local -> Seq(Accepteds')]
  BY <1>3 DEF Accepted
<1> QED
  BY <1>1, <1>2, <1>4

(* A step is that of a peer or of one process.                           *)
LEMMA NextCases ==
  ASSUME Next
  PROVE  \/ RemoteSend
         \/ \E p \in Proc :
              \/ StartSend(p) \/ StartGroupSend(p) \/ StartRegister(p) \/ StartSync(p)
              \/ Register(p) \/ Deliver(p) \/ StoreSent(p) \/ RefusedSend(p)
              \/ Fetch(p) \/ RefusedFetch(p) \/ SkipRow(p) \/ StoreRow(p)
              \/ StoreContact(p) \/ EndSync(p)
              \/ Fail(p) \/ AnswerLost(p) \/ FailRow(p) \/ Crash(p)
BY DEF Next, Start, Proceed, Break

(* What a process has in memory, when it does nothing but end. *)
LEMMA EndType ==
  ASSUME TypeOK, NEW p \in Proc, Forget(p), pc' = [pc EXCEPT ![p] = "idle"]
  PROVE  /\ pc' \in [Proc -> Step \cup {"idle"}]
         /\ call' \in [Proc -> Call]
         /\ batch' \in [Proc -> Seq(Accepteds)]
BY NoCallType, EmptySeq DEF TypeOK, Forget, Accepteds

(* A batch or an inbox whose messages are still accepted. *)
LEMMA StillShown ==
  ASSUME NEW A, NEW T, A \subseteq T
  PROVE  \A S : \A f \in [S -> Seq(A)] : f \in [S -> Seq(T)]
<1>1. \A s \in Seq(A) : s \in Seq(T)
  BY SeqMonotonic
<1> QED
  BY <1>1

(* The invariant holds at first.                                         *)
LEMMA InitType == Init => IInv
<1> SUFFICES ASSUME Init PROVE IInv
  OBVIOUS
<1>1. TypeOK
  BY NoCallType, EmptySeq, MessagingAssumption DEF Init, TypeOK, Step
<1>2. RowsAreReal /\ IdsFresh /\ PhaseOK
  BY DEF Init, RowsAreReal, IdsFresh, PhaseOK, NoCall
<1> QED
  BY <1>1, <1>2 DEF IInv

(* A failure is counted, and only up to the bound.                       *)
LEMMA FaultType ==
  ASSUME TypeOK, NEW p, Fault(p)
  PROVE  faults' \in 0..MaxFaults
BY MessagingAssumption DEF TypeOK, Fault

(* The rows that a sync or a send writes are rows (service.go 138-150,   *)
(* 365-413).                                                             *)
LEMMA RowTypes ==
  ASSUME IInv, NEW p \in Proc
  PROVE  /\ pc[p] = "store" => /\ call[p].id \in Msg
                               /\ Outgoing(p, call[p].to) \in Row
         /\ pc[p] \in {"rows", "contact"} /\ batch[p] # <<>> =>
              /\ Head(batch[p]) \in Accepteds /\ Tail(batch[p]) \in Seq(Accepteds)
              /\ wire[Head(batch[p])] \in Wire
              /\ Incoming(p) \in Row
<1>1. /\ call[p] \in Call /\ batch[p] \in Seq(Accepteds)
  BY DEF IInv, TypeOK, Accepteds
<1>2. CASE pc[p] = "store"
  <2>1. call[p].op = "send" /\ call[p].me \in Local /\ call[p].to \in Did \cup Alias
        /\ call[p].id \in drawn /\ drawn \subseteq Msg
    BY <1>2 DEF IInv, PhaseOK, IdsFresh, TypeOK
  <2> QED
    BY <1>2, <2>1 DEF Outgoing, Row, Did
<1>3. CASE pc[p] \in {"rows", "contact"} /\ batch[p] # <<>>
  <2>1. call[p].me \in Local
    BY <1>3 DEF IInv, PhaseOK
  <2>2. Head(batch[p]) \in Accepteds /\ Tail(batch[p]) \in Seq(Accepteds)
    BY <1>1, <1>3, HeadTailProperties
  <2>3. wire[Head(batch[p])] \in Wire
    BY <2>2 DEF Accepteds, IInv, TypeOK
  <2>4. Incoming(p) \in Row
    BY <2>1, <2>3 DEF Incoming, Row, Wire, Did
  <2> QED
    BY <1>3, <2>2, <2>3, <2>4
<1> QED
  BY <1>2, <1>3

(* UpsertMessage leaves a table of rows (dao.go 58-70).                  *)
LEMMA UpsertedType ==
  ASSUME TypeOK, NEW m \in Msg, NEW r \in Row
  PROVE  /\ Upserted(m, r) \in [Msg -> Row \cup {None}]
         /\ \A k \in Msg : row[k] # None => Upserted(m, r)[k] = row[k]
         /\ \A k \in Msg : Upserted(m, r)[k] # row[k] =>
              k = m /\ Upserted(m, r)[k] = r /\ row[k] = None
BY DEF TypeOK, Upserted

(* Every step keeps the types.                                           *)
LEMMA TypeStep ==
  ASSUME IInv, Next
  PROVE  TypeOK'
<1> USE DEF Goto
<1>0. TypeOK
  BY DEF IInv
\* The variables a step leaves alone.
<1>b. ASSUME UNCHANGED wire
      PROVE  Accepteds' = Accepteds
  BY <1>b DEF Accepteds
<1>1. CASE RemoteSend
  <2>1. PICK r \in Remote, to \in Local \cup Group, k \in {"text", "payload"}, m \in Msg \ drawn :
          /\ drawn' = drawn \cup {m} /\ known' = known \cup {r}
          /\ Accepted(m, [from |-> r, to |-> to, kind |-> k])
          /\ UNCHANGED <<database, pc, call, batch, faults>>
    BY <1>1 DEF RemoteSend
  <2>2. [from |-> r, to |-> to, kind |-> k] \in Wire
    BY DEF Wire, Did
  <2>3. /\ wire' \in [Msg -> Wire \cup {None}] /\ Accepteds \subseteq Accepteds'
        /\ inbox' \in [Local -> Seq(Accepteds')]
    BY <1>0, <2>1, <2>2, AcceptedEffect
  <2>4. batch \in [Proc -> Seq(Accepteds)]
    BY <1>0 DEF TypeOK, Accepteds
  <2>5. batch \in [Proc -> Seq(Accepteds')]
    BY <2>3, <2>4, StillShown
  <2> QED
    BY <1>0, <2>1, <2>3, <2>5 DEF TypeOK, Accepteds, database, Did
<1> SUFFICES ASSUME NEW p \in Proc,
              \/ StartSend(p) \/ StartGroupSend(p) \/ StartRegister(p) \/ StartSync(p)
              \/ Register(p) \/ Deliver(p) \/ StoreSent(p) \/ RefusedSend(p)
              \/ Fetch(p) \/ RefusedFetch(p) \/ SkipRow(p) \/ StoreRow(p)
              \/ StoreContact(p) \/ EndSync(p)
              \/ Fail(p) \/ AnswerLost(p) \/ FailRow(p) \/ Crash(p)
             PROVE  TypeOK'
  BY <1>1, NextCases
<1> USE <1>0
<1>c. CASE UNCHANGED wire /\ UNCHANGED inbox
           /\ known' \subseteq Did /\ row' \in [Msg -> Row \cup {None}]
           /\ contact' \subseteq Did /\ drawn' \subseteq Msg
           /\ pc' \in [Proc -> Step \cup {"idle"}] /\ call' \in [Proc -> Call]
           /\ batch' \in [Proc -> Seq(Accepteds)] /\ faults' \in 0..MaxFaults
  BY <1>c DEF TypeOK, Accepteds
<1>2. CASE StartSend(p)
  <2>1. PICK a \in Local, m \in Msg \ drawn, k \in {"text", "payload"}, to \in Did \cup Alias :
          /\ Begin(p, [to |-> to, kind |-> k, op |-> "send", me |-> a, id |-> m], "register")
          /\ drawn' = drawn \cup {m}
    BY <1>2 DEF StartSend
  <2>2. [to |-> to, kind |-> k, op |-> "send", me |-> a, id |-> m] \in Call
    BY DEF Call
  <2> QED
    BY <1>c, <2>1, <2>2 DEF Begin, TypeOK, Accepteds, backend, database, Step
<1>3. CASE StartGroupSend(p)
  <2>1. PICK a \in Local, m \in Msg \ drawn, g \in Group, k \in {"text", "payload"} :
          /\ Begin(p, [to |-> g, kind |-> k, op |-> "group", me |-> a, id |-> m], "send")
          /\ drawn' = drawn \cup {m}
    BY <1>3 DEF StartGroupSend
  <2>2. [to |-> g, kind |-> k, op |-> "group", me |-> a, id |-> m] \in Call
    BY DEF Call
  <2> QED
    BY <1>c, <2>1, <2>2 DEF Begin, TypeOK, Accepteds, backend, database, Step
<1>4. CASE StartRegister(p) \/ StartSync(p)
  <2>1. \A a \in Local : /\ [NoCall EXCEPT !.op = "register", !.me = a] \in Call
                         /\ [NoCall EXCEPT !.op = "sync", !.me = a] \in Call
    BY DEF NoCall, Call
  <2>2. /\ call' \in [Proc -> Call] /\ pc' \in [Proc -> Step \cup {"idle"}]
        /\ UNCHANGED <<backend, database, batch, faults, drawn>>
    BY <1>4, <2>1 DEF StartRegister, StartSync, Begin, TypeOK, Step
  <2> QED
    BY <1>c, <2>2 DEF TypeOK, Accepteds, backend, database
<1>5. CASE Register(p)
  <2>1. call[p].me \in Did
    BY <1>5 DEF Register, End, IInv, PhaseOK, Did
  <2>2. /\ pc' \in [Proc -> Step \cup {"idle"}] /\ call' \in [Proc -> Call]
        /\ batch' \in [Proc -> Seq(Accepteds)]
    BY <1>5, EndType DEF Register, End, TypeOK, Accepteds, Step
  <2> QED
    BY <1>c, <1>5, <2>1, <2>2 DEF Register, database, TypeOK
<1>6. CASE Deliver(p) \/ (AnswerLost(p) /\ pc[p] = "send")
  <2> DEFINE w == [from |-> call[p].me, to |-> Resolved(call[p].to), kind |-> call[p].kind]
  <2>1. /\ pc[p] = "send" /\ Resolves(call[p].to) /\ Accepted(call[p].id, w)
        /\ UNCHANGED <<known, database, drawn>>
    BY <1>6 DEF Deliver, DeliverThen, AnswerLost, End
  <2>2. /\ call[p] \in Call /\ call[p].me \in Local /\ call[p].to # None /\ call[p].id \in Msg
    BY <2>1 DEF IInv, PhaseOK, IdsFresh, TypeOK
  <2>3. w \in Wire
    BY <2>1, <2>2, EnvelopeType
  <2>4. /\ pc' \in [Proc -> Step \cup {"idle"}] /\ call' \in [Proc -> Call]
        /\ batch' \in [Proc -> Seq(Accepteds)]
    BY <1>6, EndType DEF Deliver, DeliverThen, AnswerLost, End, TypeOK, Accepteds, Step
  <2>5. faults' \in 0..MaxFaults
    BY <1>6, FaultType DEF Deliver, DeliverThen, AnswerLost, TypeOK
  <2> HIDE DEF w
  <2>6. /\ wire' \in [Msg -> Wire \cup {None}] /\ Accepteds \subseteq Accepteds'
        /\ inbox' \in [Local -> Seq(Accepteds')]
    BY <2>1, <2>2, <2>3, AcceptedEffect
  <2>7. batch' \in [Proc -> Seq(Accepteds')]
    BY <2>4, <2>6, StillShown
  <2> QED
    BY <2>1, <2>4, <2>5, <2>6, <2>7 DEF TypeOK, Accepteds, database
<1>7. CASE StoreSent(p)
  <2>1. row' \in [Msg -> Row \cup {None}]
    BY <1>7, RowTypes, UpsertedType DEF StoreSent, End
  <2> QED
    BY <1>c, <1>7, <2>1, EndType DEF StoreSent, End, TypeOK, backend
<1>8. CASE RefusedSend(p) \/ RefusedFetch(p) \/ EndSync(p)
  <2>1. /\ Forget(p) /\ pc' = [pc EXCEPT ![p] = "idle"]
        /\ UNCHANGED <<backend, database, drawn, faults>>
    BY <1>8 DEF RefusedSend, RefusedFetch, EndSync, End
  <2> QED
    BY <1>c, <2>1, EndType DEF TypeOK, backend, database
<1>9. CASE Fail(p) \/ Crash(p)
  <2>1. /\ Forget(p) /\ pc' = [pc EXCEPT ![p] = "idle"]
        /\ UNCHANGED <<backend, database, drawn>> /\ Fault(p)
    BY <1>9 DEF Fail, Crash, End
  <2> QED
    BY <1>c, <2>1, EndType, FaultType DEF TypeOK, backend, database
<1>10. CASE Fetch(p)
  <2>1. inbox[call[p].me] \in Seq(Accepteds)
    BY <1>10 DEF Fetch, IInv, PhaseOK, TypeOK, Accepteds
  <2>2. batch' \in [Proc -> Seq(Accepteds)]
    BY <1>10, <2>1, OldestType DEF Fetch, TypeOK, Accepteds
  <2> QED
    BY <1>c, <1>10, <2>2 DEF Fetch, TypeOK, backend, database, Step
<1>11. CASE SkipRow(p) \/ StoreContact(p) \/ FailRow(p)
  <2>1. /\ pc[p] \in {"rows", "contact"} /\ batch[p] # <<>>
        /\ batch' = [batch EXCEPT ![p] = Tail(@)]
    BY <1>11 DEF SkipRow, StoreContact, FailRow, IInv, PhaseOK
  <2>2. batch' \in [Proc -> Seq(Accepteds)] /\ wire[Head(batch[p])].from \in Did
    BY <2>1, RowTypes DEF TypeOK, Accepteds, Wire
  <2>3. /\ pc' \in [Proc -> Step \cup {"idle"}] /\ contact' \subseteq Did
        /\ UNCHANGED <<known, wire, inbox, row, drawn, call>>
    BY <1>11, <2>2 DEF SkipRow, StoreContact, FailRow, TypeOK, Step, backend, database
  <2>4. faults' \in 0..MaxFaults
    BY <1>11, FaultType DEF SkipRow, StoreContact, FailRow, TypeOK
  <2> QED
    BY <1>c, <2>2, <2>3, <2>4 DEF TypeOK
<1>12. CASE StoreRow(p)
  <2>1. row' \in [Msg -> Row \cup {None}]
    BY <1>12, RowTypes, UpsertedType DEF StoreRow, StoreRowTo, Accepteds
  <2> QED
    BY <1>c, <1>12, <2>1 DEF StoreRow, StoreRowTo, TypeOK, backend, Step, Accepteds
<1>13. CASE AnswerLost(p) /\ pc[p] # "send"
  <2>1. /\ pc[p] = "register" /\ known' = known \cup {call[p].me}
        /\ UNCHANGED <<wire, inbox, database, drawn>> /\ Fault(p)
        /\ Forget(p) /\ pc' = [pc EXCEPT ![p] = "idle"]
    BY <1>13 DEF AnswerLost, End
  <2>2. call[p].me \in Did
    BY <2>1 DEF IInv, PhaseOK, Did
  <2> QED
    BY <1>c, <2>1, <2>2, EndType, FaultType DEF TypeOK, database
<1> QED
  BY <1>2, <1>3, <1>4, <1>5, <1>6, <1>7, <1>8, <1>9, <1>10, <1>11, <1>12, <1>13

(* A process's step leaves the others' memory alone. *)
ProcStep(p) ==
  \/ StartSend(p) \/ StartGroupSend(p) \/ StartRegister(p) \/ StartSync(p)
  \/ Register(p) \/ Deliver(p) \/ StoreSent(p) \/ RefusedSend(p)
  \/ Fetch(p) \/ RefusedFetch(p) \/ SkipRow(p) \/ StoreRow(p)
  \/ StoreContact(p) \/ EndSync(p)
  \/ Fail(p) \/ AnswerLost(p) \/ FailRow(p) \/ Crash(p)

(* A process's memory is its own.                                        *)
LEMMA OthersKeep ==
  ASSUME TypeOK, NEW p \in Proc, ProcStep(p), NEW q \in Proc, q # p
  PROVE  pc'[q] = pc[q] /\ call'[q] = call[q] /\ batch'[q] = batch[q]
<1> USE DEF TypeOK, Goto, End, Forget
<1>1. CASE StartSend(p) \/ StartGroupSend(p) \/ StartRegister(p) \/ StartSync(p)
  BY <1>1 DEF StartSend, StartGroupSend, StartRegister, StartSync, Begin
<1>2. CASE Register(p) \/ Deliver(p) \/ StoreSent(p) \/ RefusedSend(p)
  BY <1>2 DEF Register, Deliver, DeliverThen, StoreSent, RefusedSend
<1>3. CASE Fetch(p) \/ RefusedFetch(p) \/ SkipRow(p) \/ StoreRow(p)
           \/ StoreContact(p) \/ EndSync(p)
  BY <1>3 DEF Fetch, RefusedFetch, SkipRow, StoreRow, StoreRowTo, StoreContact, EndSync
<1>4. CASE Fail(p) \/ AnswerLost(p) \/ FailRow(p) \/ Crash(p)
  BY <1>4 DEF Fail, AnswerLost, FailRow, Crash
<1> QED
  BY <1>1, <1>2, <1>3, <1>4 DEF ProcStep

(* Its memory changes by its own steps only.                             *)
LEMMA OwnStep ==
  ASSUME IInv, Next, NEW q \in Proc
  PROVE  \/ ProcStep(q)
         \/ pc'[q] = pc[q] /\ call'[q] = call[q] /\ batch'[q] = batch[q]
<1>1. RemoteSend => pc'[q] = pc[q] /\ call'[q] = call[q] /\ batch'[q] = batch[q]
  BY DEF RemoteSend
<1>2. \A p \in Proc : ProcStep(p) /\ p # q =>
        pc'[q] = pc[q] /\ call'[q] = call[q] /\ batch'[q] = batch[q]
  BY OthersKeep DEF IInv
<1> QED
  BY <1>1, <1>2, NextCases DEF ProcStep

(* What a sync goes through comes from its identity's inbox (service.go  *)
(* 253-265).                                                             *)
LEMMA FetchedStep ==
  ASSUME IInv, Next, NEW q \in Proc, pc'[q] \in {"rows", "contact"}, NEW S,
         call[q].me \in Local => Oldest(inbox[call[q].me], Limit) \in Seq(S),
         pc[q] \in {"rows", "contact"} => batch[q] \in Seq(S)
  PROVE  batch'[q] \in Seq(S) /\ call'[q] = call[q]
<1>0. TypeOK /\ PhaseOK
  BY DEF IInv
<1>1. CASE pc'[q] = pc[q] /\ call'[q] = call[q] /\ batch'[q] = batch[q]
  BY <1>1
<1>2. CASE ProcStep(q)
  <2> USE <1>0 DEF TypeOK, Goto, End, Forget
  <2>1. CASE Fetch(q)
    <3>1. /\ Oldest(inbox[call[q].me], Limit) \in Seq(S)
          /\ batch'[q] = Oldest(inbox[call[q].me], Limit) /\ call' = call
      BY <2>1 DEF Fetch, PhaseOK
    <3> QED
      BY <3>1
  <2>2. CASE SkipRow(q) \/ StoreContact(q) \/ FailRow(q)
    <3>1. /\ pc[q] \in {"rows", "contact"} /\ batch[q] # <<>>
          /\ batch'[q] = Tail(batch[q]) /\ call' = call
      BY <2>2 DEF SkipRow, StoreContact, FailRow, PhaseOK
    <3> QED
      BY <3>1, HeadTailProperties
  <2>3. CASE StoreRow(q)
    BY <2>3 DEF StoreRow, StoreRowTo
  <2>4. CASE StartSend(q) \/ StartGroupSend(q) \/ StartRegister(q) \/ StartSync(q)
    BY <2>4 DEF StartSend, StartGroupSend, StartRegister, StartSync, Begin
  <2>5. CASE Register(q) \/ Deliver(q) \/ StoreSent(q) \/ RefusedSend(q) \/ RefusedFetch(q)
             \/ EndSync(q) \/ Fail(q) \/ AnswerLost(q) \/ Crash(q)
    BY <2>5 DEF Register, Deliver, DeliverThen, StoreSent, RefusedSend, RefusedFetch,
       EndSync, Fail, AnswerLost, Crash
  <2> QED
    BY <1>2, <2>1, <2>2, <2>3, <2>4, <2>5 DEF ProcStep
<1> QED
  BY <1>1, <1>2, OwnStep

(* Only a message it has just delivered takes a process to "store".      *)
LEMMA StoreEnters ==
  ASSUME IInv, Next, NEW q \in Proc, pc'[q] = "store"
  PROVE  call'[q] = call[q] /\ (pc[q] = "store" \/ Deliver(q))
<1>0. TypeOK
  BY DEF IInv
<1>1. ASSUME ProcStep(q)
      PROVE  Deliver(q) /\ call'[q] = call[q]
  BY <1>0, <1>1
     DEF TypeOK, ProcStep, StartSend, StartGroupSend, StartRegister, StartSync, Begin, Register,
         Deliver, DeliverThen, RefusedSend, Fetch, RefusedFetch, SkipRow, StoreRow, StoreSent,
         StoreRowTo, StoreContact, EndSync, Fail, FailRow, Crash, AnswerLost, End, Goto
<1> QED
  BY <1>1, OwnStep

(* A process's step makes the backend accept nothing but its own message.  *)
LEMMA DeliversOwn ==
  ASSUME IInv, NEW p \in Proc, ProcStep(p)
  PROVE  \/ UNCHANGED wire
         \/ /\ wire[call[p].id] = None /\ call[p].id \in drawn /\ drawn' = drawn
            /\ wire'[call[p].id].from = call[p].me
            /\ wire'[call[p].id].to = Resolved(call[p].to)
            /\ wire'[call[p].id] # None
            /\ \A k \in Msg : k # call[p].id => wire'[k] = wire[k]
<1>0. TypeOK /\ IdsFresh
  BY DEF IInv
<1>1. CASE Deliver(p) \/ (AnswerLost(p) /\ pc[p] = "send")
  <2> DEFINE w == [from |-> call[p].me, to |-> Resolved(call[p].to), kind |-> call[p].kind]
  <2>1. /\ pc[p] = "send" /\ Resolves(call[p].to) /\ Accepted(call[p].id, w)
        /\ UNCHANGED drawn
    BY <1>1 DEF Deliver, DeliverThen, AnswerLost, End, Goto
  <2>2. /\ call[p] \in Call /\ call[p].me \in Local /\ call[p].to # None
        /\ wire[call[p].id] = None /\ call[p].id \in drawn /\ call[p].id \in Msg
    BY <1>0, <2>1 DEF IInv, PhaseOK, IdsFresh, TypeOK, Sending
  <2>3. w \in Wire
    BY <1>0, <2>1, <2>2, EnvelopeType
  <2>4. /\ wire'[call[p].id] = w /\ w # None
        /\ \A k \in Msg : k # call[p].id => wire'[k] = wire[k]
    BY <1>0, <2>1, <2>2, <2>3, AcceptedEffect
  <2> QED
    BY <2>1, <2>2, <2>4
<1>2. CASE AnswerLost(p) /\ pc[p] # "send"
  BY <1>2 DEF AnswerLost, End, Goto
<1> QED
  BY <1>1, <1>2
     DEF ProcStep, StartSend, StartGroupSend, StartRegister, StartSync, Begin, Register,
         StoreSent, RefusedSend, Fetch, RefusedFetch, SkipRow, StoreRow, StoreRowTo,
         StoreContact, EndSync, Fail, FailRow, Crash, backend

(* The backend keeps what it has accepted: an id is delivered only once. *)
LEMMA WireStep ==
  ASSUME IInv, Next
  PROVE  /\ \A m \in Msg : wire[m] # None => wire'[m] = wire[m]
         /\ \A m \in Msg : wire[m] = None /\ wire'[m] # None => m \in drawn'
<1>0. TypeOK /\ IdsFresh
  BY DEF IInv
<1>1. CASE RemoteSend
  <2>1. PICK w \in Wire, m \in Msg \ drawn : Accepted(m, w) /\ drawn' = drawn \cup {m}
    BY <1>1 DEF RemoteSend, Wire, Did
  <2> QED
    BY <1>0, <2>1, AcceptedEffect DEF IdsFresh
<1>2. ASSUME NEW p \in Proc, ProcStep(p)
      PROVE  /\ \A m \in Msg : wire[m] # None => wire'[m] = wire[m]
             /\ \A m \in Msg : wire[m] = None /\ wire'[m] # None => m \in drawn'
  BY <1>0, <1>2, DeliversOwn
<1> QED
  BY <1>1, <1>2, NextCases DEF ProcStep

(* The rows a step adds, each by a sender or by a sync. *)
LEMMA RowStep ==
  ASSUME IInv, Next, NEW m \in Msg, row'[m] # row[m]
  PROVE  /\ row[m] = None
         /\ wire' = wire
         /\ \E p \in Proc :
              \/ /\ StoreSent(p) /\ m = call[p].id
                 /\ row'[m] = Outgoing(p, call[p].to)
              \/ /\ StoreRow(p) /\ m = Head(batch[p])
                 /\ row'[m] = Incoming(p)
<1>0. TypeOK
  BY DEF IInv
<1>1. PICK p \in Proc : StoreSent(p) \/ StoreRow(p)
  BY NextCases
     DEF RemoteSend, StartSend, StartGroupSend, StartRegister, StartSync, Begin, Register,
         Deliver, DeliverThen, AnswerLost, RefusedSend, Fetch, RefusedFetch, SkipRow,
         StoreContact, EndSync, Fail, FailRow, Crash, database
<1>2. CASE StoreSent(p)
  <2>1. call[p].id \in Msg /\ Outgoing(p, call[p].to) \in Row
    BY <1>2, RowTypes DEF StoreSent, End, Goto
  <2> QED
    BY <1>0, <1>2, <2>1, UpsertedType DEF StoreSent, backend
<1>3. CASE StoreRow(p)
  <2>1. Head(batch[p]) \in Msg /\ Incoming(p) \in Row
    BY <1>3, RowTypes DEF StoreRow, StoreRowTo, Goto, Accepteds
  <2> QED
    BY <1>0, <1>3, <2>1, UpsertedType DEF StoreRow, StoreRowTo, backend
<1> QED
  BY <1>1, <1>2, <1>3

(* Every step keeps RowsAreReal: a row is written from an envelope that  *)
(* the backend has shown, or by the command that has just delivered it.  *)
LEMMA RealStep ==
  ASSUME IInv, Next
  PROVE  RowsAreReal'
<1>0. TypeOK /\ RowsAreReal
  BY DEF IInv
<1> SUFFICES ASSUME NEW m \in Msg, row'[m] # None
             PROVE  /\ wire'[m] # None
                    /\ row'[m].from = wire'[m].from
                    /\ row'[m].dir = "out" => row'[m].from \in Local
                    /\ row'[m].dir = "in" => wire'[m].kind = "text"
  BY DEF RowsAreReal
<1>1. CASE row'[m] = row[m]
  BY <1>0, <1>1, WireStep DEF RowsAreReal
<1>2. CASE row'[m] # row[m]
  <2>1. /\ wire' = wire
        /\ \E p \in Proc :
             \/ StoreSent(p) /\ m = call[p].id /\ row'[m] = Outgoing(p, call[p].to)
             \/ StoreRow(p) /\ m = Head(batch[p]) /\ row'[m] = Incoming(p)
    BY <1>2, RowStep
  <2>2. PICK p \in Proc :
             \/ StoreSent(p) /\ m = call[p].id /\ row'[m] = Outgoing(p, call[p].to)
             \/ StoreRow(p) /\ m = Head(batch[p]) /\ row'[m] = Incoming(p)
    BY <2>1
  <2>3. CASE StoreSent(p) /\ m = call[p].id /\ row'[m] = Outgoing(p, call[p].to)
    <3>1. /\ pc[p] = "store" /\ call[p].me \in Local
          /\ wire[call[p].id] # None /\ wire[call[p].id].from = call[p].me
      BY <2>3 DEF StoreSent, End, Goto, IInv, PhaseOK
    <3> QED
      BY <2>1, <2>3, <3>1 DEF Outgoing
  <2>4. CASE StoreRow(p) /\ m = Head(batch[p]) /\ row'[m] = Incoming(p)
    <3>1. /\ pc[p] = "rows" /\ batch[p] # <<>> /\ wire[m].kind = "text"
      BY <2>4 DEF StoreRow, StoreRowTo, Goto, Skips
    <3>2. wire[m] # None
      BY <2>4, <3>1, RowTypes DEF Accepteds
    <3> QED
      BY <2>1, <2>4, <3>1, <3>2 DEF Incoming
  <2> QED
    BY <2>2, <2>3, <2>4
<1> QED
  BY <1>1, <1>2

(* A process's step starts a send with a new id, starts another call, ends  *)
(* the call, or goes on with it.                                           *)
StartsSend(p) ==
  /\ call[p].id = None \/ pc[p] = "idle"
  /\ call'[p].op \in {"send", "group"} /\ call'[p].me \in Local /\ call'[p].to # None
  /\ call'[p].id \in Msg \ drawn /\ drawn' = drawn \cup {call'[p].id}
  /\ UNCHANGED wire

(* What a command works on does not change until it ends.                *)
LEMMA CallStep ==
  ASSUME IInv, NEW p \in Proc, ProcStep(p)
  PROVE  \/ StartsSend(p)
         \/ /\ drawn' = drawn
            /\ call'[p].op \notin {"send", "group"} /\ call'[p].id = None
         \/ /\ drawn' = drawn /\ call' = call
            /\ \/ wire' = wire /\ (pc'[p] \in Sending => pc[p] \in Sending)
               \/ pc'[p] \notin Sending
<1>0. TypeOK
  BY DEF IInv
<1> USE <1>0 DEF TypeOK, Goto, End, Forget
<1>1. CASE StartSend(p)
  <2>1. PICK a \in Local, m \in Msg \ drawn, k \in {"text", "payload"}, to \in Did \cup Alias :
          /\ Begin(p, [to |-> to, kind |-> k, op |-> "send", me |-> a, id |-> m], "register")
          /\ drawn' = drawn \cup {m}
    BY <1>1 DEF StartSend
  <2>2. to # None
    BY MessagingAssumption DEF Did
  <2> QED
    BY <2>1, <2>2 DEF Begin, backend, StartsSend
<1>2. CASE StartGroupSend(p)
  <2>1. PICK a \in Local, m \in Msg \ drawn, g \in Group, k \in {"text", "payload"} :
          /\ Begin(p, [to |-> g, kind |-> k, op |-> "group", me |-> a, id |-> m], "send")
          /\ drawn' = drawn \cup {m}
    BY <1>2 DEF StartGroupSend
  <2>2. g # None
    BY MessagingAssumption
  <2> QED
    BY <2>1, <2>2 DEF Begin, backend, StartsSend
<1>3. CASE StartRegister(p) \/ StartSync(p)
  <2>1. PICK a \in Local, o \in {"register", "sync"} :
          call' = [call EXCEPT ![p] = [NoCall EXCEPT !.op = o, !.me = a]]
    BY <1>3 DEF StartRegister, StartSync, Begin
  <2>2. call'[p] = [NoCall EXCEPT !.op = o, !.me = a]
    BY <2>1
  <2>3. drawn' = drawn /\ call'[p].op = o /\ call'[p].id = None
    BY <1>3, <2>2 DEF StartRegister, StartSync, NoCall
  <2> QED
    BY <2>3
<1>4. CASE Register(p) \/ Deliver(p)
  BY <1>4 DEF Register, Deliver, DeliverThen, Sending, NoCall
<1>5. CASE StoreSent(p) \/ RefusedSend(p) \/ RefusedFetch(p) \/ EndSync(p) \/ Fail(p)
           \/ AnswerLost(p) \/ Crash(p)
  BY <1>5 DEF StoreSent, RefusedSend, RefusedFetch, EndSync, Fail, AnswerLost, Crash, NoCall
<1>6. CASE Fetch(p) \/ SkipRow(p) \/ StoreRow(p) \/ StoreContact(p) \/ FailRow(p)
  BY <1>6 DEF Fetch, SkipRow, StoreRow, StoreRowTo, StoreContact, FailRow, Sending
<1> QED
  BY <1>1, <1>2, <1>3, <1>4, <1>5, <1>6 DEF ProcStep

(* Every step keeps the ids apart.                                       *)
LEMMA IdsStep ==
  ASSUME IInv, Next
  PROVE  IdsFresh'
<1>0. TypeOK /\ IdsFresh
  BY DEF IInv
<1>1. drawn \subseteq drawn'
  BY NextCases
     DEF RemoteSend, StartSend, StartGroupSend, StartRegister, StartSync, Begin, Register,
         Deliver, DeliverThen, AnswerLost, RefusedSend, Fetch, RefusedFetch, SkipRow,
         StoreContact, EndSync, Fail, FailRow, Crash, database, StoreSent, StoreRow, StoreRowTo
<1>2. \A m \in Msg : wire'[m] # None => m \in drawn'
  BY <1>0, <1>1, WireStep DEF IdsFresh
<1>3. CASE RemoteSend
  <2>1. PICK w \in Wire, m \in Msg \ drawn :
          Accepted(m, w) /\ drawn' = drawn \cup {m} /\ UNCHANGED <<pc, call>>
    BY <1>3 DEF RemoteSend, Wire, Did
  <2>2. \A k \in Msg : k # m => wire'[k] = wire[k]
    BY <1>0, <2>1, AcceptedEffect
  <2>3. \A p \in Proc : call[p].op \in {"send", "group"} => call[p].id \in Msg \ {m}
    BY <1>0, <2>1 DEF IdsFresh, TypeOK
  <2> QED
    BY <1>0, <1>1, <1>2, <2>1, <2>2, <2>3 DEF IdsFresh
<1>4. ASSUME NEW p \in Proc, ProcStep(p) PROVE IdsFresh'
  <2>1. \A q \in Proc \ {p} : pc'[q] = pc[q] /\ call'[q] = call[q]
    BY <1>0, <1>4, OthersKeep
  <2>2. CASE StartsSend(p)
    <3>1. \A q \in Proc : call[q].id # call'[p].id
      BY <1>0, <2>2, MessagingAssumption DEF StartsSend, IdsFresh, TypeOK
    <3>2. wire[call'[p].id] = None
      BY <1>0, <2>2 DEF StartsSend, IdsFresh
    <3> QED
      BY <1>0, <1>1, <1>2, <2>1, <2>2, <3>1, <3>2 DEF StartsSend, IdsFresh
  <2>3. CASE drawn' = drawn /\ call'[p].op \notin {"send", "group"} /\ call'[p].id = None
    <3>1. \A q \in Proc \ {p} :
            call[q].op \in {"send", "group"} => call[q].id # None
      BY <1>0, MessagingAssumption DEF IdsFresh, TypeOK
    <3>2. \A q \in Proc \ {p} :
            call[q].op \in {"send", "group"} /\ pc[q] \in Sending => wire'[call[q].id] = None
      <4> SUFFICES ASSUME NEW q \in Proc \ {p}, call[q].op \in {"send", "group"},
                          pc[q] \in Sending, wire'[call[q].id] # None
                   PROVE  FALSE
        OBVIOUS
      <4>1. wire[call[q].id] = None /\ call[q].id \in Msg /\ call[q].id # call[p].id
        BY <1>0 DEF IdsFresh, TypeOK
      <4> QED
        BY <1>0, <1>4, <4>1, DeliversOwn
    <3> QED
      BY <1>0, <1>1, <1>2, <2>1, <2>3, <3>1, <3>2 DEF IdsFresh
  <2>4. CASE /\ drawn' = drawn /\ call' = call
             /\ \/ wire' = wire /\ (pc'[p] \in Sending => pc[p] \in Sending)
                \/ pc'[p] \notin Sending
    <3>1. \A q \in Proc :
            call[q].op \in {"send", "group"} /\ pc'[q] \in Sending => wire'[call[q].id] = None
      <4> SUFFICES ASSUME NEW q \in Proc, call[q].op \in {"send", "group"},
                          pc'[q] \in Sending, wire'[call[q].id] # None
                   PROVE  FALSE
        OBVIOUS
      <4>1. CASE q # p
        <5>1. wire[call[q].id] = None /\ call[q].id \in Msg /\ call[q].id # call[p].id
          BY <1>0, <2>1, <4>1 DEF IdsFresh, TypeOK
        <5> QED
          BY <1>0, <1>4, <5>1, DeliversOwn
      <4>2. CASE q = p
        BY <1>0, <2>4, <4>2 DEF IdsFresh
      <4> QED
        BY <4>1, <4>2
    <3> QED
      BY <1>0, <1>1, <1>2, <2>4, <3>1 DEF IdsFresh
  <2> QED
    BY <1>4, <2>2, <2>3, <2>4, CallStep
<1> QED
  BY <1>3, <1>4, NextCases DEF ProcStep

(* Every step keeps what each place in a command stands for.             *)
LEMMA PhaseStep ==
  ASSUME IInv, Next
  PROVE  PhaseOK'
<1>0. TypeOK /\ PhaseOK /\ IdsFresh
  BY DEF IInv
<1> DEFINE Phase(q) ==
    /\ pc[q] = "idle" <=> call[q].op = "none"
    /\ pc[q] = "send" => call[q].op \in {"send", "group"}
    /\ pc[q] = "register" => call[q].op \in {"send", "register"}
    /\ pc[q] = "store" =>
         /\ call[q].op = "send"
         /\ wire[call[q].id] # None
         /\ wire[call[q].id].from = call[q].me
    /\ pc[q] \in {"fetch", "rows", "contact"} => call[q].op = "sync"
    /\ call[q].op # "none" => call[q].me \in Local
    /\ call[q].op = "send" => call[q].to \in Did \cup Alias
    /\ call[q].op = "group" => call[q].to \in Group
    /\ pc[q] = "contact" => batch[q] # <<>>
<1>1. \A q \in Proc : Phase(q)
  BY <1>0 DEF PhaseOK
<1>2. \A q \in Proc : pc[q] = "store" => call[q].id \in Msg
  BY <1>0, <1>1 DEF IdsFresh, TypeOK
<1>3. ASSUME NEW q \in Proc, pc'[q] = pc[q], call'[q] = call[q], batch'[q] = batch[q]
      PROVE  Phase(q)'
  BY <1>1, <1>2, <1>3, WireStep
<1>4. CASE RemoteSend
  <2>1. UNCHANGED <<pc, call, batch>>
    BY <1>4 DEF RemoteSend
  <2> QED
    BY <1>3, <2>1 DEF PhaseOK
<1>5. ASSUME NEW p \in Proc, ProcStep(p) PROVE Phase(p)'
  <2> USE <1>0 DEF TypeOK, Goto, End, Forget
  <2>0. Phase(p)
    BY <1>1
  <2>a. CASE pc'[p] = "idle" /\ call'[p] = NoCall
    BY <2>a DEF NoCall
  <2>1. CASE StartSend(p)
    <3>1. PICK a \in Local, m \in Msg \ drawn, k \in {"text", "payload"}, to \in Did \cup Alias :
            /\ Begin(p, [to |-> to, kind |-> k, op |-> "send", me |-> a, id |-> m], "register")
            /\ drawn' = drawn \cup {m}
      BY <2>1 DEF StartSend
    <3>2. /\ pc'[p] = "register" /\ call'[p].op = "send" /\ call'[p].me \in Local
          /\ call'[p].to \in Did \cup Alias
      BY <3>1 DEF Begin
    <3> QED
      BY <3>2
  <2>2. CASE StartGroupSend(p)
    <3>1. PICK a \in Local, m \in Msg \ drawn, g \in Group, k \in {"text", "payload"} :
            /\ Begin(p, [to |-> g, kind |-> k, op |-> "group", me |-> a, id |-> m], "send")
            /\ drawn' = drawn \cup {m}
      BY <2>2 DEF StartGroupSend
    <3>2. /\ pc'[p] = "send" /\ call'[p].op = "group" /\ call'[p].me \in Local
          /\ call'[p].to \in Group
      BY <3>1 DEF Begin
    <3> QED
      BY <3>2
  <2>3. CASE StartRegister(p) \/ StartSync(p)
    <3>1. PICK a \in Local, o \in {"register", "sync"} :
            /\ call' = [call EXCEPT ![p] = [NoCall EXCEPT !.op = o, !.me = a]]
            /\ pc'[p] = IF o = "sync" THEN "fetch" ELSE "register"
      BY <2>3 DEF StartRegister, StartSync, Begin
    <3>2. call'[p] = [NoCall EXCEPT !.op = o, !.me = a]
      BY <3>1
    <3>3. call'[p].op = o /\ call'[p].me = a
      BY <3>2 DEF NoCall
    <3> QED
      BY <3>1, <3>3
  <2>4. CASE Deliver(p) /\ call[p].op = "send"
    <3>1. /\ call' = call /\ pc'[p] = "store" /\ pc[p] = "send"
          /\ \E m \in Msg : m = call[p].id /\ wire[m] = None
      BY <2>4 DEF Deliver, DeliverThen, IdsFresh, Sending
    <3>2. Accepted(call[p].id, [from |-> call[p].me, to |-> Resolved(call[p].to),
                                kind |-> call[p].kind])
      BY <2>4 DEF Deliver, DeliverThen
    <3>3. wire'[call[p].id] # wire[call[p].id]
          => wire'[call[p].id] # None /\ wire'[call[p].id].from = call[p].me
      BY <1>5, <3>1, DeliversOwn
    <3>4. call[p] \in Call /\ call[p].me \in Local /\ call[p].to # None /\ Resolves(call[p].to)
      BY <2>4, <3>1 DEF Deliver, DeliverThen, IdsFresh
    <3>5. wire'[call[p].id] # None
      BY <3>1, <3>2, <3>4, EnvelopeType, AcceptedEffect
    <3>6. /\ pc'[p] = "store" /\ call'[p] = call[p] /\ wire[call[p].id] = None
          /\ call[p].to \in Did \cup Alias
      BY <2>0, <2>4, <3>1
    <3>7. wire'[call[p].id].from = call[p].me
      BY <3>3, <3>5, <3>6
    <3> HIDE DEF Goto, End, Forget, TypeOK
    <3> QED
      BY <2>4, <3>4, <3>5, <3>6, <3>7
  <2>5. CASE Register(p) \/ (Deliver(p) /\ call[p].op # "send")
    BY <2>0, <2>5, <2>a DEF Register, Deliver, DeliverThen
  <2>6. CASE StoreSent(p) \/ RefusedSend(p) \/ RefusedFetch(p) \/ EndSync(p) \/ Fail(p)
             \/ AnswerLost(p) \/ Crash(p)
    BY <2>6, <2>a
       DEF StoreSent, RefusedSend, RefusedFetch, EndSync, Fail, AnswerLost, Crash
  <2>7. CASE Fetch(p) \/ SkipRow(p) \/ StoreRow(p) \/ StoreContact(p) \/ FailRow(p)
    <3>1. /\ call' = call /\ pc[p] \in {"fetch", "rows", "contact"}
          /\ pc'[p] \in {"rows", "contact"}
          /\ pc'[p] = "contact" => batch' = batch /\ batch[p] # <<>>
      BY <2>7 DEF Fetch, SkipRow, StoreRow, StoreRowTo, StoreContact, FailRow
    <3> QED
      BY <2>0, <3>1
  <2> QED
    BY <1>5, <2>1, <2>2, <2>3, <2>4, <2>5, <2>6, <2>7 DEF ProcStep
<1>6. ASSUME NEW p \in Proc, ProcStep(p) PROVE PhaseOK'
  <2>1. \A q \in Proc : Phase(q)'
    BY <1>0, <1>3, <1>5, <1>6, OthersKeep
  <2> QED
    BY <2>1 DEF PhaseOK
<1> QED
  BY <1>4, <1>6, NextCases DEF ProcStep

(* The invariant holds of every state: what the senders have in memory, and *)
(* with it that the database shows only what was exchanged.                 *)
THEOREM InductiveInvariant == Spec => []IInv
<1>1. Init => IInv
  BY InitType
<1>2. IInv /\ [Next]_vars => IInv'
  <2>1. CASE Next
    BY <2>1, TypeStep, RealStep, IdsStep, PhaseStep DEF IInv
  <2>2. CASE UNCHANGED vars
    BY <2>2 DEF vars, IInv, TypeOK, RowsAreReal, IdsFresh, PhaseOK
  <2> QED
    BY <2>1, <2>2
<1> QED
  BY <1>1, <1>2, PTL DEF Spec

(* service.go 113-150, 266-288: a row of the messages table is that of   *)
(* an envelope the backend has accepted, from that sender; for any       *)
(* processes, identities, groups and handles, whatever fails or is       *)
(* broadcast.                                                            *)
THEOREM OnlyExchangedIsShown == Spec => []RowsAreReal
<1>1. IInv => RowsAreReal
  BY DEF IInv
<1> QED
  BY <1>1, InductiveInvariant, PTL

(* dao.go 63-68: storing the inbox again changes no row that is there,   *)
(* whoever syncs and sends at the same time.                             *)
THEOREM StoredRowsStay == Spec => RowsStay
<1>1. IInv /\ [Next]_vars => [\A m \in Msg : row[m] # None => row'[m] = row[m]]_vars
  <2> SUFFICES ASSUME IInv, Next, NEW m \in Msg, row[m] # None
               PROVE  row'[m] = row[m]
    OBVIOUS
  <2> QED
    BY RowStep
<1> QED
  BY <1>1, InductiveInvariant, PTL DEF Spec, RowsStay

\* A step of p that fails (the disjuncts of Break).
Failing(p) == Fail(p) \/ AnswerLost(p) \/ FailRow(p) \/ Crash(p)

(* What a process's step loses is what it was sending, and only a failure   *)
(* loses it: a delivery is followed by its row.                            *)
LEMMA LostStep ==
  ASSUME IInv, Next, NEW p \in Proc, ProcStep(p), NEW m \in Lost', m \notin Lost
  PROVE  Failing(p) /\ m = call[p].id
<1>0. TypeOK /\ IdsFresh /\ PhaseOK
  BY DEF IInv
<1>1. /\ m \in Msg /\ wire'[m] # None
      /\ wire'[m].from \in Local /\ wire'[m].to \notin Group /\ row'[m] = None
      /\ \A q \in Proc : pc'[q] = "store" => call'[q].id # m
  BY DEF Lost
\* It was not delivered before.
<1>2. CASE wire[m] = None
  <2>1. m = call[p].id /\ wire'[m].to = Resolved(call[p].to)
    BY <1>1, <1>2, DeliversOwn
  <2>2. Deliver(p) \/ (AnswerLost(p) /\ pc[p] = "send")
    BY <1>1, <1>2
       DEF ProcStep, StartSend, StartGroupSend, StartRegister, StartSync, Begin, Register,
           StoreSent, RefusedSend, Fetch, RefusedFetch, SkipRow, StoreRow, StoreRowTo,
           StoreContact, EndSync, Fail, FailRow, Crash, AnswerLost, End, Goto, backend
  <2>3. ~Deliver(p)
    <3> SUFFICES ASSUME Deliver(p) PROVE FALSE
      OBVIOUS
    <3>1. pc[p] = "send"
      BY DEF Deliver, DeliverThen, End, Goto
    <3>2. call[p].op # "group"
      <4>1. call[p].op = "group" => call[p].to \in Group
        BY <1>0 DEF PhaseOK
      <4>2. call[p].to \in Group => Resolved(call[p].to) \in Group
        BY MessagingAssumption DEF Resolved
      <4> QED
        BY <1>1, <2>1, <4>1, <4>2
    <3>3. call[p].op = "send"
      BY <1>0, <3>1, <3>2 DEF PhaseOK
    <3>4. pc'[p] = "store" /\ call'[p] = call[p]
      BY <1>0, <3>3 DEF Deliver, DeliverThen, Goto, TypeOK
    <3> QED
      BY <1>1, <2>1, <3>4
  <2> QED
    BY <2>1, <2>2, <2>3 DEF Failing
\* It was, and its sender was about to record it.
<1>3. CASE wire[m] # None
  <2>1. wire'[m] = wire[m]
    BY <1>1, <1>3, WireStep
  <2>2. row[m] = None
    BY <1>1, RowStep
  <2>3. PICK q \in Proc : pc[q] = "store" /\ call[q].id = m
    BY <1>1, <1>3, <2>1, <2>2 DEF Lost
  <2>4. q = p
    BY <1>0, <1>1, <2>3, OthersKeep
  <2>5. ~StoreSent(p)
    <3>1. Outgoing(p, call[p].to) \in Row
      BY <2>3, <2>4, RowTypes
    <3>2. StoreSent(p) => row'[m] = Outgoing(p, call[p].to)
      BY <1>0, <1>1, <2>2, <2>3, <2>4, <3>1 DEF StoreSent, Upserted, TypeOK
    <3> QED
      BY <1>1, <3>1, <3>2, NoneIsNoRecord
  <2>6. Failing(p)
    <3>1. pc[p] = "store" /\ pc[p] # "idle"
      BY <2>3, <2>4
    <3>2. ~(pc'[p] = "store" /\ call'[p] = call[p])
      BY <1>1, <2>3, <2>4
    <3> QED
      BY <2>5, <3>1, <3>2
         DEF ProcStep, StartSend, StartGroupSend, StartRegister, StartSync, Begin, Register,
             Deliver, DeliverThen, RefusedSend, Fetch, RefusedFetch, SkipRow, StoreRow,
             StoreRowTo, StoreContact, EndSync, End, Goto, Failing
  <2> QED
    BY <2>3, <2>4, <2>6
<1> QED
  BY <1>2, <1>3

(* What a peer sends is not ours to lose.                                *)
LEMMA NothingLostOf ==
  ASSUME IInv, RemoteSend
  PROVE  Lost' \subseteq Lost
<1>0. TypeOK
  BY DEF IInv
<1>1. PICK w \in Wire, k \in Msg : Accepted(k, w) /\ w.from \in Remote
  BY DEF RemoteSend, Wire, Did
<1>2. \A m \in Msg : wire'[m] = IF m = k THEN w ELSE wire[m]
  BY <1>0, <1>1 DEF Accepted, TypeOK
<1>3. row' = row /\ pc' = pc /\ call' = call
  BY DEF RemoteSend, database
<1> QED
  BY <1>1, <1>2, <1>3, MessagingAssumption DEF Lost

(* A failure is counted when it happens, and nothing else is.            *)
LEMMA FaultsCount ==
  ASSUME TypeOK, Next
  PROVE  /\ faults \in Nat /\ faults' \in {faults, faults + 1}
         /\ \A p \in Proc : Failing(p) => faults' = faults + 1
<1>1. faults \in Nat
  BY MessagingAssumption DEF TypeOK
<1>2. RemoteSend => faults' = faults
  BY DEF RemoteSend
<1>3. ASSUME NEW p \in Proc, Start(p) PROVE faults' = faults
  BY <1>3 DEF Start, StartSend, StartGroupSend, StartRegister, StartSync, Begin
<1>4. ASSUME NEW p \in Proc, Proceed(p) PROVE faults' = faults
  BY <1>4 DEF Proceed, Register, Deliver, DeliverThen, StoreSent, RefusedSend, Fetch,
              RefusedFetch, SkipRow, StoreRow, StoreRowTo, StoreContact, EndSync
<1>5. ASSUME NEW p \in Proc, Failing(p) PROVE faults' = faults + 1
  BY <1>5 DEF Failing, Fail, AnswerLost, FailRow, Crash, Fault
<1> QED
  BY <1>1, <1>2, <1>3, <1>4, <1>5 DEF Next, Break, Failing

(* service.go 127-150, 281-284: a failure loses one direct message of    *)
(* ours at most and nothing else loses any, with any number of identities,*)
(* processes, peers, groups and handles and whatever fails or dies.      *)
THEOREM FailuresLoseOne == Spec => []LossesAreFailures
<1> DEFINE LostInv == IsFiniteSet(Lost) /\ Cardinality(Lost) <= faults
<1>1. Init => LostInv
  <2> SUFFICES ASSUME Init PROVE LostInv
    OBVIOUS
  <2>1. Lost = {} /\ faults = 0
    BY DEF Init, Lost
  <2> QED
    BY <2>1, FS_EmptySet
<1>2. IInv /\ LostInv /\ [Next]_vars => LostInv'
  <2> SUFFICES ASSUME IInv, LostInv, [Next]_vars PROVE LostInv'
    OBVIOUS
  <2>0. TypeOK
    BY DEF IInv
  <2>1. Cardinality(Lost) \in Nat /\ faults \in Nat
    BY <2>0, FS_CardinalityType, MessagingAssumption DEF TypeOK
  <2>2. ASSUME Lost' \subseteq Lost, faults' \in {faults, faults + 1}
        PROVE  LostInv'
    <3>1. IsFiniteSet(Lost') /\ Cardinality(Lost') <= Cardinality(Lost)
      BY <2>2, FS_Subset
    <3>2. Cardinality(Lost') \in Nat
      BY <3>1, FS_CardinalityType
    <3> QED
      BY <2>1, <2>2, <3>1, <3>2
  <2>3. CASE UNCHANGED vars
    <3>1. Lost' = Lost /\ faults' = faults
      BY <2>3 DEF vars, Lost
    <3> QED
      BY <2>2, <3>1
  <2>4. CASE Next
    <3>1. /\ faults' \in {faults, faults + 1}
          /\ \A p \in Proc : Failing(p) => faults' = faults + 1
      BY <2>0, <2>4, FaultsCount
    <3>2. CASE RemoteSend
      BY <2>2, <3>1, <3>2, NothingLostOf
    <3>3. ASSUME NEW p \in Proc, ProcStep(p), ~Failing(p) PROVE LostInv'
      <4>1. Lost' \subseteq Lost
        BY <2>4, <3>3, LostStep
      <4> QED
        BY <2>2, <3>1, <4>1
    <3>4. ASSUME NEW p \in Proc, ProcStep(p), Failing(p) PROVE LostInv'
      <4> DEFINE More == Lost \cup {call[p].id}
      <4>1. Lost' \subseteq More
        BY <2>4, <3>4, LostStep
      <4>2. IsFiniteSet(More) /\ Cardinality(More) <= Cardinality(Lost) + 1
        BY <2>1, FS_AddElement
      <4>3. Cardinality(More) \in Nat
        BY <4>2, FS_CardinalityType
      <4> HIDE DEF More
      <4>4. IsFiniteSet(Lost') /\ Cardinality(Lost') <= Cardinality(More)
        BY <4>1, <4>2, FS_Subset
      <4>5. Cardinality(Lost') \in Nat
        BY <4>4, FS_CardinalityType
      <4> QED
        BY <2>1, <3>1, <3>4, <4>2, <4>3, <4>4, <4>5
    <3> QED
      BY <2>4, <3>2, <3>3, <3>4, NextCases DEF ProcStep
  <2> QED
    BY <2>3, <2>4
<1>3. LostInv => LossesAreFailures
  BY DEF LossesAreFailures
<1> QED
  BY <1>1, <1>2, <1>3, InductiveInvariant, PTL DEF Spec

(* What implementing Mailbox takes beyond IInv: what a sync still goes     *)
(* through is in its identity's inbox, what it takes a contact from has    *)
(* its row, and what a sender is about to record went to whom it names.    *)
Found(a) == {m \in Accepteds : \E i \in 1..Len(inbox[a]) : i <= Limit /\ inbox[a][i] = m}
BoxInv ==
  \A p \in Proc :
    /\ pc[p] \in {"rows", "contact"} => batch[p] \in Seq(Found(call[p].me))
    /\ pc[p] = "contact" => row[Head(batch[p])] # None
    /\ pc[p] = "store" => Resolved(call[p].to) = wire[call[p].id].to

(* An envelope is posted: taken under a new id, and put into the inboxes   *)
(* it is for (mock.go 266-293, 475-505).                                   *)
LEMMA PostRefines ==
  ASSUME TypeOK, NEW m \in Msg, NEW w \in Wire, wire[m] = None, Accepted(m, w),
         UNCHANGED database
  PROVE  Box!Next
<1> DEFINE A == {a \in Local : Reaches(w, a)}
<1>1. /\ w.to \in Group => A = Local
      /\ w.to \in Local => w.to \in A
      /\ A \in SUBSET Local
  BY DEF Reaches
<1>2. inbox' = [a \in Local |-> IF a \in A THEN Append(inbox[a], m) ELSE inbox[a]]
  BY DEF Accepted
<1> HIDE DEF A
<1>3. Box!Post(m, w)
  BY <1>1, <1>2 DEF Accepted, database, Box!Post
<1> QED
  BY <1>3 DEF Box!Next

(* The steps that post: a peer's, a delivery, and one whose answer is lost; *)
(* no other step touches the backend's messages.                           *)
LEMMA WireCases ==
  ASSUME IInv, Next
  PROVE  \/ UNCHANGED <<wire, inbox>>
         \/ /\ UNCHANGED database
            /\ \E m \in Msg, w \in Wire : wire[m] = None /\ Accepted(m, w)
<1>0. TypeOK /\ IdsFresh
  BY DEF IInv
<1>1. CASE RemoteSend
  <2>1. PICK w \in Wire, m \in Msg \ drawn : Accepted(m, w)
    BY <1>1 DEF RemoteSend, Wire, Did
  <2> QED
    BY <1>0, <1>1, <2>1 DEF RemoteSend, IdsFresh
<1>2. ASSUME NEW p \in Proc, Deliver(p) \/ (AnswerLost(p) /\ pc[p] = "send")
      PROVE  /\ UNCHANGED database
             /\ \E m \in Msg, w \in Wire : wire[m] = None /\ Accepted(m, w)
  <2> DEFINE w == [from |-> call[p].me, to |-> Resolved(call[p].to), kind |-> call[p].kind]
  <2>1. /\ pc[p] = "send" /\ Resolves(call[p].to) /\ Accepted(call[p].id, w)
        /\ UNCHANGED database
    BY <1>2 DEF Deliver, DeliverThen, AnswerLost, End, Goto
  <2>2. /\ call[p] \in Call /\ call[p].me \in Local /\ call[p].to # None
        /\ wire[call[p].id] = None /\ call[p].id \in Msg
    BY <1>0, <2>1 DEF IInv, PhaseOK, IdsFresh, TypeOK, Sending
  <2>3. w \in Wire
    BY <1>0, <2>1, <2>2, EnvelopeType
  <2> HIDE DEF w
  <2> QED
    BY <2>1, <2>2, <2>3
<1>3. \A p \in Proc : ProcStep(p) =>
        \/ Deliver(p) \/ (AnswerLost(p) /\ pc[p] = "send")
        \/ UNCHANGED <<wire, inbox>>
  BY DEF ProcStep, StartSend, StartGroupSend, StartRegister, StartSync, Begin, Register,
         StoreSent, RefusedSend, Fetch, RefusedFetch, SkipRow, StoreRow, StoreRowTo,
         StoreContact, EndSync, Fail, FailRow, Crash, AnswerLost, End, Goto, backend
<1> QED
  BY <1>1, <1>2, <1>3, NextCases DEF ProcStep

(* What was in an inbox stays where it is.                               *)
LEMMA InboxGrows ==
  ASSUME IInv, Next, NEW a \in Local
  PROVE  \A i \in 1..Len(inbox[a]) : i \in 1..Len(inbox'[a]) /\ inbox'[a][i] = inbox[a][i]
<1>0. TypeOK
  BY DEF IInv
<1>1. CASE UNCHANGED inbox
  BY <1>1
<1>2. CASE \E m \in Msg, w \in Wire : Accepted(m, w)
  <2>1. PICK m \in Msg, w \in Wire : Accepted(m, w)
    BY <1>2
  <2>2. inbox'[a] = inbox[a] \/ inbox'[a] = Append(inbox[a], m)
    BY <2>1 DEF Accepted
  <2>3. inbox[a] \in Seq(Msg)
    <3>1. inbox[a] \in Seq(Accepteds)
      BY <1>0 DEF TypeOK, Accepteds
    <3>2. Accepteds \subseteq Msg
      BY DEF Accepteds
    <3> QED
      BY <3>1, <3>2, SeqMonotonic
  <2> QED
    BY <2>2, <2>3, AppendProperties, LenProperties
<1> QED
  BY <1>1, <1>2, WireCases

(* And a sync can still find it there.                                   *)
LEMMA FoundStep ==
  ASSUME IInv, Next, NEW a \in Local
  PROVE  Found(a) \subseteq Found(a)'
<1>1. Accepteds \subseteq Accepteds'
  BY WireStep DEF Accepteds
<1> QED
  BY <1>1, InboxGrows DEF Found

(* Storing what it fetched takes a sync to the contact, and nothing else   *)
(* does.                                                                   *)
LEMMA ContactEnters ==
  ASSUME IInv, Next, NEW q \in Proc, pc'[q] = "contact"
  PROVE  batch'[q] = batch[q] /\ (pc[q] = "contact" \/ StoreRow(q))
<1>0. TypeOK
  BY DEF IInv
<1>1. ASSUME ProcStep(q)
      PROVE  batch'[q] = batch[q] /\ StoreRow(q)
  BY <1>0, <1>1
     DEF TypeOK, ProcStep, StartSend, StartGroupSend, StartRegister, StartSync, Begin, Register,
         Deliver, DeliverThen, RefusedSend, Fetch, RefusedFetch, SkipRow, StoreRow, StoreSent,
         StoreRowTo, StoreContact, EndSync, Fail, FailRow, Crash, AnswerLost, End, Goto
<1> QED
  BY <1>1, OwnStep

(* BoxInv is kept by every step.                                         *)
LEMMA BoxStep ==
  ASSUME IInv, BoxInv, Next
  PROVE  BoxInv'
<1>0. TypeOK /\ PhaseOK /\ IdsFresh
  BY DEF IInv
<1>1. ASSUME NEW q \in Proc, pc'[q] \in {"rows", "contact"}
      PROVE  batch'[q] \in Seq(Found(call[q].me)')
  <2>1. call[q].me \in Local =>
          Oldest(inbox[call[q].me], Limit) \in Seq(Found(call[q].me))
    <3>1. SUFFICES ASSUME NEW a \in Local PROVE Oldest(inbox[a], Limit) \in Seq(Found(a))
      OBVIOUS
    <3>2. inbox[a] \in Seq(Accepteds)
      BY <1>0 DEF TypeOK, Accepteds
    <3>3. \A i \in 1..Len(Oldest(inbox[a], Limit)) : Oldest(inbox[a], Limit)[i] \in Found(a)
      BY <3>2, OldestIs, ElementOfSeq, LenProperties, MessagingAssumption DEF Found
    <3> QED
      BY <3>2, <3>3, OldestType, LenProperties, IsASeq
  <2>2. batch'[q] \in Seq(Found(call[q].me)) /\ call'[q] = call[q]
    BY <1>1, <2>1, FetchedStep DEF BoxInv
  <2>3. call[q].me \in Local
    BY <1>1, <2>2, PhaseStep DEF PhaseOK
  <2>4. \A a \in Local : a = call[q].me => batch'[q] \in Seq(Found(a)')
    BY <2>2, FoundStep, SeqMonotonic
  <2>5. call'[q].me = call[q].me
    BY <2>2
  <2> QED
    BY <2>3, <2>4, <2>5 DEF Found
\* A row that has been stored stays.
<1>2. ASSUME NEW q \in Proc, pc'[q] = "contact"
      PROVE  row'[Head(batch'[q])] # None
  <2>1. batch'[q] = batch[q] /\ (pc[q] = "contact" \/ StoreRow(q))
    BY <1>2, ContactEnters
  <2>2. batch[q] # <<>> /\ pc[q] \in {"rows", "contact"}
    BY <1>0, <2>1 DEF PhaseOK, StoreRow, StoreRowTo, Goto
  <2>3. Head(batch[q]) \in Msg /\ Incoming(q) \in Row
    BY <2>2, RowTypes DEF Accepteds
  <2>4. CASE pc[q] = "contact"
    <3>1. row[Head(batch[q])] # None
      BY <2>4 DEF BoxInv
    <3> QED
      BY <2>1, <2>3, <3>1, RowStep
  <2>5. CASE StoreRow(q)
    <3>1. row' = Upserted(Head(batch[q]), Incoming(q))
      BY <2>5 DEF StoreRow, StoreRowTo
    <3>2. row'[Head(batch[q])] # None
      BY <1>0, <2>3, <3>1, NoneIsNoRecord DEF Upserted, TypeOK
    <3> QED
      BY <2>1, <3>2
  <2> QED
    BY <2>1, <2>4, <2>5
<1>3. ASSUME NEW q \in Proc, pc'[q] = "store"
      PROVE  Resolved(call'[q].to) = wire'[call'[q].id].to
  <2>1. call'[q] = call[q] /\ (pc[q] = "store" \/ Deliver(q))
    BY <1>3, StoreEnters
  <2>2. CASE pc[q] = "store"
    <3>1. /\ call[q].id \in Msg /\ wire[call[q].id] # None
          /\ Resolved(call[q].to) = wire[call[q].id].to
      BY <1>0, <2>2 DEF BoxInv, IdsFresh, PhaseOK, TypeOK
    <3> QED
      BY <2>1, <3>1, WireStep
  <2>3. CASE Deliver(q)
    <3>1. /\ pc[q] = "send" /\ wire[call[q].id] = None
      BY <1>0, <2>3 DEF Deliver, DeliverThen, End, Goto, IdsFresh, PhaseOK, Sending
    <3>2. wire'[call[q].id] # wire[call[q].id]
      BY <1>3, <2>1, <3>1, PhaseStep DEF PhaseOK
    <3> QED
      BY <2>1, <2>3, <3>2, DeliversOwn DEF ProcStep
  <2> QED
    BY <2>1, <2>2, <2>3
<1> QED
  BY <1>1, <1>2, <1>3 DEF BoxInv

(* A row appears in one step of Mailbox, from the sender or from an inbox. *)
LEMMA RowRefines ==
  ASSUME IInv, BoxInv, NEW p \in Proc, StoreSent(p) \/ StoreRow(p)
  PROVE  [Box!Next]_<<wire, inbox, row, contact>>
<1>0. TypeOK /\ PhaseOK
  BY DEF IInv
<1>1. CASE StoreSent(p) /\ row[call[p].id] = None
  <2> DEFINE m == call[p].id
  <2>1. /\ pc[p] = "store" /\ row' = [row EXCEPT ![m] = Outgoing(p, call[p].to)]
        /\ UNCHANGED <<wire, inbox, contact>>
    BY <1>1 DEF StoreSent, End, Goto, Upserted, backend
  <2>2. /\ m \in Msg /\ wire[m] # None /\ wire[m].from = call[p].me
        /\ call[p].me \in Local /\ call[p].to \in Did \cup Alias
        /\ Resolved(call[p].to) = wire[m].to
    BY <1>0, <2>1, RowTypes DEF PhaseOK, BoxInv
  <2>3. call[p].to \in Box!Names(wire[m].to)
    BY <2>2 DEF Resolved, Box!Names
  <2>4. Outgoing(p, call[p].to) = [from |-> wire[m].from, to |-> call[p].to,
                                   dir |-> "out", read |-> TRUE]
    BY <2>2 DEF Outgoing
  <2> HIDE DEF m
  <2>5. Box!Record(m)
    BY <1>1, <2>1, <2>2, <2>3, <2>4 DEF m, Box!Record
  <2> QED
    BY <2>2, <2>5 DEF Box!Next
<1>2. CASE StoreRow(p) /\ row[Head(batch[p])] = None
  <2> DEFINE m == Head(batch[p])
             a == call[p].me
  <2>1. /\ pc[p] = "rows" /\ batch[p] # <<>> /\ ~Skips(wire[m], a)
        /\ row' = [row EXCEPT ![m] = Incoming(p)]
        /\ UNCHANGED <<wire, inbox, contact>>
    BY <1>2 DEF StoreRow, StoreRowTo, Goto, Upserted, backend
  <2>2. a \in Local /\ m \in Found(a)
    <3>1. batch[p] \in Seq(Found(a))
      BY <2>1 DEF BoxInv
    <3> QED
      BY <1>0, <2>1, <3>1, HeadTailProperties DEF PhaseOK
  <2>3. Incoming(p) = [from |-> wire[m].from,
                       to |-> IF wire[m].to \in Group THEN wire[m].to ELSE a,
                       dir |-> "in", read |-> FALSE]
    BY DEF Incoming
  <2>4. m \in Msg /\ \E i \in 1..Len(inbox[a]) : i <= Limit /\ inbox[a][i] = m
    BY <2>2 DEF Found, Accepteds
  <2>5. wire[m].kind = "text" /\ wire[m].from # a /\ row[m] = None
    BY <1>2, <2>1 DEF Skips
  <2> HIDE DEF m, a
  <2>6. Box!Keep(m, a)
    BY <2>1, <2>3, <2>4, <2>5 DEF Box!Keep
  <2> QED
    BY <2>2, <2>4, <2>6 DEF Box!Next
<1>3. CASE \/ StoreSent(p) /\ row[call[p].id] # None
           \/ StoreRow(p) /\ row[Head(batch[p])] # None
  BY <1>3 DEF StoreSent, StoreRow, StoreRowTo, Upserted, backend
<1> QED
  BY <1>1, <1>2, <1>3

(* A contact is somebody whose message has its row.                      *)
LEMMA MeetRefines ==
  ASSUME IInv, BoxInv, NEW p \in Proc, StoreContact(p)
  PROVE  Box!Next
<1> DEFINE m == Head(batch[p])
<1>1. /\ pc[p] = "contact" /\ contact' = contact \cup {wire[m].from}
      /\ UNCHANGED <<wire, inbox, row>>
  BY DEF StoreContact, Goto, backend
<1>2. row[m] # None /\ m \in Msg
  <2>1. batch[p] # <<>>
    BY <1>1 DEF IInv, PhaseOK
  <2> QED
    BY <1>1, <2>1, RowTypes DEF BoxInv, Accepteds
<1>3. row[m].from = wire[m].from
  BY <1>2 DEF IInv, RowsAreReal
<1> HIDE DEF m
<1>4. Box!Meet(m)
  BY <1>1, <1>2, <1>3 DEF Box!Meet
<1> QED
  BY <1>2, <1>4 DEF Box!Next

(* What a process has in memory stays true of every state.               *)
LEMMA BoxAlways == Spec => []BoxInv
<1>1. Init => BoxInv
  BY DEF Init, BoxInv
<1>2. IInv /\ BoxInv /\ [Next]_vars => BoxInv'
  <2>1. CASE Next
    BY <2>1, BoxStep
  <2>2. CASE UNCHANGED vars
    BY <2>2 DEF vars, BoxInv, Found, Accepteds
  <2> QED
    BY <2>1, <2>2
<1> QED
  BY <1>1, <1>2, InductiveInvariant, PTL DEF Spec

(* service.go 103-294, mock.go 266-293, 475-505, dao.go 58-70: whichever *)
(* processes send and sync at once, and whatever calls fail, answers are *)
(* lost or processes die, messages are taken, shown, kept and told of as *)
(* Mailbox promises: an id is one message, a row is made once, and a     *)
(* contact is somebody a row is from.                                    *)
THEOREM ImplementsMailbox == Spec => MailboxSpec
<1>1. Init => Box!Init
  BY DEF Init, Box!Init
<1>2. IInv /\ BoxInv /\ [Next]_vars => [Box!Next]_<<wire, inbox, row, contact>>
  <2> SUFFICES ASSUME IInv, BoxInv, Next PROVE [Box!Next]_<<wire, inbox, row, contact>>
    BY DEF vars
  <2>1. CASE UNCHANGED database /\ \E m \in Msg, w \in Wire : wire[m] = None /\ Accepted(m, w)
    BY <2>1, PostRefines DEF IInv
  <2>2. CASE UNCHANGED <<wire, inbox>>
    <3>1. \A p \in Proc :
            ProcStep(p) => \/ StoreSent(p) \/ StoreRow(p) \/ StoreContact(p)
                           \/ UNCHANGED database
      BY DEF ProcStep, StartSend, StartGroupSend, StartRegister, StartSync, Begin, Register,
             Deliver, DeliverThen, RefusedSend, Fetch, RefusedFetch, SkipRow,
             EndSync, Fail, FailRow, Crash, AnswerLost, database
    <3>2. RemoteSend => UNCHANGED database
      BY DEF RemoteSend
    <3>3. CASE UNCHANGED database
      BY <2>2, <3>3 DEF database
    <3> QED
      BY <3>1, <3>2, <3>3, NextCases, RowRefines, MeetRefines DEF ProcStep
  <2> QED
    BY <2>1, <2>2, WireCases
<1> QED
  BY <1>1, <1>2, InductiveInvariant, BoxAlways, PTL DEF Spec, MailboxSpec, Box!Spec

(* What a sync can find stays where it is.                               *)
LEMMA OldestGrows ==
  ASSUME IInv, Next, NEW a \in Local
  PROVE  \A i \in 1..Len(Oldest(inbox[a], Limit)) :
           /\ i \in 1..Len(Oldest(inbox'[a], Limit))
           /\ Oldest(inbox'[a], Limit)[i] = Oldest(inbox[a], Limit)[i]
           /\ Oldest(inbox[a], Limit)[i] \in Accepteds
<1>1. inbox[a] \in Seq(Accepteds) /\ inbox'[a] \in Seq(Accepteds')
  BY TypeStep DEF IInv, TypeOK, Accepteds
<1>2. Limit \in Nat
  BY MessagingAssumption
<1>3. Len(inbox[a]) \in Nat /\ Len(inbox'[a]) \in Nat
  BY <1>1, LenProperties
<1>4. /\ Len(Oldest(inbox[a], Limit)) = IF Len(inbox[a]) < Limit THEN Len(inbox[a]) ELSE Limit
      /\ \A i \in 1..Len(Oldest(inbox[a], Limit)) : Oldest(inbox[a], Limit)[i] = inbox[a][i]
  BY <1>1, OldestIs
<1>5. /\ Len(Oldest(inbox'[a], Limit)) = IF Len(inbox'[a]) < Limit THEN Len(inbox'[a]) ELSE Limit
      /\ \A i \in 1..Len(Oldest(inbox'[a], Limit)) : Oldest(inbox'[a], Limit)[i] = inbox'[a][i]
  BY <1>1, OldestIs
<1> SUFFICES ASSUME NEW i \in 1..Len(Oldest(inbox[a], Limit))
             PROVE  /\ i \in 1..Len(Oldest(inbox'[a], Limit))
                    /\ Oldest(inbox'[a], Limit)[i] = Oldest(inbox[a], Limit)[i]
                    /\ Oldest(inbox[a], Limit)[i] \in Accepteds
  OBVIOUS
<1>6. i \in 1..Len(inbox[a]) /\ i <= Limit
  BY <1>2, <1>3, <1>4
<1>7. i \in 1..Len(inbox'[a]) /\ inbox'[a][i] = inbox[a][i] /\ inbox[a][i] \in Accepteds
  BY <1>1, <1>6, InboxGrows, ElementOfSeq
<1>8. i \in 1..Len(Oldest(inbox'[a], Limit))
  BY <1>2, <1>3, <1>5, <1>6, <1>7
<1> QED
  BY <1>4, <1>5, <1>7, <1>8

(* Rows and contacts are not taken away.                                 *)
LEMMA KeptStays ==
  ASSUME IInv, Next, NEW m \in Accepteds, NEW a, Kept(m, a)
  PROVE  Kept(m, a)'
<1>1. wire'[m] = wire[m] /\ m \in Msg
  BY WireStep DEF Accepteds
<1>2. row[m] # None => row'[m] # None
  BY <1>1, RowStep
<1>3. contact \subseteq contact'
  BY NextCases
     DEF RemoteSend, StartSend, StartGroupSend, StartRegister, StartSync, Begin, Register,
         Deliver, DeliverThen, AnswerLost, RefusedSend, Fetch, RefusedFetch, SkipRow,
         StoreContact, EndSync, Fail, FailRow, Crash, database, StoreSent, StoreRow, StoreRowTo
<1> QED
  BY <1>1, <1>2, <1>3 DEF Kept, Skips

(* How far a sync is: k of what it can find are behind it, all in K.     *)
At(there, rest, K, k) ==
  /\ k \in 0..Len(there) - Len(rest)
  /\ \A i \in 1..Len(rest) : rest[i] = there[k + i]
  /\ \A i \in 1..k : there[i] \in K

(* Having dealt with the first of what it has at hand, it is one further. *)
LEMMA Further ==
  ASSUME NEW S, NEW there \in Seq(S), NEW rest \in Seq(S), rest # <<>>, NEW K, NEW k,
         At(there, rest, K, k), Head(rest) \in K
  PROVE  At(there, Tail(rest), K, k + 1)
<1>1. /\ Len(there) \in Nat /\ Len(rest) \in Nat /\ Len(rest) # 0
      /\ Len(Tail(rest)) = Len(rest) - 1 /\ Tail(rest) \in Seq(S)
      /\ \A i \in 1..Len(Tail(rest)) : Tail(rest)[i] = rest[i + 1]
      /\ Head(rest) = rest[1]
  BY LenProperties, HeadTailProperties, EmptySeq
<1>2. k \in Nat /\ k + Len(rest) <= Len(there)
  BY <1>1 DEF At
<1>3. k + 1 \in 0..Len(there) - Len(Tail(rest))
  BY <1>1, <1>2
<1>4. ASSUME NEW i \in 1..Len(Tail(rest)) PROVE Tail(rest)[i] = there[(k + 1) + i]
  <2>1. i + 1 \in 1..Len(rest) /\ k + (i + 1) = (k + 1) + i
    BY <1>1, <1>2
  <2>2. rest[i + 1] = there[k + (i + 1)]
    BY <2>1 DEF At
  <2> QED
    BY <1>1, <2>1, <2>2
<1>5. ASSUME NEW i \in 1..(k + 1) PROVE there[i] \in K
  <2>1. CASE i \in 1..k
    BY <2>1 DEF At
  <2>2. CASE i = k + 1
    <3>1. rest[1] = there[k + 1]
      BY <1>1, <1>2 DEF At
    <3> QED
      BY <1>1, <2>2, <3>1
  <2> QED
    BY <1>2, <2>1, <2>2
<1> QED
  BY <1>3, <1>4, <1>5 DEF At

(* It stays as far as it is when more arrives and more is stored.        *)
LEMMA AsFar ==
  ASSUME NEW S, NEW T, NEW s \in Seq(S), NEW t \in Seq(T), NEW rest \in Seq(S),
         \A i \in 1..Len(s) : i \in 1..Len(t) /\ t[i] = s[i],
         NEW K, NEW L, K \subseteq L, NEW k, At(s, rest, K, k)
  PROVE  At(t, rest, L, k)
<1>1. Len(s) \in Nat /\ Len(t) \in Nat /\ Len(rest) \in Nat
  BY LenProperties
<1>2. Len(s) <= Len(t)
  <2>1. CASE Len(s) = 0
    BY <1>1, <2>1
  <2>2. CASE Len(s) # 0
    <3>1. Len(s) \in 1..Len(s)
      BY <1>1, <2>2
    <3> QED
      BY <1>1, <3>1
  <2> QED
    BY <2>1, <2>2
<1>3. k \in Nat /\ k + Len(rest) <= Len(s)
  BY <1>1 DEF At
<1>4. k \in 0..Len(t) - Len(rest)
  BY <1>1, <1>2, <1>3
<1>5. \A i \in 1..Len(rest) : rest[i] = t[k + i]
  <2>1. \A i \in 1..Len(rest) : k + i \in 1..Len(s)
    BY <1>1, <1>3
  <2> QED
    BY <2>1 DEF At
<1>6. \A i \in 1..k : t[i] \in L
  <2>1. \A i \in 1..k : i \in 1..Len(s)
    BY <1>1, <1>3
  <2> QED
    BY <2>1 DEF At
<1> QED
  BY <1>4, <1>5, <1>6 DEF At

\* What a need not store any more.
KeptOf(a) == {m \in Accepteds : Kept(m, a)}

(* NoGaps in these terms.                                                *)
LEMMA NoGapsIs ==
  ASSUME IInv, NEW q \in Proc, pc[q] \in {"rows", "contact"}, NEW a, a = call[q].me
  PROVE  /\ a \in Local
         /\ Oldest(inbox[a], Limit) \in Seq(Accepteds)
         /\ NoGaps /\ RowsAccepted =>
              \E k : At(Oldest(inbox[a], Limit), batch[q], KeptOf(a), k)
<1>1. a \in Local
  BY DEF IInv, PhaseOK
<1>2. inbox[a] \in Seq(Accepteds) /\ batch[q] \in Seq(Accepteds)
  BY <1>1 DEF IInv, TypeOK, Accepteds
<1> DEFINE there == Oldest(inbox[a], Limit)
<1>3. there \in Seq(Accepteds)
  BY <1>2, OldestType
<1>4. ASSUME NoGaps, RowsAccepted
      PROVE  \E k : At(there, batch[q], KeptOf(a), k)
  <2>1. PICK k \in 0..Len(there) - Len(batch[q]) :
          /\ \A i \in 1..Len(batch[q]) : batch[q][i] = there[k + i]
          /\ \A i \in 1..k : Kept(there[i], a)
    BY <1>4 DEF NoGaps
  <2>2. \A i \in 1..k : i \in 1..Len(there)
    BY <1>2, <1>3, LenProperties
  <2>3. \A i \in 1..k : there[i] \in KeptOf(a)
    BY <1>3, <2>1, <2>2, ElementOfSeq DEF KeptOf
  <2> QED
    BY <2>1, <2>3 DEF At
<1> QED
  BY <1>1, <1>3, <1>4

(* Every step keeps NoGaps, as a sync passes over nothing but what it    *)
(* skips or has stored.                                                  *)
LEMMA GapStep ==
  ASSUME IInv, BoxInv, NoGaps, Next
  PROVE  NoGaps'
<1>0. TypeOK /\ PhaseOK
  BY DEF IInv
<1> SUFFICES ASSUME RowsAccepted', NEW q \in Proc, pc'[q] \in {"rows", "contact"}
             PROVE  \E k \in 0..Len(Oldest(inbox'[call'[q].me], Limit)) - Len(batch'[q]) :
                      /\ \A i \in 1..Len(batch'[q]) :
                           batch'[q][i] = Oldest(inbox'[call'[q].me], Limit)[k + i]
                      /\ \A i \in 1..k :
                           LET m == Oldest(inbox'[call'[q].me], Limit)[i]
                           IN \/ Skips(wire'[m], call'[q].me)
                              \/ row'[m] # None /\ wire'[m].from \in contact'
  BY DEF NoGaps, Kept
<1>a. RowsAccepted
  BY <1>0, FaultsCount DEF RowsAccepted
<1>1. call'[q] = call[q]
  <2>1. /\ call[q].me \in Local => Oldest(inbox[call[q].me], Limit) \in Seq(Accepteds)
        /\ batch[q] \in Seq(Accepteds)
    BY <1>0, OldestType DEF TypeOK, Accepteds
  <2> QED
    BY <2>1, FetchedStep
<1>2. PICK a \in Local : a = call[q].me /\ a = call'[q].me
  BY <1>1, PhaseStep DEF PhaseOK
<1> DEFINE there == Oldest(inbox[a], Limit)
           after == Oldest(inbox'[a], Limit)
           L == {m \in Accepteds' : \/ Skips(wire'[m], a)
                                    \/ row'[m] # None /\ wire'[m].from \in contact'}
<1>3. /\ there \in Seq(Accepteds) /\ after \in Seq(Accepteds') /\ batch[q] \in Seq(Accepteds)
      /\ \A i \in 1..Len(there) : i \in 1..Len(after) /\ after[i] = there[i]
  BY <1>0, TypeStep, OldestType, OldestGrows DEF TypeOK, Accepteds
<1>4. KeptOf(a) \subseteq L
  <2> SUFFICES ASSUME NEW m \in Accepteds, Kept(m, a) PROVE m \in L
    BY DEF KeptOf
  <2>1. Kept(m, a)'
    BY KeptStays
  <2> QED
    BY <2>1, WireStep DEF Kept, Accepteds
<1>5. ASSUME NEW K, K \subseteq L, NEW k, At(there, batch'[q], K, k),
             batch'[q] \in Seq(Accepteds)
      PROVE  \E j \in 0..Len(after) - Len(batch'[q]) :
               /\ \A i \in 1..Len(batch'[q]) : batch'[q][i] = after[j + i]
               /\ \A i \in 1..j : after[i] \in L
  <2> HIDE DEF there, after, L
  <2>1. At(after, batch'[q], L, k)
    BY <1>3, <1>5, AsFar
  <2> QED
    BY <2>1 DEF At
<1> SUFFICES \E K, k : /\ K \subseteq L /\ batch'[q] \in Seq(Accepteds)
                       /\ At(there, batch'[q], K, k)
  BY <1>2, <1>5
<1> HIDE DEF there, after, L
<1>6. CASE pc[q] \in {"rows", "contact"} /\ batch'[q] = batch[q]
  <2>1. \E k : At(there, batch[q], KeptOf(a), k)
    BY <1>a, <1>2, <1>6, NoGapsIs DEF there
  <2> QED
    BY <1>3, <1>4, <1>6, <2>1
<1>7. CASE Fetch(q)
  <2>1. batch'[q] = there
    BY <1>0, <1>2, <1>7 DEF Fetch, TypeOK, there
  <2>2. At(there, there, {}, 0)
    BY <1>3, LenProperties DEF At
  <2> QED
    BY <1>3, <2>1, <2>2
\* What is at hand is dealt with.
<1>8. ASSUME pc[q] \in {"rows", "contact"}, batch[q] # <<>>, batch'[q] = Tail(batch[q]),
             Head(batch[q]) \in L
      PROVE  \E K, k : /\ K \subseteq L /\ batch'[q] \in Seq(Accepteds)
                       /\ At(there, batch'[q], K, k)
  <2>1. PICK k : At(there, batch[q], KeptOf(a), k)
    BY <1>a, <1>2, <1>8, NoGapsIs DEF there
  <2>2. At(there, batch[q], L, k)
    BY <1>3, <1>4, <2>1, AsFar
  <2>3. At(there, Tail(batch[q]), L, k + 1)
    BY <1>3, <1>8, <2>2, Further
  <2>4. Tail(batch[q]) \in Seq(Accepteds)
    BY <1>3, <1>8, HeadTailProperties
  <2> QED
    BY <1>8, <2>3, <2>4
<1>9. CASE SkipRow(q) \/ StoreContact(q)
  <2>1. /\ pc[q] \in {"rows", "contact"} /\ batch[q] # <<>> /\ batch'[q] = Tail(batch[q])
    BY <1>0, <1>9 DEF SkipRow, StoreContact, Goto, TypeOK, PhaseOK
  <2>2. Head(batch[q]) \in Accepteds /\ Head(batch[q]) \in Accepteds'
    BY <2>1, RowTypes, WireStep DEF Accepteds
  <2>3. wire'[Head(batch[q])] = wire[Head(batch[q])] /\ row' = row
    BY <1>9 DEF SkipRow, StoreContact, backend, database
  <2>4. ASSUME SkipRow(q) PROVE Head(batch[q]) \in L
    BY <1>2, <2>2, <2>3, <2>4 DEF SkipRow, L
  <2>5. ASSUME StoreContact(q) PROVE Head(batch[q]) \in L
    <3>1. row[Head(batch[q])] # None /\ wire[Head(batch[q])].from \in contact'
      BY <2>5 DEF StoreContact, Goto, BoxInv
    <3> QED
      BY <2>2, <2>3, <3>1 DEF L
  <2>6. Head(batch[q]) \in L
    BY <1>9, <2>4, <2>5
  <2> QED
    BY <1>8, <2>1, <2>6
<1>10. \/ pc[q] \in {"rows", "contact"} /\ batch'[q] = batch[q]
       \/ Fetch(q) \/ SkipRow(q) \/ StoreContact(q)
  <2>1. CASE pc'[q] = pc[q] /\ batch'[q] = batch[q]
    BY <2>1
  <2>2. CASE ProcStep(q)
    <3>1. ~FailRow(q)
      <4>1. ASSUME FailRow(q) PROVE faults' # 0 /\ pc[q] \in Faulty \cap {"rows", "contact"}
        BY <1>0, <4>1, MessagingAssumption DEF FailRow, Fault, TypeOK
      <4> QED
        BY <4>1 DEF RowsAccepted
    <3> QED
      BY <1>0, <2>2, <3>1
         DEF TypeOK, ProcStep, StartSend, StartGroupSend, StartRegister, StartSync, Begin, Register,
             Deliver, DeliverThen, RefusedSend, RefusedFetch, StoreRow, StoreSent,
             StoreRowTo, EndSync, Fail, Crash, AnswerLost, End, Goto
  <2> QED
    BY <2>1, <2>2, OwnStep
<1> QED
  BY <1>6, <1>7, <1>9, <1>10
(* service.go 266-293: until storing a row fails, a sync leaves          *)
(* no gap: everything before what it has at hand is stored with its      *)
(* sender, whoever else syncs, sends or registers at the same time and   *)
(* whichever of their calls fail.                                        *)
THEOREM SyncsLeaveNoGaps == Spec => []NoGaps
<1>1. Init => NoGaps
  BY DEF Init, NoGaps
<1>2. IInv /\ BoxInv /\ NoGaps /\ [Next]_vars => NoGaps'
  <2>1. CASE Next
    BY <2>1, GapStep
  <2>2. CASE UNCHANGED vars
    <3>1. RowsAccepted' = RowsAccepted
      BY <2>2 DEF vars, RowsAccepted
    <3> QED
      BY <2>2, <3>1 DEF vars, NoGaps, Kept
  <2> QED
    BY <2>1, <2>2
<1> QED
  BY <1>1, <1>2, InductiveInvariant, BoxAlways, PTL DEF Spec
=============================================================================
