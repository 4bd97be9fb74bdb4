----------------------------- MODULE Messaging -----------------------------
(***************************************************************************)
(* Direct and group messages without end-to-end encryption: `msg send`,    *)
(* `attachment send`'s manifest, `group send`, `inbox`/`history` and the   *)
(* receiver `runtime listen` (internal/message, internal/group,            *)
(* internal/store), several processes sharing the workspace's database,    *)
(* against the backend that internal/testutil/mockbackend stands for.      *)
(*                                                                         *)
(* A send is three calls with a failure point after each: register the DID *)
(* document, hand the envelope to the backend, record it in the database.  *)
(* A sync fetches the whole inbox and records it row by row.               *)
(***************************************************************************)
EXTENDS Backend, FiniteSets

CONSTANTS
  Proc,      \* anp-cli processes
  Listener,  \* those that run `runtime listen`: they sync again and again
  Local,     \* DIDs of this workspace's identities
  Remote,    \* DIDs of peers
  Group,     \* DIDs of groups
  Alias,     \* handles `msg send --to` may be given instead of a DID
  Bound,     \* Bound[h]: the DID the backend has for the handle h, or None
  Msg,       \* message ids
  Limit,     \* the backend returns no more than the oldest Limit messages
  Broadcast, \* TRUE: every inbox shows every message, as in the mock backend
  Faulty,    \* the steps at which calls fail and processes die
  MaxFaults, \* how many failures there may be
  None       \* no value

Step == {"register", "send", "store", "fetch", "rows", "contact"}

ASSUME MessagingAssumption ==
  /\ Listener \subseteq Proc
  /\ Local \cap (Remote \cup Group) = {} /\ Remote \cap Group = {}
  /\ Alias \cap (Local \cup Remote \cup Group) = {}
  /\ Bound \in [Alias -> Local \cup Remote \cup {None}]
  /\ Limit \in Nat \ {0}
  /\ Broadcast \in BOOLEAN
  /\ Faulty \subseteq Step
  /\ MaxFaults \in Nat
  /\ None \notin Proc \cup Local \cup Remote \cup Group \cup Alias \cup Msg

Did == Local \cup Remote
Wire == [from : Did, to : Did \cup Group, kind : {"text", "payload"}]
Row == [from : Did, to : Did \cup Group \cup Alias, dir : {"in", "out"}, read : BOOLEAN]

ASSUME NoneIsNoRecord == None \notin Wire \cup Row

VARIABLES
  known,   \* backend: the DIDs whose document is registered
  wire,    \* backend: wire[m]: the envelope accepted under the id m, or None
  inbox,   \* backend: inbox[a]: what msg.inbox returns to a, oldest first
  row,     \* database: messages, by message_id
  contact, \* database: contacts, by did
  drawn,   \* the message ids newMessageID has returned
  pc,      \* pc[p]: what process p does next
  call,    \* call[p]: the command p executes
  batch,   \* batch[p]: the rows p's Sync has fetched and not yet handled
  faults   \* failures so far

backend == <<known, wire, inbox>>
database == <<row, contact>>
vars == <<known, wire, inbox, row, contact, drawn, pc, call, batch, faults>>
-----------------------------------------------------------------------------
Call == [to : Did \cup Group \cup Alias \cup {None}, kind : {"text", "payload"},
         op : {"send", "group", "sync", "register", "none"}, me : Local \cup {None},
         id : Msg \cup {None}]
NoCall == [to |-> None, kind |-> "text", op |-> "none", me |-> None, id |-> None]

\* did.resolve, asked only for a target that is not a DID.
Resolved(to) == IF to \in Alias THEN Bound[to] ELSE to

\* It answers for a handle once its owner's document is registered.
Resolves(to) == to \in Alias => Bound[to] \in known

Verified(a) == Accepts(known, a)

\* The inboxes in which a new envelope appears.
Reaches(w, a) == Broadcast \/ w.to = a \/ w.to \in Group

Accepted(m, w) ==
  /\ wire' = [wire EXCEPT ![m] = w]
  /\ inbox' = [a \in Local |-> IF Reaches(w, a) THEN Append(inbox[a], m) ELSE inbox[a]]

\* UpsertMessage: a row that is there keeps all but its text.
Upserted(m, r) == IF row[m] = None THEN [row EXCEPT ![m] = r] ELSE row
-----------------------------------------------------------------------------
Init ==
  /\ known = {}
  /\ wire = [m \in Msg |-> None]
  /\ inbox = [a \in Local |-> <<>>]
  /\ row = [m \in Msg |-> None]
  /\ contact = {}
  /\ drawn = {}
  /\ pc = [p \in Proc |-> "idle"]
  /\ call = [p \in Proc |-> NoCall]
  /\ batch = [p \in Proc |-> <<>>]
  /\ faults = 0

Goto(p, from, to) ==
  /\ pc[p] = from
  /\ pc' = [pc EXCEPT ![p] = to]

\* The command ends, or its process dies.
Forget(p) ==
  /\ call' = [call EXCEPT ![p] = NoCall]
  /\ batch' = [batch EXCEPT ![p] = <<>>]

End(p, from) == Goto(p, from, "idle") /\ Forget(p)

Begin(p, c, to) ==
  /\ Goto(p, "idle", to)
  /\ call' = [call EXCEPT ![p] = c]
  /\ UNCHANGED <<backend, database, batch, faults>>

\* Service.Send and SendAttachmentManifest draw the id before any call.
StartSend(p) ==
  \E a \in Local, m \in Msg \ drawn, k \in {"text", "payload"},
     to \in (Did \cup Alias) :
    /\ p \notin Listener
    /\ Begin(p, [to |-> to, kind |-> k, op |-> "send", me |-> a, id |-> m], "register")
    /\ drawn' = drawn \cup {m}

\* group.Service.Send goes straight to the backend.
StartGroupSend(p) ==
  \E a \in Local, m \in Msg \ drawn, g \in Group, k \in {"text", "payload"} :
    /\ p \notin Listener
    /\ Begin(p, [to |-> g, kind |-> k, op |-> "group", me |-> a, id |-> m], "send")
    /\ drawn' = drawn \cup {m}

\* `id register` and `e2ee init` register the document too.
StartRegister(p) ==
  \E a \in Local :
    /\ p \notin Listener
    /\ Begin(p, [NoCall EXCEPT !.op = "register", !.me = a], "register")
    /\ UNCHANGED drawn

\* `inbox`, `history`, `heartbeat`, and each turn of the receiver's loop.
StartSync(p) ==
  \E a \in Local :
    /\ Begin(p, [NoCall EXCEPT !.op = "sync", !.me = a], "fetch")
    /\ UNCHANGED drawn

\* A peer's envelope to an identity of this workspace, or to a group. Peers
\* are assumed to draw ids that nobody else uses, as newMessageID does: the
\* backend does not check it (mock.go 266-293), and UpsertMessage would put
\* the text of a second envelope with the id into the row of the first.
RemoteSend ==
  \E r \in Remote, to \in Local \cup Group, k \in {"text", "payload"}, m \in Msg \ drawn :
    /\ drawn' = drawn \cup {m}
    /\ known' = known \cup {r}
    /\ Accepted(m, [from |-> r, to |-> to, kind |-> k])
    /\ UNCHANGED <<database, pc, call, batch, faults>>
-----------------------------------------------------------------------------
(* Sending. *)

\* The row Send makes of its own message.
Outgoing(p, to) == [from |-> call[p].me, to |-> to, dir |-> "out", read |-> TRUE]

\* A mutant: recorded before the backend has it.
RegisterAndStore(p) ==
  /\ IF call[p].op = "send"
     THEN Goto(p, "register", "send") /\ UNCHANGED <<call, batch>>
     ELSE End(p, "register")
  /\ known' = known \cup {call[p].me}
  /\ row' = IF call[p].op = "send" THEN Upserted(call[p].id, Outgoing(p, call[p].to))
            ELSE row
  /\ UNCHANGED <<wire, inbox, contact, drawn, faults>>

Register(p) ==
  /\ IF call[p].op = "send"
     THEN Goto(p, "register", "send") /\ UNCHANGED <<call, batch>>
     ELSE End(p, "register")
  /\ known' = known \cup {call[p].me}
  /\ UNCHANGED <<wire, inbox, database, drawn, faults>>

\* direct.send or group.send: only a direct message is recorded afterwards.
DeliverThen(p, direct) ==
  LET c == call[p] IN
  /\ Verified(c.me) /\ Resolves(c.to)
  /\ IF c.op = direct
     THEN Goto(p, "send", "store") /\ UNCHANGED <<call, batch>>
     ELSE End(p, "send")
  /\ Accepted(c.id, [from |-> c.me, to |-> Resolved(c.to), kind |-> c.kind])
  /\ UNCHANGED <<known, database, drawn, faults>>

DeliverOnly(p) == DeliverThen(p, "nothing") \* a mutant: nothing is recorded
Deliver(p) == DeliverThen(p, "send")

\* The row names the recipient as the command line did.
StoreSent(p) ==
  /\ End(p, "store")
  /\ row' = Upserted(call[p].id, Outgoing(p, call[p].to))
  /\ UNCHANGED <<backend, contact, drawn, faults>>

\* The sender is not registered (only `group send` can meet that), or the
\* handle is not known.
RefusedSend(p) ==
  /\ ~(Verified(call[p].me) /\ Resolves(call[p].to))
  /\ End(p, "send")
  /\ UNCHANGED <<backend, database, drawn, faults>>
-----------------------------------------------------------------------------
(* Sync. *)

\* A mutant: the limit does not apply.
FetchWhole(p) ==
  /\ Verified(call[p].me)
  /\ Goto(p, "fetch", "rows")
  /\ batch' = [batch EXCEPT ![p] = inbox[call[p].me]]
  /\ UNCHANGED <<backend, database, drawn, call, faults>>

Fetch(p) ==
  /\ Verified(call[p].me)
  /\ Goto(p, "fetch", "rows")
  /\ batch' = [batch EXCEPT ![p] = Oldest(inbox[call[p].me], Limit)]
  /\ UNCHANGED <<backend, database, drawn, call, faults>>

RefusedFetch(p) ==
  /\ ~Verified(call[p].me)
  /\ End(p, "fetch")
  /\ UNCHANGED <<backend, database, drawn, faults>>

\* normalizeWire drops what has no text; then Sync skips its own echoes.
Skips(w, me) == w.kind # "text" \/ w.from = me

SkipRow(p) ==
  /\ pc[p] = "rows"
  /\ batch[p] # <<>>
  /\ Skips(wire[Head(batch[p])], call[p].me)
  /\ batch' = [batch EXCEPT ![p] = Tail(@)]
  /\ UNCHANGED <<backend, database, drawn, pc, call, faults>>

\* The row Sync makes of the envelope at hand; a direct one is taken to be
\* addressed to the identity that fetched it.
Incoming(p) ==
  LET w == wire[Head(batch[p])]
  IN [from |-> w.from, to |-> IF w.to \in Group THEN w.to ELSE call[p].me,
      dir |-> "in", read |-> FALSE]

\* UpsertMessage; UpsertContact is a statement of its own.
StoreRowTo(p, rows) ==
  /\ batch[p] # <<>>
  /\ ~Skips(wire[Head(batch[p])], call[p].me)
  /\ Goto(p, "rows", "contact")
  /\ row' = rows
  /\ UNCHANGED <<backend, contact, drawn, call, batch, faults>>

\* A mutant: INSERT OR REPLACE.
StoreRowReplacing(p) == StoreRowTo(p, [row EXCEPT ![Head(batch[p])] = Incoming(p)])
\* A mutant: a row that is there already is passed over with its contact.
StoreRowOnce(p) ==
  IF pc[p] = "rows" /\ batch[p] # <<>> /\ row[Head(batch[p])] # None
  THEN /\ batch' = [batch EXCEPT ![p] = Tail(@)]
       /\ UNCHANGED <<backend, database, drawn, pc, call, faults>>
  ELSE StoreRowTo(p, Upserted(Head(batch[p]), Incoming(p)))

StoreRow(p) == StoreRowTo(p, Upserted(Head(batch[p]), Incoming(p)))

StoreContact(p) ==
  LET m == Head(batch[p]) IN
  /\ Goto(p, "contact", "rows")
  /\ contact' = contact \cup {wire[m].from}
  /\ batch' = [batch EXCEPT ![p] = Tail(@)]
  /\ UNCHANGED <<backend, row, drawn, call, faults>>

EndSync(p) ==
  /\ batch[p] = <<>>
  /\ End(p, "rows")
  /\ UNCHANGED <<backend, database, drawn, faults>>
-----------------------------------------------------------------------------
(* Failures. *)

Fault(p) == pc[p] \in Faulty /\ faults < MaxFaults /\ faults' = faults + 1

\* A call gets no answer, or the sender's database write fails: the command
\* returns the error.
Fail(p) ==
  /\ Fault(p)
  /\ \E from \in {"register", "send", "fetch", "store"} : End(p, from)
  /\ UNCHANGED <<backend, database, drawn>>

\* The backend does what is asked and its answer is lost (30 s time-out).
AnswerLost(p) ==
  LET c == call[p] IN
  /\ Fault(p)
  /\ \/ /\ End(p, "register")
        /\ known' = known \cup {c.me}
        /\ UNCHANGED <<wire, inbox>>
     \/ /\ End(p, "send")
        /\ Verified(c.me) /\ Resolves(c.to)
        /\ Accepted(c.id, [from |-> c.me, to |-> Resolved(c.to), kind |-> c.kind])
        /\ UNCHANGED known
  /\ UNCHANGED <<database, drawn>>

\* UpsertMessage fails (busy, disk full) and Sync goes on with the next row;
\* or UpsertContact does, and its error is ignored.
FailRow(p) ==
  /\ Fault(p)
  /\ batch[p] # <<>>
  /\ pc[p] \in {"rows", "contact"}
  /\ pc[p] = "rows" => ~Skips(wire[Head(batch[p])], call[p].me)
  /\ pc' = [pc EXCEPT ![p] = "rows"]
  /\ batch' = [batch EXCEPT ![p] = Tail(@)]
  /\ UNCHANGED <<backend, database, drawn, call>>

Crash(p) ==
  /\ Fault(p)
  /\ pc' = [pc EXCEPT ![p] = "idle"]
  /\ Forget(p)
  /\ UNCHANGED <<backend, database, drawn>>

Start(p) == StartSend(p) \/ StartGroupSend(p) \/ StartRegister(p) \/ StartSync(p)
Proceed(p) == \/ Register(p) \/ Deliver(p) \/ StoreSent(p) \/ RefusedSend(p)
              \/ Fetch(p) \/ RefusedFetch(p) \/ SkipRow(p) \/ StoreRow(p)
              \/ StoreContact(p) \/ EndSync(p)
Break(p) == Fail(p) \/ AnswerLost(p) \/ FailRow(p) \/ Crash(p)

Next == RemoteSend \/ \E p \in Proc : Start(p) \/ Proceed(p) \/ Break(p)

Spec == Init /\ [][Next]_vars

\* A running command goes on, and the ticker starts the next sync.
Fairness == /\ \A p \in Proc : WF_vars(Proceed(p))
            /\ \A p \in Listener : WF_vars(StartSync(p))
FairSpec == Spec /\ Fairness
-----------------------------------------------------------------------------
(* Properties. *)

TypeOK ==
  /\ known \subseteq Did
  /\ wire \in [Msg -> Wire \cup {None}]
  /\ inbox \in [Local -> Seq({m \in Msg : wire[m] # None})]
  /\ row \in [Msg -> Row \cup {None}]
  /\ contact \subseteq Did
  /\ drawn \subseteq Msg
  /\ pc \in [Proc -> Step \cup {"idle"}]
  /\ call \in [Proc -> Call]
  /\ batch \in [Proc -> Seq({m \in Msg : wire[m] # None})]
  /\ faults \in 0..MaxFaults

(* The database never shows a message that was not exchanged: a row's id   *)
(* is that of an envelope the backend accepted, from that sender, and an   *)
(* incoming row has text to show (service.go 113-150, 266-288).            *)
RowsAreReal ==
  \A m \in Msg : row[m] # None =>
    /\ wire[m] # None
    /\ row[m].from = wire[m].from
    /\ row[m].dir = "out" => row[m].from \in Local
    /\ row[m].dir = "in" => wire[m].kind = "text"

(* Every sync stores the whole inbox again; what is already there stays as *)
(* it is: a message sent from here does not turn into an unread one, nor   *)
(* does its sender change (dao.go 63-68).                                  *)
RowsStay == [][\A m \in Msg : row[m] # None => row'[m] = row[m]]_vars

(* Messages are what Mailbox promises, whichever processes send and sync   *)
(* at once and whatever fails: the backend takes an id once, a row is made *)
(* once, from the message and for the identity that sent or found it, and  *)
(* a contact is somebody a row is from (service.go 103-294, mock.go        *)
(* 266-293, 475-505, dao.go 58-70).                                        *)
Box == INSTANCE Mailbox WITH sent <- wire, Envelope <- Wire
MailboxSpec == Box!Spec

(* As long as the database accepts rows, a sync leaves no gap: what it     *)
(* still has at hand is a stretch of its inbox, within the limit, and all  *)
(* that others wrote before that is stored with its sender, though another *)
(* sync may be between the two with the same message (service.go 266-293). *)
Kept(m, a) == Skips(wire[m], a) \/ (row[m] # None /\ wire[m].from \in contact)
RowsAccepted == faults = 0 \/ Faulty \cap {"rows", "contact"} = {}
NoGaps ==
  RowsAccepted =>
    \A p \in Proc : pc[p] \in {"rows", "contact"} =>
      LET a == call[p].me
          there == Oldest(inbox[a], Limit)
      IN \E k \in 0..Len(there) - Len(batch[p]) :
           /\ \A i \in 1..Len(batch[p]) : batch[p][i] = there[k + i]
           /\ \A i \in 1..k : Kept(there[i], a)

(* Sync passes over "our own outbound messages (already stored at send     *)
(* time)" (service.go 281-284), so a direct message whose row was not made *)
(* by its sender is lost to history. However many processes send, sync and *)
(* die at once, each failure loses one such message at most and nothing    *)
(* else loses any: a send that meets no failure is stored, to a handle and *)
(* under the broadcast inbox too. (A group message never is: group.Service *)
(* records nothing, group/service.go 143-174.)                             *)
Lost ==
  {m \in Msg : /\ wire[m] # None
               /\ wire[m].from \in Local /\ wire[m].to \notin Group
               /\ row[m] = None
               /\ \A p \in Proc : pc[p] = "store" => call[p].id # m}
LossesAreFailures == Cardinality(Lost) <= faults

(* A text message among the oldest in the inbox of an identity known to    *)
(* the backend, as many as the inbox shows, reaches the database, and its  *)
(* sender the contacts, as long as somebody listens, whatever calls fail,  *)
(* rows are skipped or processes die on the way, though the two are stored *)
(* by separate statements and the second's error is ignored: every sync    *)
(* starts from the oldest message again (service.go 253-294, runtime.go    *)
(* 56-67, mock.go 743-769).                                                *)
Visible(m) == \E a \in Local : \E i \in DOMAIN Oldest(inbox[a], Limit) : inbox[a][i] = m
Arrives ==
  \A m \in Msg : (Visible(m) /\ wire[m].kind = "text" /\ wire[m].from \in Remote
                  /\ Local \subseteq known) ~> row[m] # None /\ wire[m].from \in contact

(* What the senders know: an id is used by one call only and is new to the *)
(* backend until that call delivers it, and only a delivered one is stored.*)
Sending == {"register", "send"}
IdsFresh ==
  /\ \A m \in Msg : wire[m] # None => m \in drawn
  /\ \A p \in Proc :
       /\ call[p].op \in {"send", "group"} =>
            /\ call[p].me \in Local /\ call[p].to # None
            /\ call[p].id \in drawn
            /\ \A q \in Proc \ {p} : call[q].id # call[p].id
       /\ call[p].op \notin {"send", "group"} => call[p].id = None
       /\ call[p].op \in {"send", "group"} /\ pc[p] \in Sending =>
            wire[call[p].id] = None
PhaseOK ==
  \A p \in Proc :
    /\ pc[p] = "idle" <=> call[p].op = "none"
    /\ pc[p] = "send" => call[p].op \in {"send", "group"}
    /\ pc[p] = "register" => call[p].op \in {"send", "register"}
    /\ pc[p] = "store" =>
         /\ call[p].op = "send"
         /\ wire[call[p].id] # None
         /\ wire[call[p].id].from = call[p].me
    /\ pc[p] \in {"fetch", "rows", "contact"} => call[p].op = "sync"
    /\ call[p].op # "none" => call[p].me \in Local
    /\ call[p].op = "send" => call[p].to \in Did \cup Alias
    /\ call[p].op = "group" => call[p].to \in Group
    /\ pc[p] = "contact" => batch[p] # <<>>
IInv == TypeOK /\ RowsAreReal /\ IdsFresh /\ PhaseOK
=============================================================================
