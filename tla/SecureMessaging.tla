-------------------------- MODULE SecureMessaging --------------------------
(***************************************************************************)
(* End-to-end encrypted messages (internal/e2ee, the secure branches of    *)
(* internal/message) between two workspaces, and the receivers that poll   *)
(* for them: `runtime listen` in the foreground and the service manager's  *)
(* `runtime listen-service` (internal/cli/runtime.go, daemon.go).          *)
(*                                                                         *)
(* Each DID has a workspace of its own, with session files and a database. *)
(* Opening an envelope uses up its key on disk, so Sync opens it once; the *)
(* handshake's acknowledgement and the row come after that, and each of    *)
(* the three can fail or be cut off.                                       *)
(*                                                                         *)
(* The sessions themselves are the ANP SDK's: Usable, Readable and what    *)
(* Encrypt and Open do to `session` and `opened` state what this code      *)
(* relies on.                                                              *)
(***************************************************************************)
EXTENDS Backend

CONSTANTS
  Proc,      \* anp-cli processes
  Listener,  \* those that run the polling loop
  Did,       \* identities, one workspace each
  Msg,       \* message ids
  Limit,     \* the backend returns no more than the oldest Limit messages
  Scenario,  \* who may write first, what may fail, what may die, which listeners are
             \* services, and whose
  MaxFaults, \* how many failures there may be
  None       \* no value

Step == {"register", "publish", "encrypt", "store", "fetch", "rows", "ack", "row"}

ASSUME SecureAssumption ==
  /\ Listener \subseteq Proc
  /\ Scenario \subseteq [first : SUBSET Did,
                         fail : SUBSET Step, die : SUBSET (Step \cup {"wait"}),
                         service : SUBSET Listener,
                         home : [Listener -> Did]]
  /\ Limit \in Nat \ {0}
  /\ MaxFaults \in Nat
  /\ None \notin Proc \cup Did \cup Msg

\* A message and the acknowledgement of the session it has set up.
Id == Msg \X {"text", "ack"}
Text(m) == <<m, "text">>
Ack(m) == <<m, "ack">>

Wire == [from : Did, to : Did, init : BOOLEAN, session : Msg]
ASSUME NoneIsNoWire == None \notin Wire

VARIABLES
  may,     \* the scenario
  known,   \* backend: the DIDs whose document is registered
  bundle,  \* backend: the DIDs whose prekey bundle is published
  wire,    \* backend: wire[i]: the envelope accepted under the id i, or None
  inbox,   \* backend: what msg.inbox draws from, oldest first
  session, \* session[a]: the sessions in a's e2ee directory
  opened,  \* opened[a]: the envelopes whose key a has used up
  row,     \* row[a][i]: the message in a's database: "in", "out" or "none"
  drawn,   \* the message ids newMessageID has returned
  pc,      \* pc[p]: what process p does next
  call,    \* call[p]: the command p executes
  batch,   \* batch[p]: the envelopes p's Sync has yet to handle
  svc,     \* svc[p]: what ensureE2EE has cached
  life,    \* life[l]: whether listener l runs, is told to stop, has closed the database
  faults   \* failures so far

backend == <<known, bundle, wire, inbox>>
disk == <<session, opened, row>>
process == <<pc, call, batch, svc, life>>
vars == <<may, backend, disk, drawn, process, faults>>
-----------------------------------------------------------------------------
Call == [to : Did \cup {None}, op : {"none", "init", "send", "sync"},
         me : Did \cup {None}, id : Msg \cup {None}]
NoCall == [to |-> None, op |-> "none", me |-> None, id |-> None]

Init ==
  /\ may \in Scenario
  /\ known = {} /\ bundle = {}
  /\ wire = [i \in Id |-> None]
  /\ inbox = <<>>
  /\ session = [a \in Did |-> {}]
  /\ opened = [a \in Did |-> {}]
  /\ row = [a \in Did |-> [i \in Id |-> "none"]]
  /\ drawn = {}
  /\ pc = [p \in Proc |-> "idle"]
  /\ call = [p \in Proc |-> NoCall]
  /\ batch = [p \in Proc |-> <<>>]
  /\ svc = [p \in Proc |-> "unset"]
  /\ life = [l \in Listener |-> "off"]
  /\ faults = 0

Goto(p, from, to) ==
  /\ pc[p] = from
  /\ pc' = [pc EXCEPT ![p] = to]

\* The process ends, with everything it has in memory.
Gone(p) ==
  /\ pc' = [pc EXCEPT ![p] = "idle"]
  /\ call' = [call EXCEPT ![p] = NoCall]
  /\ batch' = [batch EXCEPT ![p] = <<>>]
  /\ svc' = [svc EXCEPT ![p] = "unset"]

\* The end of a Sync, or of a command: a listener waits for its ticker.
Return(p) ==
  IF p \in Listener
  THEN /\ pc' = [pc EXCEPT ![p] = "wait"]
       /\ batch' = [batch EXCEPT ![p] = <<>>]
       /\ UNCHANGED <<call, svc>>
  ELSE Gone(p)

Accepted(i, w) ==
  /\ wire' = [wire EXCEPT ![i] = w]
  /\ inbox' = Append(inbox, i)

\* The sessions FindByPeerDID may return for peer.
Usable(a, peer) == {s \in session[a] : s.peer = peer}
-----------------------------------------------------------------------------
(* Commands. *)

Begin(p, c, to) ==
  /\ p \notin Listener
  /\ Goto(p, "idle", to)
  /\ call' = [call EXCEPT ![p] = c]
  /\ UNCHANGED <<may, backend, disk, batch, svc, life, faults>>

StartInit(p) ==
  \E a \in Did : Begin(p, [NoCall EXCEPT !.op = "init", !.me = a], "register") /\ UNCHANGED drawn

StartSend(p) ==
  \E a \in Did, m \in Msg \ drawn : \E b \in Did \ {a} :
    /\ a \in may.first \/ Usable(a, b) # {}
    /\ Begin(p, [to |-> b, op |-> "send", me |-> a, id |-> m], "register")
    /\ drawn' = drawn \cup {m}

StartSync(p) ==
  \E a \in Did : Begin(p, [NoCall EXCEPT !.op = "sync", !.me = a], "fetch") /\ UNCHANGED drawn

Register(p) ==
  /\ Goto(p, "register", "publish")
  /\ known' = known \cup {call[p].me}
  /\ UNCHANGED <<may, bundle, wire, inbox, disk, drawn, call, batch, svc, life, faults>>

\* PublishPrekeyBundle, with the client that NewService has set up.
Publish(p) ==
  /\ pc[p] = "publish"
  /\ IF call[p].op = "send"
     THEN pc' = [pc EXCEPT ![p] = "encrypt"] /\ UNCHANGED <<call, batch, svc>>
     ELSE Return(p)
  /\ bundle' = bundle \cup {call[p].me}
  /\ UNCHANGED <<may, known, wire, inbox, disk, drawn, life, faults>>

\* The first message to a peer sets up a session from the peer's bundle; it
\* is pending until the peer has acknowledged it.
SendsInit(p) == Usable(call[p].me, call[p].to) = {} /\ call[p].to \in bundle
InitWire(p) == [from |-> call[p].me, to |-> call[p].to, init |-> TRUE, session |-> call[p].id]
Kept(p) == [session EXCEPT ![call[p].me] =
              @ \cup {[id |-> call[p].id, peer |-> call[p].to, open |-> FALSE]}]

EncryptInit(p) ==
  /\ Goto(p, "encrypt", "store")
  /\ SendsInit(p)
  /\ Accepted(Text(call[p].id), InitWire(p))
  /\ session' = Kept(p)
  /\ UNCHANGED <<may, known, bundle, opened, row, drawn, call, batch, svc, life, faults>>

EncryptWithin(p, confirmed) ==
  LET c == call[p] IN
  /\ Goto(p, "encrypt", "store")
  /\ \E s \in Usable(c.me, c.to) :
       /\ s.open \in confirmed
       /\ Accepted(Text(c.id), [from |-> c.me, to |-> c.to, init |-> FALSE, session |-> s.id])
  /\ UNCHANGED <<may, known, bundle, disk, drawn, call, batch, svc, life, faults>>

\* A mutant: a pending session is used like a confirmed one.
EncryptPending(p) == EncryptWithin(p, BOOLEAN)
EncryptCipher(p) == EncryptWithin(p, {TRUE})

\* No bundle, or the session is still pending: the SDK returns an error.
RefusedEncrypt(p) ==
  /\ pc[p] = "encrypt"
  /\ LET u == Usable(call[p].me, call[p].to)
     IN  IF u = {} THEN call[p].to \notin bundle ELSE \E s \in u : ~s.open
  /\ Return(p)
  /\ UNCHANGED <<may, backend, disk, drawn, life, faults>>

StoreSent(p) ==
  /\ pc[p] = "store"
  /\ row' = [row EXCEPT ![call[p].me][Text(call[p].id)] = "out"]
  /\ Return(p)
  /\ UNCHANGED <<may, backend, session, opened, drawn, life, faults>>
-----------------------------------------------------------------------------
(* Sync. *)

Fetch(p) ==
  /\ Accepts(known, call[p].me)
  /\ Goto(p, "fetch", "rows")
  /\ batch' = [batch EXCEPT ![p] = Oldest(inbox, Limit)]
  /\ UNCHANGED <<may, backend, disk, drawn, call, svc, life, faults>>

RefusedFetch(p) ==
  /\ ~Accepts(known, call[p].me)
  /\ pc[p] = "fetch"
  /\ Return(p)
  /\ UNCHANGED <<may, backend, disk, drawn, life, faults>>

\* ProcessInbound succeeds on an envelope to this identity, the first time,
\* if it sets up a session or belongs to one that is here.
Readable(a, i) ==
  /\ wire[i].to = a
  /\ i \notin opened[a]
  /\ wire[i].init \/ \E s \in session[a] : s.peer = wire[i].from /\ s.id = wire[i].session

\* The sessions of a after it has opened i: an init sets one up, anything
\* from the peer confirms the pending one.
Advanced(a, i) ==
  LET w == wire[i] IN
  {s \in session[a] : s.peer # w.from \/ s.id # w.session}
    \cup {[id |-> w.session, peer |-> w.from, open |-> TRUE]}

\* Sync has opened the envelope at hand and goes on at `next`.
AtHand(p) == Head(batch[p])
OpenThen(p, next) ==
  LET a == call[p].me
      i == AtHand(p)
  IN
  /\ batch[p] # <<>> /\ Readable(a, i)
  /\ Goto(p, "rows", next)
  /\ opened' = [opened EXCEPT ![a] = @ \cup {i}]
  /\ session' = [session EXCEPT ![a] = Advanced(a, i)]
  /\ svc' = [svc EXCEPT ![p] = "ready"]
  /\ batch' = [batch EXCEPT ![p] = IF next = "rows" THEN Tail(@) ELSE @]
  /\ UNCHANGED <<may, backend, row, drawn, call, life, faults>>

\* A mutant: every text is acknowledged.
FollowsAlways(i) == IF i[2] = "ack" THEN "rows" ELSE "ack"
\* An init is acknowledged first, an acknowledgement is nothing to show.
Follows(i) == IF wire[i].init THEN "ack" ELSE IF i[2] = "ack" THEN "rows" ELSE "row"

PassOver(p) ==
  /\ pc[p] = "rows"
  /\ batch' = [batch EXCEPT ![p] = Tail(@)]
  /\ UNCHANGED <<may, backend, disk, drawn, pc, call, svc, life, faults>>

\* A mutant: no acknowledgement is sent.
OpenSilent(p) == OpenThen(p, IF AtHand(p)[2] = "ack" THEN "rows" ELSE "row")
\* A mutant: ensureE2EE returns the failure it has cached.
OpenCached(p) ==
  IF svc[p] = "failed" THEN batch[p] # <<>> /\ PassOver(p)
  ELSE OpenThen(p, Follows(AtHand(p)))

\* ensureE2EE tries again whatever it has cached, unless it is the service.
Open(p) == OpenThen(p, Follows(AtHand(p)))

\* Another's, one's own, a repeated one, or of a session that is not here.
SkipRow(p) ==
  /\ batch[p] # <<>> /\ ~Readable(call[p].me, AtHand(p))
  /\ PassOver(p)

\* sendAutoAck: a send to the peer like any other, so that it goes through
\* any session with the peer, and not if that one is pending.
SendAck(p) ==
  LET a == call[p].me
      w == wire[AtHand(p)]
  IN
  /\ Goto(p, "ack", "row")
  /\ \E s \in Usable(a, w.from) :
       /\ s.open
       /\ Accepted(Ack(w.session),
                   [from |-> a, to |-> w.from, init |-> FALSE, session |-> s.id])
  /\ UNCHANGED <<may, known, bundle, disk, drawn, call, batch, svc, life, faults>>

RefusedAck(p) ==
  /\ Goto(p, "ack", "row")
  /\ \E s \in Usable(call[p].me, wire[AtHand(p)].from) : ~s.open
  /\ UNCHANGED <<may, backend, disk, drawn, call, batch, svc, life, faults>>

\* UpsertMessage, through the handle that closeDB may have closed meanwhile:
\* a row that cannot be stored is passed over.
Closed(p) == p \in Listener /\ life[p] = "closed"
StoreRow(p) ==
  /\ Goto(p, "row", "rows")
  /\ row' = IF Closed(p) THEN row
            ELSE [row EXCEPT ![call[p].me][AtHand(p)] = IF @ = "none" THEN "in" ELSE @]
  /\ batch' = [batch EXCEPT ![p] = Tail(@)]
  /\ UNCHANGED <<may, backend, session, opened, drawn, call, svc, life, faults>>

EndSync(p) ==
  /\ pc[p] = "rows"
  /\ batch[p] = <<>>
  /\ Return(p)
  /\ UNCHANGED <<may, backend, disk, drawn, life, faults>>
-----------------------------------------------------------------------------
(* The receivers. *)

Service(l) == l \in may.service
Home(l) == may.home[l]

\* runPollLoopCtx syncs before it waits for the first time.
Launch(l) ==
  /\ life[l] = "off"
  /\ life' = [life EXCEPT ![l] = "running"]
  /\ Goto(l, "idle", "fetch")
  /\ call' = [call EXCEPT ![l] = [NoCall EXCEPT !.op = "sync", !.me = Home(l)]]
  /\ UNCHANGED <<may, backend, disk, drawn, batch, svc, faults>>

\* With the context cancelled and the ticker due, select takes either.
Tick(l) ==
  /\ Goto(l, "wait", "fetch")
  /\ UNCHANGED <<may, backend, disk, drawn, call, batch, svc, life, faults>>

\* Ctrl-C, or the service manager's Stop: the context is cancelled.
Stop(l) ==
  /\ life[l] = "running"
  /\ life' = [life EXCEPT ![l] = "stopping"]
  /\ UNCHANGED <<may, backend, disk, drawn, pc, call, batch, svc, faults>>

\* In the foreground the command returns when the loop does, and closes the
\* database then; the service's loop is a goroutine nobody waits for.
LoopEndsAt(l, places) ==
  /\ pc[l] \in places
  /\ life[l] \in {"stopping", "closed"}
  /\ Gone(l)
  /\ life' = IF Service(l) THEN life ELSE [life EXCEPT ![l] = "off"]
  /\ UNCHANGED <<may, backend, disk, drawn, faults>>

\* A mutant: Sync runs under the context that Stop cancels.
LoopEndsInside(l) == LoopEndsAt(l, {"wait", "fetch", "rows", "ack", "row"})
LoopEnds(l) == LoopEndsAt(l, {"wait"})

\* Run has returned from Stop: the deferred closeDB, then the process's end.
CloseDB(l) ==
  /\ Service(l) /\ life[l] = "stopping"
  /\ life' = [life EXCEPT ![l] = "closed"]
  /\ UNCHANGED <<may, backend, disk, drawn, pc, call, batch, svc, faults>>

Exit(l) ==
  /\ life[l] = "closed"
  /\ life' = [life EXCEPT ![l] = "off"]
  /\ Gone(l)
  /\ UNCHANGED <<may, backend, disk, drawn, faults>>
-----------------------------------------------------------------------------
(* Failures. *)

Fault(p, steps) == pc[p] \in steps /\ faults < MaxFaults /\ faults' = faults + 1

\* A call gets no answer, a key file cannot be read, a row cannot be written.
CallFails(p) ==
  /\ Fault(p, may.fail)
  /\ pc[p] \in {"register", "publish", "store", "fetch"}
  /\ UNCHANGED <<may, backend, disk, drawn, life>>

\* A mutant: the loop ends with the first sync that fails.
FailQuits(p) == CallFails(p) /\ Gone(p)
Fail(p) == CallFails(p) /\ Return(p)

\* direct.send fails, before or after the backend has the envelope, and the
\* SDK has kept the new session or has not.
FailEncrypt(p) ==
  /\ Fault(p, may.fail)
  /\ pc[p] = "encrypt"
  /\ SendsInit(p)
  /\ session' \in {session, Kept(p)}
  /\ Accepted(Text(call[p].id), InitWire(p)) \/ UNCHANGED <<wire, inbox>>
  /\ Return(p)
  /\ UNCHANGED <<may, known, bundle, opened, row, drawn, life>>

\* NewService fails: the row is passed over.
FailOpen(p) ==
  /\ Fault(p, may.fail)
  /\ batch[p] # <<>> /\ svc[p] # "ready"
  /\ pc[p] = "rows"
  /\ svc' = [svc EXCEPT ![p] = "failed"]
  /\ batch' = [batch EXCEPT ![p] = Tail(@)]
  /\ UNCHANGED <<may, backend, disk, drawn, pc, call, life>>

\* The acknowledgement or the row is lost, and Sync goes on.
FailAck(p) ==
  /\ Fault(p, may.fail)
  /\ Goto(p, "ack", "row")
  /\ UNCHANGED <<may, backend, disk, drawn, call, batch, svc, life>>

FailRow(p) ==
  /\ Fault(p, may.fail)
  /\ Goto(p, "row", "rows")
  /\ batch' = [batch EXCEPT ![p] = Tail(@)]
  /\ UNCHANGED <<may, backend, disk, drawn, call, svc, life>>

Crash(p) ==
  /\ Fault(p, may.die)
  /\ Gone(p)
  /\ life' = [l \in Listener |-> IF l = p THEN "off" ELSE life[l]]
  /\ UNCHANGED <<may, backend, disk, drawn>>

Start(p) == StartInit(p) \/ StartSend(p) \/ StartSync(p)
Proceed(p) == \/ Register(p) \/ Publish(p) \/ EncryptInit(p) \/ EncryptCipher(p)
              \/ RefusedEncrypt(p) \/ StoreSent(p)
              \/ Fetch(p) \/ RefusedFetch(p) \/ Open(p) \/ SkipRow(p) \/ SendAck(p)
              \/ RefusedAck(p) \/ StoreRow(p) \/ EndSync(p)
Control(l) == Launch(l) \/ Tick(l) \/ Stop(l) \/ LoopEnds(l) \/ CloseDB(l) \/ Exit(l)
Break(p) == \/ Fail(p) \/ FailEncrypt(p) \/ FailOpen(p) \/ FailAck(p) \/ FailRow(p) \/ Crash(p)

Next == \/ \E p \in Proc : Start(p) \/ Proceed(p) \/ Break(p)
        \/ \E l \in Listener : Control(l)

Spec == Init /\ [][Next]_vars

\* A running command or sync goes on, and the ticker ticks.
Advances(p) == Proceed(p) \/ (p \in Listener /\ Tick(p))
Fairness == \A p \in Proc : WF_vars(Advances(p))
FairSpec == Spec /\ Fairness
-----------------------------------------------------------------------------
(* Properties. *)

TypeOK ==
  /\ may \in Scenario
  /\ known \subseteq Did /\ bundle \subseteq known
  /\ wire \in [Id -> Wire \cup {None}]
  /\ inbox \in Seq({i \in Id : wire[i] # None})
  /\ session \in [Did -> SUBSET [id : Msg, peer : Did, open : BOOLEAN]]
  /\ opened \in [Did -> SUBSET Id]
  /\ row \in [Did -> [Id -> {"none", "in", "out"}]]
  /\ drawn \subseteq Msg
  /\ pc \in [Proc -> Step \cup {"idle", "wait"}]
  /\ call \in [Proc -> Call]
  /\ batch \in [Proc -> Seq({i \in Id : wire[i] # None})]
  /\ svc \in [Proc -> {"unset", "ready", "failed"}]
  /\ life \in [Listener -> {"off", "running", "stopping", "closed"}]
  /\ faults \in 0..MaxFaults

(* No call that Sync makes after opening an envelope, and no write, fails. *)
Steady == may.fail \cap {"ack", "row"} = {} /\ may.die \cap {"ack", "row"} = {}

\* A text that a has opened is in its database, or about to be.
Handled(a, i) == \E p \in Proc : pc[p] \in {"ack", "row"} /\ call[p].me = a /\ AtHand(p) = i
Stored(a) == \A m \in Msg : Text(m) \in opened[a] => row[a][Text(m)] = "in" \/ Handled(a, Text(m))

(* "Inbound E2EE messages are decrypted before persistence" (service.go    *)
(* 250-252): as a text opens once, nothing between the two may give it up. *)
(* A receiver in the foreground, told to stop, finishes the sync it is in; *)
(* failed fetches, services that do not start and dying commands lose      *)
(* nothing (runtime.go 56-67, service.go 314-348).                         *)
OpenedAreStored == Steady /\ may.service = {} => \A a \in Did : Stored(a)

(* "ANP message receiver daemon: polls the backend inbox and persists      *)
(* messages locally" (daemon.go 19): the same for a receiver that the      *)
(* service manager starts and stops.                                       *)
ServiceStoresOpened == Steady => \A a \in Did : Stored(a)

Running(l) == life[l] = "running"

\* What a sync gets to see; it stays so, as nothing is consumed.
Visible(i) == \E k \in DOMAIN Oldest(inbox, Limit) : inbox[k] = i

(* A receiver that keeps running catches up, again and again: all secure   *)
(* messages that the backend shows it are in its database, also when the   *)
(* e2ee service could not be set up at first, "a long-lived runtime listen *)
(* must recover" (service.go 66-69), and an envelope that could not be     *)
(* opened is tried again in the next sync. (What comes after the oldest    *)
(* hundred is shown to nobody: mock.go 753-774.)                           *)
Listening(l) == Running(l) /\ Steady /\ may.service = {}
AllStored(l) ==
  \A m \in Msg :
    Visible(Text(m)) /\ wire[Text(m)].to = Home(l) => row[Home(l)][Text(m)] = "in"
SecureArrives == \A l \in Listener : <>[]Listening(l) => []<>AllStored(l)

(* The "initiator's session can leave pending-confirmation" (service.go    *)
(* 296-298, 417-425): whoever has opened an init has answered it, and as   *)
(* the answer is neither repeated nor stored, it has gone out before the   *)
(* row or anything after it could fail; unless it has begun a session with *)
(* the same peer itself, which while it is pending may be the one that the *)
(* answer is refused for.                                                  *)
HasBegun(a, b) == \E s \in session[a] : s.peer = b /\ Text(s.id) \notin opened[a]
Acknowledged ==
  Steady /\ may.service = {} =>
    \A a \in Did, m \in Msg :
      Text(m) \in opened[a] /\ wire[Text(m)].init =>
        \/ wire[Ack(m)] # None
        \/ \E p \in Proc : pc[p] = "ack" /\ call[p].me = a /\ AtHand(p) = Text(m)
        \/ HasBegun(a, wire[Text(m)].from)

(* ... and a receiver that keeps running takes every answer it is shown in,*)
(* so that its own session leaves pending-confirmation, whichever syncs    *)
(* failed or died before: nothing of the answer is lost by passing it over.*)
AllConfirmed(l) ==
  \A m \in Msg : Visible(Ack(m)) /\ wire[Ack(m)].to = Home(l) =>
    LET Mine == {s \in session[Home(l)] : s.id = wire[Ack(m)].session}
    IN  Mine = {} \/ \E s \in Mine : s.open
Confirmed == \A l \in Listener : <>[]Listening(l) => []<>AllConfirmed(l)

(* What the backend has accepted can be read: its recipient has opened it, *)
(* is set up by it, or has its session. A session is confirmed, and used,  *)
(* only once the peer has it, whatever is skipped, lost or retried; only a *)
(* send whose answer is lost with its session leaves one side alone        *)
(* (service.go 317-333).                                                   *)
NothingUnreadable ==
  "encrypt" \notin may.fail =>
    \A a \in Did, m \in Msg : LET i == Text(m) IN
      wire[i] # None /\ wire[i].to = a => i \in opened[a] \/ Readable(a, i)

(* Secure messages are what SecureMailbox promises, in every scenario: an  *)
(* envelope is accepted once, opened once and by its recipient only, and   *)
(* acknowledged at most once; a text is recorded once on each side, and by *)
(* its recipient after it was opened; a session is begun once, and what is *)
(* sent in it is sent after the peer was heard in it (service.go 103-150,  *)
(* 253-348, 410-425).                                                      *)
Box == INSTANCE SecureMailbox WITH sent <- wire, queue <- inbox
SecureMailboxSpec == Box!Spec
=============================================================================
