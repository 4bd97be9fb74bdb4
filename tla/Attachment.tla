----------------------------- MODULE Attachment -----------------------------
(***************************************************************************)
(* `attach send` and `attach download` (internal/attachment,               *)
(* internal/cli/attachment.go) against the object service of               *)
(* internal/testutil/mockbackend.                                          *)
(*                                                                         *)
(* A send is create_slot, PUT, commit_object and the manifest in a         *)
(* direct.send; any of the four can fail, or be done with its answer lost, *)
(* and only a failed PUT is undone (abort_object, best effort). A download *)
(* finds the manifest in the inbox, asks for a ticket, GETs the bytes,     *)
(* compares them with the manifest and writes a file.                      *)
(*                                                                         *)
(* Object bytes are values of Content; a SHA-256 digest is the content it  *)
(* was computed from. Byte i of a content c is written c at place i of a   *)
(* file. The mock makes slot ids and commit tokens from its clock; that    *)
(* nobody but the sender that was answered uses them is assumed.           *)
(***************************************************************************)
EXTENDS Backend, FileBytes

CONSTANTS
  Proc,      \* anp-cli processes
  Local,     \* DIDs of the identities they act for
  Peer,      \* the DID of somebody else's client
  Att,       \* attachment ids
  Msg,       \* message ids
  Content,   \* what an attached file may hold
  SizeOf,    \* SizeOf[c]: the number of bytes of c
  Name,      \* file names
  NameOf,    \* NameOf[c]: the name of the file that holds c
  Limit,     \* the inbox returns no more than the oldest Limit messages
  Scenario,  \* which steps may fail
  MaxFaults, \* how many failures there may be
  Text,      \* a message without attachments
  None       \* no value

Step == {"create", "put", "upload", "abort", "commit", "register", "send",
         "announce", "find", "ticket", "get", "open", "write"}

ASSUME AttachmentAssumption ==
  /\ SizeOf \in [Content -> Nat]
  /\ NameOf \in [Content -> Name]
  /\ Limit \in Nat \ {0}
  /\ Scenario \subseteq SUBSET (Step \cup {"idle"})
  /\ MaxFaults \in Nat
  /\ Peer \notin Local
  /\ None \notin Local \cup Att \cup Msg \cup Content
  /\ Text # None

VARIABLES
  faulty,   \* the steps that may fail here
  known,    \* backend: the DIDs whose document is registered
  object,   \* backend: object[a]: the slot or object of a, or None
  arriving, \* backend: the PUTs whose slot was found and whose bytes are
            \* still being read
  ticket,   \* backend: the attachments a download ticket was issued for
  wire,     \* backend: wire[m]: the manifest, Text, or None
  inbox,    \* backend: the messages, oldest first
  file,     \* file[n]: the bytes of the file named n, or None: no such file
  drawn,    \* the attachment and message ids that have been generated
  pc,       \* pc[p]: what process p does next
  call,     \* call[p]: the command p executes
  faults    \* failures so far

service == <<known, object, arriving, ticket, wire, inbox>>
vars == <<faulty, service, file, drawn, pc, call, faults>>

Object == [by : Local \cup {Peer}, bytes : Content \cup {None}, committed : BOOLEAN]
Size == {SizeOf[c] : c \in Content}
Manifest == [from : Local \cup {Peer}, att : Att, digest : Content, size : Size, name : Name]
Call == [att : Att \cup {None}, op : {"send", "download", "none"},
         me : Local \cup {None}, msg : Msg \cup {None}, content : Content \cup {None}]
NoCall == [att |-> None, op |-> "none", me |-> None, msg |-> None, content |-> None]

ASSUME NoneIsNoRecord == None \notin Object \cup Manifest \cup Seq(Content) /\ Text \notin Manifest
-----------------------------------------------------------------------------
Init ==
  /\ faulty \in Scenario
  /\ known \in SUBSET {Peer}
  /\ object = [a \in Att |-> None]
  /\ arriving = {}
  /\ ticket = {}
  /\ wire = [m \in Msg |-> None]
  /\ inbox = <<>>
  /\ file = [n \in Name |-> None]
  /\ drawn = {}
  /\ pc = [p \in Proc |-> "idle"]
  /\ call = [p \in Proc |-> NoCall]
  /\ faults = 0

Goto(p, from, to) == pc[p] = from /\ pc' = [pc EXCEPT ![p] = to]
Go(p, from, to) == Goto(p, from, to) /\ UNCHANGED call
End(p) == pc' = [pc EXCEPT ![p] = "idle"] /\ call' = [call EXCEPT ![p] = NoCall]
Verified(p) == Accepts(known, call[p].me)

\* The random id of the message is set apart now; nothing shows it before.
StartSend(p) ==
  \E me \in Local, a \in Att \ drawn, m \in Msg \ drawn, c \in Content :
    /\ Goto(p, "idle", "create")
    /\ call' = [call EXCEPT ![p] = [att |-> a, op |-> "send", me |-> me, msg |-> m,
                                    content |-> c]]
    /\ drawn' = drawn \cup {a, m}
    /\ UNCHANGED <<faulty, service, file, faults>>

StartDownload(p) ==
  \E me \in Local, m \in Msg :
    /\ Goto(p, "idle", "announce")
    /\ call' = [call EXCEPT ![p] = [NoCall EXCEPT !.op = "download", !.me = me, !.msg = m]]
    /\ UNCHANGED <<faulty, service, file, drawn, faults>>

Posted(m, w) ==
  /\ wire' = [wire EXCEPT ![m] = w]
  /\ inbox' = Append(inbox, m)

\* A peer's client, which need not be this one: a text, or a manifest that
\* tells the truth or does not, of an object it has or has not committed.
PeerSends ==
  \E m \in Msg \ drawn :
    /\ known' = known \cup {Peer}
    /\ \/ Posted(m, Text) /\ drawn' = drawn \cup {m} /\ UNCHANGED object
       \/ \E a \in Att \ drawn, b, d \in Content, done \in BOOLEAN :
            /\ Posted(m, [from |-> Peer, att |-> a, digest |-> d,
                          size |-> SizeOf[d], name |-> NameOf[d]])
            /\ object' = [object EXCEPT ![a] =
                            [by |-> Peer, bytes |-> b, committed |-> done]]
            /\ drawn' = drawn \cup {m, a}
    /\ UNCHANGED <<faulty, arriving, ticket, file, pc, call, faults>>
-----------------------------------------------------------------------------
(* Sending. *)

Slot(a, me) == object' = [object EXCEPT ![a] = [by |-> me, bytes |-> None, committed |-> FALSE]]

\* runAttachSend does not register its document first, runAttachDownload does.
CreateSlot(p) ==
  /\ Verified(p)
  /\ Go(p, "create", "put")
  /\ Slot(call[p].att, call[p].me)
  /\ UNCHANGED <<faulty, known, arriving, ticket, wire, inbox, file, drawn, faults>>

Put(p) ==
  /\ Go(p, "put", "upload")
  /\ arriving' = arriving \cup {[att |-> call[p].att, content |-> call[p].content]}
  /\ UNCHANGED <<faulty, known, object, ticket, wire, inbox, file, drawn, faults>>

\* handleUpload has read the body and stores it in the record it found,
\* which abort_object may have taken out of the service meanwhile. The sender
\* is answered if it is still there.
Uploaded(u) ==
  LET waiting == {p \in Proc : pc[p] = "upload" /\ call[p].att = u.att} IN
  /\ arriving' = arriving \ {u}
  /\ object' = IF object[u.att] = None THEN object
               ELSE [object EXCEPT ![u.att].bytes = u.content]
  /\ pc' = [p \in Proc |-> IF p \in waiting THEN "commit" ELSE pc[p]]
  /\ UNCHANGED <<faulty, known, ticket, wire, inbox, file, drawn, call, faults>>

Abort(p) ==
  /\ pc[p] = "abort"
  /\ End(p)
  /\ object' = [object EXCEPT ![call[p].att] = None]
  /\ UNCHANGED <<faulty, known, arriving, ticket, wire, inbox, file, drawn, faults>>

\* A mutant: the commit makes the record anew.
CommittedAnew(a) == object' = [object EXCEPT ![a].committed = TRUE, ![a].bytes = None]

Committed(a) == object' = [object EXCEPT ![a].committed = TRUE]

Commit(p) ==
  /\ Go(p, "commit", "register")
  /\ Committed(call[p].att)
  /\ UNCHANGED <<faulty, known, arriving, ticket, wire, inbox, file, drawn, faults>>

\* SendAttachmentManifest: register_document, then direct.send.
\* (The row it then stores is StoreSent of Messaging.)
Register(p) ==
  /\ Go(p, "register", "send")
  /\ known' = known \cup {call[p].me}
  /\ UNCHANGED <<faulty, object, arriving, ticket, wire, inbox, file, drawn, faults>>

ManifestOf(p) == [from |-> call[p].me, att |-> call[p].att, digest |-> call[p].content,
                  size |-> SizeOf[call[p].content], name |-> NameOf[call[p].content]]

SendManifest(p) ==
  /\ pc[p] = "send"
  /\ End(p)
  /\ Posted(call[p].msg, ManifestOf(p))
  /\ UNCHANGED <<faulty, known, object, arriving, ticket, file, drawn, faults>>
-----------------------------------------------------------------------------
(* Downloading. *)

RegisterDocument(p) ==
  /\ Go(p, "announce", "find")
  /\ known' = known \cup {call[p].me}
  /\ UNCHANGED <<faulty, object, arriving, ticket, wire, inbox, file, drawn, faults>>

Shown(m) == \E i \in DOMAIN Oldest(inbox, Limit) : inbox[i] = m
HasManifest(m) == wire[m] \notin {None, Text}

\* findAttachmentMessage reads the backend's inbox, not the local database.
Find(p) ==
  /\ Shown(call[p].msg) /\ HasManifest(call[p].msg)
  /\ Go(p, "find", "ticket")
  /\ UNCHANGED <<faulty, service, file, drawn, faults>>

Served(a) == object[a] # None /\ object[a].committed

GetDownloadTicket(p) ==
  LET a == wire[call[p].msg].att IN
  /\ Go(p, "ticket", "get")
  /\ Served(a)
  /\ ticket' = ticket \cup {a}
  /\ UNCHANGED <<faulty, known, object, arriving, wire, inbox, file, drawn, faults>>

\* A mutant: only the length is compared.
CheckedLength(m, c) == SizeOf[c] = wire[m].size
\* A mutant: one byte too few is read.
CheckedShort(m, c) == SizeOf[c] + 1 = wire[m].size /\ c = wire[m].digest

\* Download returns the bytes it got if their size and digest are those of
\* the manifest.
Checked(m, c) == SizeOf[c] = wire[m].size /\ c = wire[m].digest

\* The bytes may be cut off or altered on their way.
Get(p) ==
  LET a == wire[call[p].msg].att IN
  /\ Goto(p, "get", "open")
  /\ a \in ticket /\ Served(a)
  /\ \E c \in Content :
       /\ IF c = object[a].bytes THEN UNCHANGED faults
          ELSE "get" \in faulty /\ faults < MaxFaults /\ faults' = faults + 1
       /\ Checked(call[p].msg, c)
       /\ call' = [call EXCEPT ![p].content = c]
  /\ UNCHANGED <<faulty, service, file, drawn>>

\* os.WriteFile truncates the file and then writes to it.
OpenFile(p) ==
  /\ Go(p, "open", "write")
  /\ file' = [file EXCEPT ![wire[call[p].msg].name] = <<>>]
  /\ UNCHANGED <<faulty, service, drawn, faults>>

\* The first k bytes, over what the file holds by now.
Wrote(p, k) ==
  file' = [file EXCEPT ![wire[call[p].msg].name] = Over(Bytes(call[p].content, k), @)]

WriteFile(p) ==
  /\ pc[p] = "write"
  /\ End(p)
  /\ Wrote(p, SizeOf[call[p].content])
  /\ UNCHANGED <<faulty, service, drawn, faults>>
-----------------------------------------------------------------------------
(* Refusals and failures. *)

\* The backend, or the client's own check of what it got, says no.
Refused(p) ==
  LET m == call[p].msg IN
  /\ \/ pc[p] = "create" /\ ~Verified(p)
     \/ pc[p] = "find" /\ ~(Shown(m) /\ HasManifest(m))
     \/ pc[p] = "ticket" /\ ~Served(wire[m].att)
     \/ pc[p] = "get" /\ ~(Served(wire[m].att) /\ Checked(m, object[wire[m].att].bytes))
  /\ End(p)
  /\ UNCHANGED <<faulty, service, file, drawn, faults>>

Fault(step) == step \in faulty /\ faults < MaxFaults /\ faults' = faults + 1

\* A write that is broken off has written some of the bytes.
LeftAt(p) ==
  IF pc[p] = "write" THEN \E k \in 0..SizeOf[call[p].content] : Wrote(p, k)
  ELSE UNCHANGED file

\* A step gets no answer, or an error for one.
Fail(p) ==
  /\ pc[p] \notin {"idle", "put", "upload"}
  /\ Fault(pc[p])
  /\ End(p)
  /\ LeftAt(p)
  /\ UNCHANGED <<faulty, service, drawn>>

\* A PUT that does not succeed, whether or not its bytes still arrive (60 s).
UploadFailsThen(p, to) ==
  /\ pc[p] \in {"put", "upload"}
  /\ Fault(pc[p])
  /\ Go(p, pc[p], to)
  /\ UNCHANGED <<faulty, service, file, drawn>>

\* A mutant: the sender goes on as if the bytes were there.
UploadIgnored(p) == UploadFailsThen(p, "commit")
\* A mutant: the slot is left behind.
UploadForgotten(p) ==
  /\ pc[p] \in {"put", "upload"}
  /\ Fault(pc[p])
  /\ End(p)
  /\ UNCHANGED <<faulty, service, file, drawn>>
UploadFails(p) == UploadFailsThen(p, "abort")

\* The backend does what is asked and its answer is lost.
AnswerLost(p) ==
  LET c == call[p] IN
  /\ Fault(pc[p])
  /\ End(p)
  /\ \/ /\ \/ pc[p] = "create" /\ Verified(p) /\ Slot(c.att, c.me)
           \/ pc[p] = "commit" /\ Committed(c.att)
        /\ UNCHANGED <<known, ticket, wire, inbox>>
     \/ /\ pc[p] = "send"
        /\ Posted(c.msg, ManifestOf(p))
        /\ UNCHANGED <<known, object, ticket>>
     \/ /\ pc[p] \in {"register", "announce"}
        /\ known' = known \cup {c.me}
        /\ UNCHANGED <<object, ticket, wire, inbox>>
     \/ /\ pc[p] = "ticket" /\ Served(wire[c.msg].att)
        /\ ticket' = ticket \cup {wire[c.msg].att}
        /\ UNCHANGED <<known, object, wire, inbox>>
  /\ UNCHANGED <<faulty, arriving, file, drawn>>

Crash(p) ==
  /\ pc[p] # "idle"
  /\ Fault("idle")
  /\ End(p)
  /\ LeftAt(p)
  /\ UNCHANGED <<faulty, service, drawn>>

Proceed(p) ==
  \/ CreateSlot(p) \/ Put(p) \/ Abort(p) \/ Commit(p) \/ Register(p) \/ SendManifest(p)
  \/ RegisterDocument(p) \/ Find(p) \/ GetDownloadTicket(p) \/ Get(p)
  \/ OpenFile(p) \/ WriteFile(p) \/ Refused(p)
Break(p) == Fail(p) \/ UploadFails(p) \/ AnswerLost(p) \/ Crash(p)
Arrival == \E u \in arriving : Uploaded(u)

Next == PeerSends \/ Arrival
        \/ \E p \in Proc : StartSend(p) \/ StartDownload(p) \/ Proceed(p) \/ Break(p)

Spec == Init /\ [][Next]_vars
-----------------------------------------------------------------------------
(* Properties. *)

TypeOK ==
  /\ faulty \in Scenario
  /\ known \subseteq Local \cup {Peer}
  /\ object \in [Att -> Object \cup {None}]
  /\ arriving \subseteq [att : Att, content : Content]
  /\ ticket \subseteq Att
  /\ wire \in [Msg -> Manifest \cup {None, Text}]
  /\ inbox \in Seq({m \in Msg : wire[m] # None})
  /\ file \in [Name -> Seq(Content) \cup {None}]
  /\ drawn \subseteq Att \cup Msg
  /\ pc \in [Proc -> Step \cup {"idle"}]
  /\ call \in [Proc -> Call]
  /\ faults \in 0..MaxFaults

(* A manifest this client has sent is never hollow: the object it names is *)
(* committed and holds exactly the bytes whose size and digest the         *)
(* manifest gives, whatever failed and whoever died before and after       *)
(* (attachment.go 74-122).                                                 *)
ManifestsBacked ==
  \A m \in Msg : HasManifest(m) /\ wire[m].from \in Local =>
    LET w == wire[m] IN
    /\ Served(w.att)
    /\ object[w.att].bytes = w.digest
    /\ w.size = SizeOf[object[w.att].bytes]

(* "verify size and sha-256": no byte gets into a file that has not passed  *)
(* the check. Every byte of a downloaded file, also of one whose write was *)
(* broken off, or that two downloads wrote at once, is a byte of the       *)
(* content that a manifest with that file name gives, at the place it has  *)
(* there, whatever a peer's manifest claims, its object holds or the       *)
(* connection does to the bytes (attachment.go 192-209, service.go         *)
(* 225-250). All downloads go to one directory here.                       *)
Authentic ==
  \A n \in Name : file[n] # None =>
    \A i \in 1..Len(file[n]) :
      \E m \in Msg :
        /\ HasManifest(m) /\ wire[m].name = n
        /\ file[n][i] = wire[m].digest
        /\ i <= wire[m].size

UploadsOnly == faulty = {"put", "upload"}

(* "Best-effort abort on upload failure": if nothing but uploads fails,    *)
(* a workspace at rest has left no slot behind: each of its objects is     *)
(* committed, and some message tells of it (attachment.go 91-95).          *)
SlotsSettled ==
  UploadsOnly /\ (\A p \in Proc : call[p].op # "send") =>
    \A a \in Att : object[a] # None /\ object[a].by \in Local =>
      /\ object[a].committed
      /\ \E m \in Msg : HasManifest(m) /\ wire[m].att = a

(* What was sent can be fetched: a download whose message is in the inbox  *)
(* and from this client does not end, if nothing but uploads fails, before *)
(* a file of that name begins with the attached bytes; and they are all of *)
(* it, unless another download has written to that file since this one     *)
(* opened it (attachment.go 134-217, service.go 163-250).                  *)
Mine(m) == HasManifest(m) /\ wire[m].from \in Local
DownloadsSucceed ==
  [][UploadsOnly =>
       \A p \in Proc :
         LET m == call[p].msg
             n == wire[m].name IN
         /\ call[p].op = "download" /\ pc[p] # "announce" /\ pc'[p] = "idle"
         /\ Mine(m) /\ Shown(m)
         => /\ file'[n] # None
            /\ Len(file'[n]) >= wire[m].size
            /\ \A i \in 1..wire[m].size : file'[n][i] = wire[m].digest
            /\ file[n] = <<>> => Len(file'[n]) = wire[m].size]_vars

(* A file and its message are posted in one step, whatever fails or is     *)
(* aborted on the way and however late a PUT arrives, and a download only  *)
(* takes, under its name, what a message that the inbox shows tells of:    *)
(* every step is one of Parcels or changes nothing there, where the bytes  *)
(* posted with a message of ours are those its object serves               *)
(* (attachment.go 74-122, 134-217).                                        *)
Stored == [m \in Msg |-> IF Mine(m) /\ Served(wire[m].att) THEN object[wire[m].att].bytes ELSE None]
Parcel == INSTANCE Parcels WITH sent <- wire, held <- Stored
ParcelsSpec == Parcel!Spec
=============================================================================
