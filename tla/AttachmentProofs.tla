-------------------------- MODULE AttachmentProofs --------------------------
(***************************************************************************)
(* Proofs about Attachment: manifests tell of bytes that are there,        *)
(* files hold no byte that their manifests do not tell of, a failed upload *)
(* leaves nothing behind, and what was sent can be fetched.                *)
(*                                                                         *)
(* A send owns its slot: nobody else has its id, so that what it has put   *)
(* there stays until it has sent its manifest. What can still reach the    *)
(* slot is the PUT that the client no longer waits for: ObjectAt says      *)
(* where one may be under way and what it carries, BackedBy that there     *)
(* is none once the manifest is out.                                       *)
(***************************************************************************)
EXTENDS Attachment, SequenceTheorems, TLAPS

(* What a process has in memory, at each place. *)
Sends == {"create", "put", "upload", "abort", "commit", "register", "send"}
Downloads == {"announce", "find", "ticket", "get", "open", "write"}
PhaseAt(p) ==
  LET c == call[p] IN
  /\ pc[p] = "idle" <=> c.op = "none"
  /\ pc[p] \in Sends <=> c.op = "send"
  /\ pc[p] \in Downloads <=> c.op = "download"
  /\ c.op = "send" => c.att \in Att /\ c.msg \in Msg /\ c.content \in Content
  /\ c.op # "send" => c.att = None
  /\ c.op = "download" => c.msg \in Msg
  /\ c.op # "none" => c.me \in Local
  /\ pc[p] \in {"ticket", "get", "open", "write"} => HasManifest(c.msg)
  /\ pc[p] \in {"open", "write"} => c.content \in Content /\ Checked(c.msg, c.content)
Phases == \A p \in Proc : PhaseAt(p)

(* The ids of a send are its own, and its message is not there yet. *)
IdAt(p) ==
  LET c == call[p] IN
  c.op = "send" =>
    /\ c.att \in drawn /\ c.msg \in drawn /\ wire[c.msg] = None
    /\ \A q \in Proc \ {p} : call[q].op = "send" => call[q].att # c.att /\ call[q].msg # c.msg
Ids == \A p \in Proc : IdAt(p)

(* How far the sender's object has got. *)
NotArriving(a) == \A u \in arriving : u.att # a
Holds(a, bytes, committed) ==
  /\ object[a] # None
  /\ object[a].bytes = bytes /\ object[a].committed = committed
ObjectAt(p) ==
  LET c == call[p] IN
  /\ pc[p] = "create" => object[c.att] = None
  /\ pc[p] \in {"put", "upload"} => Holds(c.att, None, FALSE)
  /\ pc[p] = "commit" => Holds(c.att, c.content, FALSE)
  /\ pc[p] \in {"register", "send"} => Holds(c.att, c.content, TRUE)
  /\ pc[p] \in {"create", "put", "commit", "register", "send"} => NotArriving(c.att)
  /\ pc[p] = "upload" => \A u \in arriving : u.att = c.att => u.content = c.content
Objects == \A p \in Proc : ObjectAt(p)

(* An id that has not been drawn is used nowhere, and an object that a      *)
(* manifest of this client tells of is out of everybody's reach.            *)
Fresh ==
  /\ \A a \in Att \ drawn : object[a] = None /\ NotArriving(a)
  /\ \A m \in Msg \ drawn : wire[m] = None
BackedBy(w) ==
  /\ w.att \in drawn /\ NotArriving(w.att) /\ Holds(w.att, w.digest, TRUE)
  /\ w.size = SizeOf[w.digest]
  /\ \A p \in Proc : call[p].op = "send" => call[p].att # w.att
Backed == \A m \in Msg : Mine(m) => BackedBy(wire[m])

(* What a file holds was told of, and a file that is being written was      *)
(* opened.                                                                  *)
TellsOfByte(m, n, c, i) ==
  HasManifest(m) /\ wire[m].name = n /\ c = wire[m].digest /\ i <= wire[m].size
Vouched ==
  \A n \in Name : file[n] # None =>
    \A i \in 1..Len(file[n]) : \E m \in Msg : TellsOfByte(m, n, file[n][i], i)
OpenedAt(p) == pc[p] = "write" => file[wire[call[p].msg].name] # None
Files == Vouched /\ \A p \in Proc : OpenedAt(p)

IInv == TypeOK /\ Phases /\ Ids /\ Objects /\ Fresh /\ Backed /\ Files

Accepteds == {m \in Msg : wire[m] # None}

(* A process that runs no command holds a call like any other.           *)
LEMMA NoCallType == NoCall \in Call
BY DEF NoCall, Call

ProcStep(p) ==
  \/ StartSend(p) \/ StartDownload(p)
  \/ CreateSlot(p) \/ Put(p) \/ Abort(p) \/ Commit(p) \/ Register(p) \/ SendManifest(p)
  \/ RegisterDocument(p) \/ Find(p) \/ GetDownloadTicket(p) \/ Get(p)
  \/ OpenFile(p) \/ WriteFile(p) \/ Refused(p)
  \/ Fail(p) \/ UploadFails(p) \/ AnswerLost(p) \/ Crash(p)

(* A step is that of a peer, of a late PUT or of one process.            *)
LEMMA NextCases ==
  ASSUME Next
  PROVE  \/ PeerSends
         \/ \E u \in arriving : Uploaded(u)
         \/ \E p \in Proc : ProcStep(p)
BY DEF Next, Arrival, Proceed, Break, ProcStep

(* The backend adds a message to what it shows and changes nothing else. *)
LEMMA PostedEffect ==
  ASSUME TypeOK, NEW m \in Msg, NEW w \in Manifest \cup {Text}, Posted(m, w)
  PROVE  /\ wire' \in [Msg -> Manifest \cup {None, Text}]
         /\ wire'[m] = w /\ w # None
         /\ \A k \in Msg : k # m => wire'[k] = wire[k]
         /\ inbox' \in Seq(Accepteds')
<1>1. /\ wire' \in [Msg -> Manifest \cup {None, Text}] /\ wire'[m] = w /\ w # None
      /\ \A k \in Msg : k # m => wire'[k] = wire[k]
  BY NoneIsNoRecord, AttachmentAssumption DEF TypeOK, Posted
<1>2. Accepteds \subseteq Accepteds' /\ m \in Accepteds'
  BY <1>1 DEF Accepteds
<1>3. inbox \in Seq(Accepteds')
  BY <1>2, SeqMonotonic DEF TypeOK, Accepteds
<1> QED
  BY <1>1, <1>2, <1>3, AppendProperties DEF Posted

(* What a send posts is a manifest of its own object (attachment.go      *)
(* 105-122).                                                             *)
LEMMA ManifestType ==
  ASSUME IInv, NEW p \in Proc, pc[p] = "send"
  PROVE  /\ ManifestOf(p) \in Manifest /\ call[p].msg \in Msg /\ wire[call[p].msg] = None
         /\ ManifestOf(p).from \in Local /\ ManifestOf(p).att = call[p].att
         /\ ManifestOf(p).digest = call[p].content
         /\ ManifestOf(p).size = SizeOf[call[p].content]
<1>1. /\ call[p].op = "send" /\ call[p].me \in Local /\ call[p].att \in Att
      /\ call[p].content \in Content /\ call[p].msg \in Msg
  BY DEF IInv, Phases, PhaseAt, Sends, Downloads
<1>2. SizeOf[call[p].content] \in Size /\ NameOf[call[p].content] \in Name
  BY <1>1, AttachmentAssumption DEF Size
<1>3. wire[call[p].msg] = None
  BY <1>1 DEF IInv, Ids, IdAt
<1> QED
  BY <1>1, <1>2, <1>3 DEF ManifestOf, Manifest

(* A process's memory is its own.                                        *)
LEMMA OthersKeep ==
  ASSUME TypeOK, NEW p \in Proc, ProcStep(p), NEW q \in Proc, q # p
  PROVE  pc'[q] = pc[q] /\ call'[q] = call[q]
<1> USE DEF TypeOK, Goto, Go, End
<1>1. CASE \/ StartSend(p) \/ StartDownload(p) \/ CreateSlot(p) \/ Put(p) \/ Abort(p)
           \/ Commit(p) \/ Register(p) \/ SendManifest(p)
  BY <1>1 DEF StartSend, StartDownload, CreateSlot, Put, Abort, Commit, Register, SendManifest
<1>2. CASE \/ RegisterDocument(p) \/ Find(p) \/ GetDownloadTicket(p) \/ Get(p)
           \/ OpenFile(p) \/ WriteFile(p) \/ Refused(p)
  BY <1>2 DEF RegisterDocument, Find, GetDownloadTicket, Get, OpenFile, WriteFile, Refused
<1>3. CASE Fail(p) \/ UploadFails(p) \/ AnswerLost(p) \/ Crash(p)
  BY <1>3 DEF Fail, UploadFails, UploadFailsThen, AnswerLost, Crash
<1> QED
  BY <1>1, <1>2, <1>3 DEF ProcStep

(* A step of a process on the messages: nothing, or its own manifest. *)
Posts(p) ==
  /\ pc[p] = "send" /\ pc'[p] = "idle" /\ call'[p] = NoCall
  /\ Posted(call[p].msg, ManifestOf(p))
  /\ UNCHANGED <<object, arriving, drawn, file>>

(* Messages stay as they were sent.                                      *)
LEMMA WireStep ==
  ASSUME IInv, NEW p \in Proc, ProcStep(p)
  PROVE  /\ UNCHANGED <<wire, inbox>> \/ Posts(p)
         /\ wire' \in [Msg -> Manifest \cup {None, Text}] /\ inbox' \in Seq(Accepteds')
         /\ \A m \in Msg : wire[m] # None => wire'[m] = wire[m]
         /\ \A m \in Msg : wire'[m] # wire[m] =>
              Posts(p) /\ m = call[p].msg /\ wire'[m] = ManifestOf(p)
<1>0. TypeOK
  BY DEF IInv
<1>1. CASE SendManifest(p) \/ (AnswerLost(p) /\ pc[p] = "send")
  <2>1. Posts(p)
    BY <1>0, <1>1 DEF SendManifest, AnswerLost, End, TypeOK, Posts
  <2> QED
    BY <1>0, <2>1, ManifestType, PostedEffect DEF Posts
<1>2. CASE UNCHANGED <<wire, inbox>>
  BY <1>0, <1>2 DEF TypeOK, Accepteds
<1>3. CASE AnswerLost(p) /\ pc[p] # "send"
  BY <1>2, <1>3 DEF AnswerLost
<1> QED
  BY <1>1, <1>2, <1>3
     DEF ProcStep, StartSend, StartDownload, CreateSlot, Put, Abort, Commit, Register,
         RegisterDocument, Find, GetDownloadTicket, Get, OpenFile, WriteFile, Refused,
         Fail, UploadFails, UploadFailsThen, Crash, service

(* A step of a process on the objects: the one of its own send only.        *)
LEMMA ObjectStep ==
  ASSUME IInv, NEW p \in Proc, ProcStep(p)
  PROVE  /\ object' \in [Att -> Object \cup {None}]
         /\ \A a \in Att : object'[a] # object[a] => call[p].op = "send" /\ a = call[p].att
         /\ arriving' \subseteq [att : Att, content : Content]
         /\ \A u \in arriving' \ arriving :
              /\ pc[p] = "put" /\ pc'[p] = "upload" /\ call'[p] = call[p]
              /\ u.att = call[p].att /\ u.content = call[p].content
         /\ arriving \subseteq arriving'
<1>0. TypeOK /\ PhaseAt(p) /\ ObjectAt(p)
  BY DEF IInv, Phases, Objects
<1>1. object \in [Att -> Object \cup {None}] /\ arriving \subseteq [att : Att, content : Content]
  BY <1>0 DEF TypeOK
<1>2. pc[p] \in Sends => /\ call[p].att \in Att /\ call[p].me \in Local
                         /\ call[p].content \in Content /\ call[p].op = "send"
  BY <1>0 DEF PhaseAt
<1>3. CASE /\ pc[p] = "create" /\ Slot(call[p].att, call[p].me) /\ UNCHANGED arriving
  <2>1. [by |-> call[p].me, bytes |-> None, committed |-> FALSE] \in Object
    BY <1>2, <1>3 DEF Sends, Object
  <2> QED
    BY <1>1, <1>2, <1>3, <2>1 DEF Slot, Sends
<1>4. CASE /\ pc[p] = "commit" /\ Committed(call[p].att) /\ UNCHANGED arriving
  <2>1. object[call[p].att] \in Object
    BY <1>0, <1>1, <1>2, <1>4 DEF ObjectAt, Holds, Sends
  <2>2. [object[call[p].att] EXCEPT !.committed = TRUE] \in Object
    BY <2>1 DEF Object
  <2> QED
    BY <1>1, <1>2, <1>4, <2>2 DEF Committed, Sends
<1>5. CASE Abort(p)
  BY <1>1, <1>2, <1>5 DEF Abort, Sends
<1>6. CASE Put(p)
  <2>1. pc[p] = "put" /\ pc'[p] = "upload" /\ call'[p] = call[p] /\ object' = object
        /\ arriving' = arriving \cup {[att |-> call[p].att, content |-> call[p].content]}
    BY <1>0, <1>6 DEF Put, Go, Goto, TypeOK
  <2>2. [att |-> call[p].att, content |-> call[p].content] \in [att : Att, content : Content]
    BY <1>2, <2>1 DEF Sends
  <2> QED
    BY <1>1, <2>1, <2>2
<1>7. CASE UNCHANGED <<object, arriving>>
  BY <1>1, <1>7
<1>8. CASE CreateSlot(p)
  BY <1>3, <1>8 DEF CreateSlot, Go, Goto
<1>9. CASE Commit(p)
  BY <1>4, <1>9 DEF Commit, Go, Goto
<1>10. CASE AnswerLost(p)
  BY <1>3, <1>4, <1>7, <1>10 DEF AnswerLost
<1>11. CASE \/ StartSend(p) \/ StartDownload(p) \/ Register(p) \/ SendManifest(p)
            \/ RegisterDocument(p) \/ Find(p) \/ GetDownloadTicket(p) \/ Get(p)
            \/ OpenFile(p) \/ WriteFile(p) \/ Refused(p) \/ Fail(p) \/ UploadFails(p)
            \/ Crash(p)
  BY <1>7, <1>11
     DEF StartSend, StartDownload, Register, SendManifest, RegisterDocument, Find,
         GetDownloadTicket, Get, OpenFile, WriteFile, Refused, Fail, UploadFails,
         UploadFailsThen, Crash, service
<1> QED
  BY <1>5, <1>6, <1>8, <1>9, <1>10, <1>11 DEF ProcStep

(* What a process has in memory stays as good as it was while others act. *)
LEMMA PhaseStays ==
  ASSUME NEW p, PhaseAt(p), pc'[p] = pc[p], call'[p] = call[p],
         \A m \in Msg : wire[m] # None => wire'[m] = wire[m]
  PROVE  PhaseAt(p)'
<1>1. \A m \in Msg : HasManifest(m) => HasManifest(m)' /\ wire'[m] = wire[m]
  BY DEF HasManifest
<1>2. pc[p] \in {"ticket", "get", "open", "write"} => call[p].msg \in Msg
  BY DEF PhaseAt, Downloads
<1> QED
  BY <1>1, <1>2 DEF PhaseAt, Checked

(* Every step keeps what each place in a command stands for.             *)
LEMMA PhaseStep ==
  ASSUME IInv, NEW p \in Proc, ProcStep(p)
  PROVE  /\ pc' \in [Proc -> Step \cup {"idle"}] /\ call' \in [Proc -> Call]
         /\ Phases'
<1>0. TypeOK /\ PhaseAt(p)
  BY DEF IInv, Phases
<1>1. \A m \in Msg : wire[m] # None => wire'[m] = wire[m]
  BY WireStep
<1>2. \A m \in Msg : HasManifest(m) => HasManifest(m)' /\ wire'[m] = wire[m]
  BY <1>1 DEF HasManifest
<1> DEFINE Good == /\ pc' \in [Proc -> Step \cup {"idle"}] /\ call' \in [Proc -> Call]
                   /\ PhaseAt(p)'
<1> USE DEF Goto, Go
<1>10. Good
  <2>3. CASE End(p)
    <3>1. /\ pc' \in [Proc -> Step \cup {"idle"}] /\ call' \in [Proc -> Call]
          /\ pc'[p] = "idle" /\ call'[p] = NoCall
      BY <1>0, <2>3, NoCallType DEF End, TypeOK
    <3> QED
      BY <3>1 DEF PhaseAt, NoCall, Sends, Downloads
  <2>4. CASE StartSend(p)
    <3>1. PICK me \in Local, a \in Att \ drawn, m \in Msg \ drawn, c \in Content :
            /\ pc' = [pc EXCEPT ![p] = "create"]
            /\ call' = [call EXCEPT ![p] = [att |-> a, op |-> "send", me |-> me, msg |-> m,
                                            content |-> c]]
      BY <2>4 DEF StartSend
    <3>2. [att |-> a, op |-> "send", me |-> me, msg |-> m, content |-> c] \in Call
      BY DEF Call
    <3>3. /\ pc'[p] = "create"
          /\ call'[p] = [att |-> a, op |-> "send", me |-> me, msg |-> m, content |-> c]
          /\ pc' \in [Proc -> Step \cup {"idle"}] /\ call' \in [Proc -> Call]
      BY <1>0, <3>1, <3>2 DEF TypeOK, Step
    <3> QED
      BY <3>3 DEF PhaseAt, Sends, Downloads
  <2>5. CASE StartDownload(p)
    <3>1. PICK me \in Local, m \in Msg :
            /\ pc' = [pc EXCEPT ![p] = "announce"]
            /\ call' = [call EXCEPT ![p] =
                          [NoCall EXCEPT !.op = "download", !.me = me, !.msg = m]]
      BY <2>5 DEF StartDownload
    <3> DEFINE c == [NoCall EXCEPT !.op = "download", !.me = me, !.msg = m]
    <3>2. c \in Call /\ c.op = "download" /\ c.me = me /\ c.msg = m /\ c.att = None
      BY DEF Call, NoCall
    <3>3. /\ pc'[p] = "announce" /\ call'[p] = c
          /\ pc' \in [Proc -> Step \cup {"idle"}] /\ call' \in [Proc -> Call]
      BY <1>0, <3>1, <3>2 DEF TypeOK, Step
    <3> HIDE DEF c
    <3> QED
      BY <3>2, <3>3 DEF PhaseAt, Sends, Downloads
  <2>6. CASE \/ CreateSlot(p) \/ Put(p) \/ Commit(p) \/ Register(p) \/ UploadFails(p)
    <3>1. /\ call' = call /\ pc[p] \in Sends /\ pc'[p] \in Sends
          /\ pc' \in [Proc -> Step \cup {"idle"}]
      BY <1>0, <2>6 DEF CreateSlot, Put, Commit, Register, UploadFails, UploadFailsThen, TypeOK,
         Step, Sends
    <3> QED
      BY <1>0, <3>1 DEF TypeOK, PhaseAt, Sends, Downloads
  <2>7. CASE RegisterDocument(p) \/ Find(p) \/ GetDownloadTicket(p) \/ OpenFile(p)
    <3>1. /\ call' = call /\ pc[p] \in Downloads /\ pc'[p] \in Downloads
          /\ pc' \in [Proc -> Step \cup {"idle"}]
          /\ pc'[p] \in {"ticket", "get", "open", "write"} => HasManifest(call[p].msg)
          /\ pc'[p] \in {"open", "write"} => pc[p] \in {"open", "write"}
      BY <1>0, <2>7 DEF RegisterDocument, Find, GetDownloadTicket, OpenFile, TypeOK,
         Step, Downloads, PhaseAt
    <3> QED
      BY <1>0, <1>2, <3>1 DEF TypeOK, PhaseAt, Sends, Downloads, Checked
  <2>8. CASE Get(p)
    <3>1. PICK c \in Content :
            /\ Checked(call[p].msg, c)
            /\ call' = [call EXCEPT ![p].content = c]
            /\ pc[p] = "get" /\ pc' = [pc EXCEPT ![p] = "open"]
            /\ wire' = wire
      BY <2>8 DEF Get, service
    <3>2. call[p] \in Call
      BY <1>0 DEF TypeOK
    <3>3. [call[p] EXCEPT !.content = c] \in Call
      BY <3>2 DEF Call
    <3>4. /\ call'[p] = [call[p] EXCEPT !.content = c] /\ pc'[p] = "open"
          /\ pc' \in [Proc -> Step \cup {"idle"}] /\ call' \in [Proc -> Call]
      BY <1>0, <3>1, <3>3 DEF TypeOK, Step
    <3>5. /\ call'[p].op = call[p].op /\ call'[p].att = call[p].att /\ call'[p].me = call[p].me
          /\ call'[p].msg = call[p].msg /\ call'[p].content = c
      BY <3>2, <3>4 DEF Call
    <3> QED
      BY <1>0, <1>2, <3>1, <3>4, <3>5 DEF PhaseAt, Sends, Downloads, Checked
  <2>9. CASE \/ Abort(p) \/ SendManifest(p) \/ WriteFile(p) \/ Refused(p) \/ Fail(p)
             \/ AnswerLost(p) \/ Crash(p)
    BY <2>3, <2>9 DEF Abort, SendManifest, WriteFile, Refused, Fail, AnswerLost, Crash
  <2> QED
    BY <2>4, <2>5, <2>6, <2>7, <2>8, <2>9 DEF ProcStep
<1>11. \A q \in Proc : q # p => PhaseAt(q)'
  BY <1>0, <1>1, OthersKeep, PhaseStays DEF IInv, Phases
<1> QED
  BY <1>10, <1>11 DEF Phases

(* Where a process can be in a send, and how it got there.                  *)
LEMMA SendStep ==
  ASSUME IInv, NEW p \in Proc, ProcStep(p), call'[p].op = "send"
  PROVE  \/ /\ call'[p].att \in Att \ drawn /\ call'[p].msg \in Msg \ drawn
            /\ drawn' = drawn \cup {call'[p].att, call'[p].msg}
            /\ pc'[p] = "create" /\ UNCHANGED service
         \/ /\ call[p].op = "send" /\ call'[p] = call[p] /\ UNCHANGED <<drawn, wire>>
<1>0. TypeOK /\ PhaseAt(p)
  BY DEF IInv, Phases
<1>1. CASE StartSend(p)
  BY <1>0, <1>1 DEF StartSend, TypeOK, Goto
<1>2. CASE End(p)
  BY <1>0, <1>2 DEF End, TypeOK, NoCall
<1>3. CASE StartDownload(p)
  BY <1>0, <1>3 DEF StartDownload, TypeOK, NoCall
<1>4. CASE Get(p)
  <2>1. call[p] \in Call
    BY <1>0 DEF TypeOK
  <2>2. call'[p].op = call[p].op /\ pc[p] = "get"
    BY <1>0, <1>4, <2>1 DEF Get, Goto, TypeOK, Call
  <2> QED
    BY <1>0, <2>2 DEF PhaseAt, Sends, Downloads
<1>5. CASE \/ CreateSlot(p) \/ Put(p) \/ Commit(p) \/ Register(p) \/ UploadFails(p)
           \/ RegisterDocument(p) \/ Find(p) \/ GetDownloadTicket(p) \/ OpenFile(p)
  BY <1>0, <1>5 DEF CreateSlot, Put, Commit, Register, UploadFails, UploadFailsThen,
     RegisterDocument, Find, GetDownloadTicket, OpenFile, Go, service
<1> QED
  BY <1>1, <1>2, <1>3, <1>4, <1>5
     DEF ProcStep, Abort, SendManifest, WriteFile, Refused, Fail, AnswerLost, Crash

(* Every step keeps the ids apart.                                       *)
LEMMA IdsStep ==
  ASSUME IInv, NEW p \in Proc, ProcStep(p)
  PROVE  drawn \subseteq drawn' /\ Ids'
<1>0. TypeOK /\ Ids /\ Fresh
  BY DEF IInv
<1>1. drawn \subseteq drawn'
  BY DEF ProcStep, StartSend, StartDownload, CreateSlot, Put, Abort, Commit, Register,
     SendManifest, RegisterDocument, Find, GetDownloadTicket, Get, OpenFile, WriteFile,
     Refused, Fail, UploadFails, UploadFailsThen, AnswerLost, Crash
<1>2. ASSUME NEW q \in Proc, q # p, call'[q].op = "send"
      PROVE  /\ call'[q] = call[q]
             /\ call[q].att \in drawn /\ call[q].msg \in drawn
             /\ wire[call[q].msg] = None /\ call[q].msg \in Msg
             /\ call[p].op = "send" => /\ call[p].att # call[q].att
                                       /\ call[p].msg # call[q].msg
             /\ \A r \in Proc : r # q /\ call[r].op = "send" =>
                  call[r].att # call[q].att /\ call[r].msg # call[q].msg
  <2>1. call'[q] = call[q]
    BY <1>0, <1>2, OthersKeep
  <2> QED
    BY <1>0, <1>2, <2>1 DEF Ids, IdAt, IInv, Phases, PhaseAt
<1>3. ASSUME NEW q \in Proc, q # p, call'[q].op = "send"
      PROVE  IdAt(q)'
  <2>1. wire'[call[q].msg] = None
    <3>1. ~Posts(p) \/ call[p].op = "send"
      BY DEF Posts, IInv, Phases, PhaseAt, Sends
    <3> QED
      BY <1>2, <1>3, <3>1, WireStep
  <2>2. call'[p].op = "send" => call'[p].att # call[q].att /\ call'[p].msg # call[q].msg
    BY <1>2, <1>3, SendStep
  <2>3. ASSUME NEW r \in Proc, r # q, r # p, call'[r].op = "send"
        PROVE  call'[r].att # call[q].att /\ call'[r].msg # call[q].msg
    BY <1>2, <1>3, <2>3
  <2> QED
    BY <1>1, <1>2, <1>3, <2>1, <2>2, <2>3 DEF IdAt
<1>4. ASSUME call'[p].op = "send"
      PROVE  IdAt(p)'
  <2>1. CASE /\ call'[p].att \in Att \ drawn /\ call'[p].msg \in Msg \ drawn
             /\ drawn' = drawn \cup {call'[p].att, call'[p].msg}
             /\ UNCHANGED service
    BY <1>0, <1>2, <2>1 DEF IdAt, Fresh, service
  <2>2. CASE call[p].op = "send" /\ call'[p] = call[p] /\ UNCHANGED <<drawn, wire>>
    <3>1. /\ call[p].att \in drawn /\ call[p].msg \in drawn /\ wire[call[p].msg] = None
      BY <1>0, <2>2 DEF Ids, IdAt
    <3> QED
      BY <1>2, <2>2, <3>1 DEF IdAt
  <2> QED
    BY <1>4, <2>1, <2>2, SendStep
<1> QED
  BY <1>1, <1>3, <1>4 DEF Ids, IdAt

(* Nobody's step reaches the object of somebody else's send.                *)
LEMMA OwnObjectOnly ==
  ASSUME IInv, NEW p \in Proc, ProcStep(p), NEW a \in Att,
         call[p].op = "send" => call[p].att # a
  PROVE  /\ object'[a] = object[a]
         /\ \A u \in arriving' : u.att = a => u \in arriving
         /\ NotArriving(a) => \A u \in arriving' : u.att # a
<1>1. pc[p] = "put" => call[p].op = "send"
  BY DEF IInv, Phases, PhaseAt, Sends
<1> QED
  BY <1>1, ObjectStep DEF NotArriving

(* Every step keeps what a send knows of its object: the ticket, the PUT *)
(* and the commit come in this order, and an abort ends the send         *)
(* (attachment.go 74-104).                                               *)
LEMMA ObjectsStep ==
  ASSUME IInv, NEW p \in Proc, ProcStep(p)
  PROVE  Objects'
<1>0. TypeOK /\ PhaseAt(p) /\ ObjectAt(p)
  BY DEF IInv, Phases, Objects
<1>1. ASSUME NEW q \in Proc, q # p
      PROVE  ObjectAt(q)'
  <2>1. pc'[q] = pc[q] /\ call'[q] = call[q] /\ ObjectAt(q)
    BY <1>0, <1>1, OthersKeep DEF IInv, Objects
  <2>2. CASE call[q].op = "send"
    <3>1. call[q].att \in Att /\ (call[p].op = "send" => call[p].att # call[q].att)
      BY <1>1, <2>2 DEF IInv, Phases, PhaseAt, Ids, IdAt
    <3>2. /\ object'[call[q].att] = object[call[q].att]
          /\ \A u \in arriving' : u.att = call[q].att => u \in arriving
          /\ NotArriving(call[q].att) => \A u \in arriving' : u.att # call[q].att
      BY <3>1, OwnObjectOnly
    <3>4. NotArriving(call[q].att) => \A u \in arriving' : u.att # call'[q].att
      BY <2>1, <3>2
    <3> QED
      BY <2>1, <3>2, <3>4 DEF ObjectAt, Holds, NotArriving
  <2>3. CASE call[q].op # "send"
    <3>1. pc[q] \notin Sends
      BY <2>3 DEF IInv, Phases, PhaseAt
    <3> QED
      BY <2>1, <3>1 DEF ObjectAt, Sends
  <2> QED
    BY <2>2, <2>3
<1>2. ObjectAt(p)'
  <2> USE DEF Goto, Go
  <2>1. CASE End(p)
    BY <1>0, <2>1 DEF End, TypeOK, ObjectAt
  <2>2. CASE StartSend(p)
    <3>1. PICK a \in Att \ drawn : /\ pc'[p] = "create" /\ call'[p].att = a
                                   /\ UNCHANGED <<object, arriving>>
      BY <1>0, <2>2 DEF StartSend, TypeOK, service
    <3>2. object[a] = None /\ NotArriving(a)
      BY DEF IInv, Fresh
    <3> QED
      BY <3>1, <3>2 DEF ObjectAt, NotArriving
  <2>3. CASE \/ StartDownload(p) \/ RegisterDocument(p) \/ Find(p) \/ GetDownloadTicket(p)
             \/ Get(p) \/ OpenFile(p)
    <3>1. pc'[p] \in Downloads
      BY <1>0, <2>3 DEF StartDownload, RegisterDocument, Find, GetDownloadTicket, Get,
         OpenFile, TypeOK, Downloads
    <3> QED
      BY <3>1 DEF ObjectAt, Downloads
  <2>4. CASE CreateSlot(p)
    <3>1. /\ pc[p] = "create" /\ pc'[p] = "put" /\ call' = call
          /\ Slot(call[p].att, call[p].me) /\ UNCHANGED arriving
      BY <1>0, <2>4 DEF CreateSlot, TypeOK
    <3>2. call[p].att \in Att /\ NotArriving(call[p].att)
      BY <1>0, <3>1 DEF PhaseAt, Sends, ObjectAt
    <3>3. object'[call[p].att] = [by |-> call[p].me, bytes |-> None, committed |-> FALSE]
      BY <1>0, <3>1, <3>2 DEF TypeOK, Slot
    <3>4. object'[call[p].att] # None
      <4>1. call[p].me \in Local
        BY <1>0, <3>1 DEF PhaseAt
      <4>2. object'[call[p].att] \in Object
        BY <3>3, <4>1 DEF Object
      <4> QED
        BY <4>2, NoneIsNoRecord
    <3> QED
      BY <3>1, <3>2, <3>3, <3>4 DEF ObjectAt, Holds, NotArriving
  <2>5. CASE Put(p)
    <3>1. /\ pc[p] = "put" /\ pc'[p] = "upload" /\ call' = call /\ UNCHANGED object
          /\ arriving' = arriving \cup {[att |-> call[p].att, content |-> call[p].content]}
      BY <1>0, <2>5 DEF Put, TypeOK
    <3> QED
      BY <1>0, <3>1 DEF ObjectAt, Holds, NotArriving
  <2>6. CASE Commit(p)
    <3>1. /\ pc[p] = "commit" /\ pc'[p] = "register" /\ call' = call
          /\ Committed(call[p].att) /\ UNCHANGED arriving
      BY <1>0, <2>6 DEF Commit, TypeOK
    <3>2. call[p].att \in Att /\ NotArriving(call[p].att)
          /\ Holds(call[p].att, call[p].content, FALSE)
      BY <1>0, <3>1 DEF PhaseAt, Sends, ObjectAt
    <3>3. object[call[p].att] \in Object
      BY <1>0, <3>2 DEF TypeOK, Holds
    <3>4. object'[call[p].att] = [object[call[p].att] EXCEPT !.committed = TRUE]
      BY <1>0, <3>1, <3>2 DEF TypeOK, Committed
    <3>5. object'[call[p].att].bytes = call[p].content /\ object'[call[p].att].committed = TRUE
          /\ object'[call[p].att] \in Object
      BY <3>2, <3>3, <3>4 DEF Object, Holds
    <3>6. object'[call[p].att] # None
      BY <3>5, NoneIsNoRecord
    <3> QED
      BY <3>1, <3>2, <3>5, <3>6 DEF ObjectAt, Holds, NotArriving
  <2>7. CASE Register(p)
    BY <1>0, <2>7 DEF Register, TypeOK, ObjectAt, Holds, NotArriving
  <2>8. CASE UploadFails(p)
    BY <1>0, <2>8 DEF UploadFails, UploadFailsThen, TypeOK, ObjectAt
  <2> QED
    BY <2>1, <2>2, <2>3, <2>4, <2>5, <2>6, <2>7, <2>8
       DEF ProcStep, Abort, SendManifest, WriteFile, Refused, Fail, AnswerLost, Crash
<1> QED
  BY <1>1, <1>2 DEF Objects

(* Every step keeps undrawn ids unused.                                  *)
LEMMA FreshStep ==
  ASSUME IInv, NEW p \in Proc, ProcStep(p)
  PROVE  Fresh'
<1>1. drawn \subseteq drawn' /\ Fresh
  BY IdsStep DEF IInv
<1>2. call[p].op = "send" => call[p].att \in drawn /\ call[p].msg \in drawn
  BY DEF IInv, Ids, IdAt
<1>3. ASSUME NEW a \in Att, a \notin drawn'
      PROVE  object'[a] = None /\ \A u \in arriving' : u.att # a
  <2>1. object[a] = None /\ NotArriving(a) /\ (call[p].op = "send" => call[p].att # a)
    BY <1>1, <1>2, <1>3 DEF Fresh
  <2> QED
    BY <2>1, OwnObjectOnly
<1>4. ASSUME NEW m \in Msg, m \notin drawn'
      PROVE  wire'[m] = None
  <2>1. Posts(p) => call[p].op = "send"
    BY DEF Posts, IInv, Phases, PhaseAt, Sends
  <2> QED
    BY <1>1, <1>2, <1>4, <2>1, WireStep DEF Fresh
<1> QED
  BY <1>3, <1>4 DEF Fresh, NotArriving

(* Every step keeps the object of a manifest that is out as it is.       *)
LEMMA BackedStep ==
  ASSUME IInv, NEW p \in Proc, ProcStep(p)
  PROVE  Backed'
<1>0. TypeOK /\ Backed /\ Ids
  BY DEF IInv
<1>1. SUFFICES ASSUME NEW m \in Msg, Mine(m)'
               PROVE  BackedBy(wire[m])'
  BY DEF Backed
<1>2. drawn \subseteq drawn'
  BY IdsStep
<1>3. CASE wire'[m] = wire[m]
  <2> DEFINE w == wire[m]
  <2>1. HasManifest(m) /\ Mine(m)
    BY <1>1, <1>3 DEF Mine, HasManifest
  <2>2. BackedBy(w) /\ w \in Manifest
    BY <1>0, <2>1 DEF Backed, TypeOK, HasManifest
  <2>3. /\ w.att \in Att /\ w.att \in drawn /\ NotArriving(w.att)
        /\ Holds(w.att, w.digest, TRUE) /\ w.size = SizeOf[w.digest]
        /\ \A q \in Proc : call[q].op = "send" => call[q].att # w.att
    BY <2>2 DEF BackedBy, Manifest
  <2>4. object'[w.att] = object[w.att] /\ \A u \in arriving' : u.att # w.att
    BY <2>3, OwnObjectOnly
  <2>5. ASSUME NEW q \in Proc, call'[q].op = "send"
        PROVE  call'[q].att # w.att
    <3>1. CASE q = p
      BY <2>3, <2>5, <3>1, SendStep
    <3>2. CASE q # p
      BY <1>0, <2>3, <2>5, <3>2, OthersKeep
    <3> QED
      BY <3>1, <3>2
  <2>6. /\ object'[w.att] # None
        /\ object'[w.att].bytes = w.digest /\ object'[w.att].committed = TRUE
    BY <2>3, <2>4 DEF Holds
  <2> QED
    BY <1>2, <1>3, <2>3, <2>4, <2>5, <2>6 DEF BackedBy, NotArriving, Holds
<1>4. CASE wire'[m] # wire[m]
  <2>1. Posts(p) /\ m = call[p].msg /\ wire'[m] = ManifestOf(p)
    BY <1>4, WireStep
  <2>2. pc[p] = "send" /\ call'[p] = NoCall /\ UNCHANGED <<object, arriving, drawn>>
    BY <2>1 DEF Posts
  <2>3. /\ call[p].op = "send" /\ call[p].att \in drawn
        /\ Holds(call[p].att, call[p].content, TRUE) /\ NotArriving(call[p].att)
    BY <2>2 DEF IInv, Phases, PhaseAt, Objects, ObjectAt, Ids, IdAt, Sends
  <2>4. ASSUME NEW q \in Proc, call'[q].op = "send"
        PROVE  call'[q].att # call[p].att
    <3>1. q # p
      BY <2>2, <2>4 DEF NoCall
    <3>2. call'[q] = call[q]
      BY <1>0, <3>1, OthersKeep
    <3> QED
      BY <1>0, <2>3, <2>4, <3>1, <3>2 DEF Ids, IdAt
  <2>5. /\ wire'[m].att = call[p].att /\ wire'[m].digest = call[p].content
        /\ wire'[m].size = SizeOf[call[p].content]
    BY <2>1, <2>2, ManifestType
  <2>6. /\ \A u \in arriving' : u.att # call[p].att
        /\ object'[call[p].att] # None /\ object'[call[p].att].bytes = call[p].content
        /\ object'[call[p].att].committed = TRUE
    BY <2>2, <2>3 DEF NotArriving, Holds
  <2> QED
    BY <2>2, <2>3, <2>4, <2>5, <2>6 DEF BackedBy, NotArriving, Holds
<1> QED
  BY <1>3, <1>4

(* What is left of a process's step: documents, tickets, files, failures.   *)
LEMMA RestStep ==
  ASSUME IInv, NEW p \in Proc, ProcStep(p)
  PROVE  /\ faulty' \in Scenario /\ known' \subseteq Local \cup {Peer} /\ ticket' \subseteq Att
         /\ drawn' \subseteq Att \cup Msg /\ faults' \in 0..MaxFaults
<1>0. TypeOK /\ PhaseAt(p)
  BY DEF IInv, Phases
<1>1. faulty' = faulty
  BY DEF ProcStep, StartSend, StartDownload, CreateSlot, Put, Abort, Commit, Register,
     SendManifest, RegisterDocument, Find, GetDownloadTicket, Get, OpenFile, WriteFile,
     Refused, Fail, UploadFails, UploadFailsThen, AnswerLost, Crash
<1>2. known' \subseteq known \cup {call[p].me}
      /\ (known' # known => pc[p] \in {"register", "announce"})
  BY DEF ProcStep, StartSend, StartDownload, CreateSlot, Put, Abort, Commit, Register,
     SendManifest, RegisterDocument, Find, GetDownloadTicket, Get, OpenFile, WriteFile,
     Refused, Fail, UploadFails, UploadFailsThen, AnswerLost, Crash, Go, Goto, service
<1>3. ticket' \subseteq ticket \cup {wire[call[p].msg].att}
      /\ (ticket' # ticket => pc[p] = "ticket")
  BY DEF ProcStep, StartSend, StartDownload, CreateSlot, Put, Abort, Commit, Register,
     SendManifest, RegisterDocument, Find, GetDownloadTicket, Get, OpenFile, WriteFile,
     Refused, Fail, UploadFails, UploadFailsThen, AnswerLost, Crash, Go, Goto, service
<1>4. drawn' \subseteq Att \cup Msg
  BY <1>0
     DEF ProcStep, StartSend, StartDownload, CreateSlot, Put, Abort, Commit, Register,
     SendManifest, RegisterDocument, Find, GetDownloadTicket, Get, OpenFile, WriteFile,
     Refused, Fail, UploadFails, UploadFailsThen, AnswerLost, Crash, TypeOK
<1>5. \/ faults' = faults
      \/ faults < MaxFaults /\ faults' = faults + 1
  BY DEF ProcStep, StartSend, StartDownload, CreateSlot, Put, Abort, Commit, Register,
     SendManifest, RegisterDocument, Find, GetDownloadTicket, Get, OpenFile, WriteFile,
     Refused, Fail, UploadFails, UploadFailsThen, AnswerLost, Crash, Fault
<1>6. pc[p] \in {"register", "announce"} => call[p].me \in Local
  BY <1>0 DEF PhaseAt
<1>7. pc[p] = "ticket" => wire[call[p].msg].att \in Att
  BY <1>0 DEF PhaseAt, HasManifest, TypeOK, Manifest, Downloads
<1>8. faults' \in 0..MaxFaults
  BY <1>0, <1>5, AttachmentAssumption DEF TypeOK
<1> QED
  BY <1>0, <1>1, <1>2, <1>3, <1>4, <1>6, <1>7, <1>8 DEF TypeOK

(* What is written over a file: the new bytes, then what is left of it.  *)
LEMMA OverIs ==
  ASSUME NEW S, NEW old \in Seq(S), NEW c \in S, NEW k \in Nat
  PROVE  /\ Over(Bytes(c, k), old) \in Seq(S)
         /\ Len(Over(Bytes(c, k), old)) = IF Len(old) < k THEN k ELSE Len(old)
         /\ \A i \in 1..Len(Over(Bytes(c, k), old)) :
              Over(Bytes(c, k), old)[i] = IF i <= k THEN c ELSE old[i]
<1> DEFINE rest == SubSeq(old, k + 1, Len(old))
<1>1. Bytes(c, k) \in Seq(S) /\ Len(Bytes(c, k)) = k /\ \A i \in 1..k : Bytes(c, k)[i] = c
  BY DEF Bytes
<1>2. Len(old) \in Nat /\ \A i \in (k + 1)..Len(old) : old[i] \in S
  BY ElementOfSeq, LenProperties
<1>3. /\ rest \in Seq(S) /\ Len(rest) = IF k + 1 <= Len(old) THEN Len(old) - k ELSE 0
      /\ \A i \in 1..Len(old) - k : rest[i] = old[k + i]
  BY <1>2, SubSeqProperties
<1> DEFINE b == Bytes(c, k)
<1>4. Over(b, old) = b \o rest
  BY <1>1 DEF Over
<1> HIDE DEF rest, b
<1>5. b \in Seq(S) /\ rest \in Seq(S) /\ Len(b) = k
  BY <1>1, <1>3 DEF b
<1>6. /\ b \o rest \in Seq(S)
      /\ Len(b \o rest) = Len(b) + Len(rest)
      /\ \A i \in 1..Len(b) + Len(rest) :
           (b \o rest)[i] = IF i <= Len(b) THEN b[i] ELSE rest[i - Len(b)]
  BY <1>5, ConcatProperties
<1>7. /\ Over(b, old) \in Seq(S) /\ Len(Over(b, old)) = k + Len(rest)
      /\ \A i \in 1..k + Len(rest) : Over(b, old)[i] = IF i <= k THEN c ELSE rest[i - k]
  BY <1>1, <1>4, <1>5, <1>6 DEF b
<1>8. Len(rest) \in Nat /\ k + Len(rest) = IF Len(old) < k THEN k ELSE Len(old)
  BY <1>2, <1>3
<1>9. \A i \in 1..k + Len(rest) : ~(i <= k) => rest[i - k] = old[i]
  BY <1>2, <1>3, <1>8
<1> QED
  BY <1>7, <1>8, <1>9 DEF b

(* How a process comes to have a message's file in hand (attachment.go   *)
(* 149-209).                                                             *)
InHand(p) == pc[p] \in {"ticket", "get", "open", "write"}

LEMMA InHandStep ==
  ASSUME IInv, NEW p \in Proc, ProcStep(p), InHand(p)'
  PROVE  /\ call'[p].msg = call[p].msg /\ call[p].msg \in Msg
         /\ wire' = wire /\ HasManifest(call[p].msg)
         /\ InHand(p) \/ Shown(call[p].msg)
         /\ pc'[p] = "write" => OpenFile(p)
<1>0. TypeOK /\ PhaseAt(p)
  BY DEF IInv, Phases
<1> USE <1>0 DEF InHand, Go, Goto, TypeOK
<1>1. CASE Find(p) \/ GetDownloadTicket(p) \/ OpenFile(p)
  BY <1>1 DEF Find, GetDownloadTicket, OpenFile, PhaseAt, Downloads, service
<1>2. CASE Get(p)
  <2>1. call[p] \in Call
    OBVIOUS
  <2>2. call'[p].msg = call[p].msg
    BY <1>2, <2>1 DEF Get, Call
  <2> QED
    BY <1>2, <2>2 DEF Get, PhaseAt, Downloads, service
<1>3. ~End(p)
  BY DEF End
<1>4. /\ ~StartSend(p) /\ ~StartDownload(p) /\ ~CreateSlot(p) /\ ~Put(p) /\ ~Commit(p)
      /\ ~Register(p) /\ ~RegisterDocument(p) /\ ~UploadFails(p)
  BY DEF StartSend, StartDownload, CreateSlot, Put, Commit, Register, RegisterDocument,
     UploadFails, UploadFailsThen
<1> QED
  BY <1>1, <1>2, <1>3, <1>4
     DEF ProcStep, Abort, SendManifest, WriteFile, Refused, Fail, AnswerLost, Crash

(* A file that is being written was opened, and stays.                   *)
LEMMA OpenedStep ==
  ASSUME IInv, NEW p \in Proc, ProcStep(p),
         \A n \in Name : file[n] # None => file'[n] # None,
         OpenFile(p) => file'[wire[call[p].msg].name] # None
  PROVE  \A q \in Proc : OpenedAt(q)'
<1> SUFFICES ASSUME NEW q \in Proc, pc'[q] = "write"
             PROVE  file'[wire'[call'[q].msg].name] # None
  BY DEF OpenedAt
<1>1. CASE q = p
  <2>1. OpenFile(p) /\ call'[p].msg = call[p].msg /\ wire' = wire
    BY <1>1, InHandStep DEF InHand
  <2> QED
    BY <1>1, <2>1
<1>2. CASE q # p
  <2>1. pc[q] = "write" /\ call'[q] = call[q]
    BY <1>2, OthersKeep DEF IInv
  <2>2. PICK m \in Msg : m = call[q].msg /\ HasManifest(m)
    BY <2>1 DEF IInv, Phases, PhaseAt, Downloads
  <2>3. wire'[m] = wire[m] /\ wire[m].name \in Name
    BY <2>2, WireStep DEF IInv, TypeOK, HasManifest, Manifest
  <2>4. file[wire[m].name] # None
    BY <2>1, <2>2 DEF IInv, Files, OpenedAt
  <2> QED
    BY <2>1, <2>2, <2>3, <2>4
<1> QED
  BY <1>1, <1>2

(* A file changes only as its download opens it or writes some bytes.    *)
WritesSome(p) ==
  /\ pc[p] = "write"
  /\ UNCHANGED service
  /\ \E k \in 0..SizeOf[call[p].content] : Wrote(p, k)

LEMMA FileCases ==
  ASSUME IInv, NEW p \in Proc, ProcStep(p)
  PROVE  UNCHANGED file \/ OpenFile(p) \/ WritesSome(p)
<1>1. CASE Fail(p) \/ Crash(p)
  BY <1>1 DEF Fail, Crash, LeftAt, WritesSome
<1>2. CASE WriteFile(p)
  <2>1. call[p].content \in Content
    BY <1>2 DEF WriteFile, IInv, Phases, PhaseAt
  <2>2. SizeOf[call[p].content] \in 0..SizeOf[call[p].content]
    BY <2>1, AttachmentAssumption
  <2> QED
    BY <1>2, <2>2 DEF WriteFile, WritesSome
<1> QED
  BY <1>1, <1>2 DEF ProcStep, StartSend, StartDownload, CreateSlot, Put, Abort, Commit,
     Register, SendManifest, RegisterDocument, Find, GetDownloadTicket, Get,
     Refused, UploadFails, UploadFailsThen, AnswerLost

(* The file then has a prefix of its message's content where bytes were  *)
(* written, and elsewhere what it had.                                   *)
LEMMA FileEffect ==
  ASSUME IInv, NEW p \in Proc, OpenFile(p) \/ WritesSome(p)
  PROVE  \E m \in Msg, k \in Nat :
           LET n == wire[m].name IN
           /\ m = call[p].msg /\ HasManifest(m) /\ n \in Name /\ k <= wire[m].size
           /\ file'[n] \in Seq(Content) /\ UNCHANGED service
           /\ \A i \in 1..Len(file'[n]) :
                file'[n][i] = IF i <= k THEN wire[m].digest ELSE file[n][i]
           /\ file[n] = None => Len(file'[n]) = 0
           /\ \A i \in 1..Len(file'[n]) : i <= k \/ i \in 1..Len(file[n])
           /\ file' = [file EXCEPT ![n] = file'[n]]
<1>0. TypeOK /\ PhaseAt(p) /\ OpenedAt(p)
  BY DEF IInv, Phases, Files
<1>1. PICK m \in Msg : m = call[p].msg /\ HasManifest(m)
  BY <1>0 DEF OpenFile, WritesSome, Go, Goto, PhaseAt, Downloads
<1>2. wire[m].name \in Name /\ wire[m].size \in Nat
  BY <1>0, <1>1, AttachmentAssumption DEF TypeOK, HasManifest, Manifest, Size
<1>3. CASE OpenFile(p)
  <2>1. file' = [file EXCEPT ![wire[m].name] = <<>>] /\ UNCHANGED service
    BY <1>1, <1>3 DEF OpenFile
  <2>2. file'[wire[m].name] = <<>>
    BY <1>0, <1>2, <2>1 DEF TypeOK
  <2>3. <<>> \in Seq(Content) /\ Len(<<>>) = 0
    BY EmptySeq
  <2> DEFINE n == wire[m].name
  <2>4. file' = [file EXCEPT ![n] = file'[n]]
    BY <2>1, <2>2
  <2>5. /\ file'[n] \in Seq(Content) /\ Len(file'[n]) = 0
        /\ \A i \in 1..Len(file'[n]) : FALSE
    BY <2>2, <2>3
  <2> HIDE DEF n
  <2>6. n \in Name /\ 0 <= wire[m].size /\ UNCHANGED service
    BY <1>2, <2>1 DEF n
  <2> WITNESS m \in Msg, 0 \in Nat
  <2> QED
    BY <1>1, <2>4, <2>5, <2>6 DEF n
<1>4. CASE WritesSome(p)
  <2>1. PICK c \in Content : c = call[p].content /\ Checked(m, c)
    BY <1>0, <1>1, <1>4 DEF WritesSome, PhaseAt
  <2>2. PICK k \in 0..SizeOf[c] : Wrote(p, k)
    BY <1>4, <2>1 DEF WritesSome
  <2>3. k \in Nat /\ k <= wire[m].size /\ c = wire[m].digest
    BY <2>1, AttachmentAssumption DEF Checked
  <2> DEFINE old == file[wire[m].name]
  <2>4. old \in Seq(Content) /\ old # None
    BY <1>0, <1>1, <1>2, <1>4 DEF OpenedAt, TypeOK, WritesSome
  <2>5. file' = [file EXCEPT ![wire[m].name] = Over(Bytes(c, k), old)]
        /\ file'[wire[m].name] = Over(Bytes(c, k), old)
    BY <1>0, <1>1, <1>2, <2>1, <2>2 DEF Wrote, TypeOK
  <2>6. /\ file'[wire[m].name] \in Seq(Content)
        /\ Len(file'[wire[m].name]) = IF Len(old) < k THEN k ELSE Len(old)
        /\ \A i \in 1..Len(file'[wire[m].name]) :
             file'[wire[m].name][i] = IF i <= k THEN c ELSE old[i]
    BY <2>3, <2>4, <2>5, OverIs
  <2>7. Len(old) \in Nat
    BY <2>4, LenProperties
  <2>8. \A i \in 1..Len(file'[wire[m].name]) : i <= k \/ i \in 1..Len(old)
    BY <2>3, <2>6, <2>7
  <2>9. UNCHANGED service
    BY <1>4 DEF WritesSome
  <2> WITNESS m \in Msg, k \in Nat
  <2> QED
    BY <1>1, <1>2, <2>3, <2>4, <2>5, <2>6, <2>8, <2>9
<1> QED
  BY <1>3, <1>4

(* What was told of once is told of.                                     *)
LEMMA StillVouched ==
  ASSUME \A m \in Msg : HasManifest(m) => HasManifest(m)' /\ wire'[m] = wire[m],
         \A n \in Name : file'[n] # None =>
           \A i \in 1..Len(file'[n]) : \E m \in Msg : TellsOfByte(m, n, file'[n][i], i)
  PROVE  Vouched'
<1> SUFFICES ASSUME NEW n \in Name, file'[n] # None, NEW i \in 1..Len(file'[n])
             PROVE  \E m \in Msg : /\ HasManifest(m)' /\ wire'[m].name = n
                                   /\ file'[n][i] = wire'[m].digest /\ i <= wire'[m].size
  BY DEF Vouched, TellsOfByte
<1>1. PICK m \in Msg : TellsOfByte(m, n, file'[n][i], i)
  OBVIOUS
<1> QED
  BY <1>1 DEF TellsOfByte

(* No byte gets into a file that no message tells of.                    *)
LEMMA FileStep ==
  ASSUME IInv, NEW p \in Proc, ProcStep(p)
  PROVE  file' \in [Name -> Seq(Content) \cup {None}] /\ Files'
<1>0. TypeOK /\ Phases /\ Files
  BY DEF IInv
<1>1. \A m \in Msg : HasManifest(m) => HasManifest(m)' /\ wire'[m] = wire[m]
  BY WireStep DEF HasManifest
<1>2. CASE UNCHANGED file
  <2>1. \A n \in Name : file'[n] # None =>
          \A i \in 1..Len(file'[n]) : \E m \in Msg : TellsOfByte(m, n, file'[n][i], i)
    BY <1>0, <1>2 DEF Files, Vouched
  <2>2. Vouched'
    BY <1>1, <2>1, StillVouched
  <2>3. file' \in [Name -> Seq(Content) \cup {None}]
        /\ \A n \in Name : file[n] # None => file'[n] # None
    BY <1>0, <1>2 DEF TypeOK
  <2>4. OpenFile(p) => file'[wire[call[p].msg].name] # None
    <3>1. ASSUME OpenFile(p)
          PROVE  file'[wire[call[p].msg].name] # None
      <4>1. PICK m \in Msg : m = call[p].msg /\ wire[m].name \in Name
                             /\ file'[wire[m].name] \in Seq(Content)
        BY <3>1, FileEffect
      <4> QED
        BY <4>1, NoneIsNoRecord
    <3> QED
      BY <3>1
  <2>5. \A q \in Proc : OpenedAt(q)'
    BY <2>3, <2>4, OpenedStep
  <2> QED
    BY <2>2, <2>3, <2>5 DEF Files
<1>3. CASE OpenFile(p) \/ WritesSome(p)
  <2>1. PICK m \in Msg, k \in Nat :
          LET n == wire[m].name IN
          /\ m = call[p].msg /\ HasManifest(m) /\ n \in Name /\ k <= wire[m].size
          /\ file'[n] \in Seq(Content) /\ UNCHANGED service
          /\ \A i \in 1..Len(file'[n]) :
               file'[n][i] = IF i <= k THEN wire[m].digest ELSE file[n][i]
          /\ file[n] = None => Len(file'[n]) = 0
          /\ \A i \in 1..Len(file'[n]) : i <= k \/ i \in 1..Len(file[n])
          /\ file' = [file EXCEPT ![n] = file'[n]]
    BY <1>3, FileEffect
  <2> DEFINE n == wire[m].name
  <2>2. /\ file' \in [Name -> Seq(Content) \cup {None}]
        /\ \A l \in Name : l # n => file'[l] = file[l]
    BY <1>0, <2>1 DEF TypeOK
  <2>3. file'[n] # None
    BY <2>1, NoneIsNoRecord
  <2>4. wire' = wire /\ wire[m].size \in Nat
    BY <1>0, <2>1, AttachmentAssumption DEF service, TypeOK, HasManifest, Manifest, Size
  <2>5. ASSUME NEW i \in 1..Len(file'[n])
        PROVE  \E j \in Msg : TellsOfByte(j, n, file'[n][i], i)
    <3>1. Len(file'[n]) \in Nat
      BY <2>1, LenProperties
    <3>2. CASE i <= k
      <4>1. TellsOfByte(m, n, file'[n][i], i)
        BY <2>1, <2>4, <3>1, <3>2 DEF TellsOfByte
      <4> QED
        BY <4>1
    <3>3. CASE ~(i <= k)
      <4>1. file'[n][i] = file[n][i] /\ file[n] # None /\ i \in 1..Len(file[n])
        BY <2>1, <3>1, <3>3
      <4> QED
        BY <1>0, <2>1, <4>1 DEF Files, Vouched
    <3> QED
      BY <3>2, <3>3
  <2>6. ASSUME NEW l \in Name, file'[l] # None, NEW i \in 1..Len(file'[l])
        PROVE  \E j \in Msg : TellsOfByte(j, l, file'[l][i], i)
    <3>1. CASE l = n
      BY <2>5, <3>1
    <3>2. CASE l # n
      BY <1>0, <2>2, <2>6, <3>2 DEF Files, Vouched
    <3> QED
      BY <3>1, <3>2
  <2>7. Vouched'
    BY <1>1, <2>6, StillVouched
  <2>8. \A l \in Name : file[l] # None => file'[l] # None
    BY <2>2, <2>3
  <2>9. file'[wire[call[p].msg].name] # None
    BY <2>1, <2>3
  <2>10. \A q \in Proc : OpenedAt(q)'
    BY <2>8, <2>9, OpenedStep
  <2> QED
    BY <2>2, <2>7, <2>10 DEF Files
<1> QED
  BY <1>2, <1>3, FileCases

(* A process's step keeps the invariant.                                 *)
LEMMA ProcStepIInv ==
  ASSUME IInv, NEW p \in Proc, ProcStep(p)
  PROVE  IInv'
<1>1. TypeOK'
  BY PhaseStep, WireStep, ObjectStep, RestStep, FileStep DEF TypeOK, Accepteds
<1> QED
  BY <1>1, PhaseStep, IdsStep, ObjectsStep, FreshStep, BackedStep, FileStep DEF IInv

(* The bytes of a PUT get there, whoever waits for it.                      *)
LEMMA UploadedStep ==
  ASSUME IInv, NEW u \in arriving, Uploaded(u)
  PROVE  IInv'
<1> DEFINE waiting == {p \in Proc : pc[p] = "upload" /\ call[p].att = u.att}
<1>0. TypeOK /\ Phases /\ Ids /\ Objects /\ Fresh /\ Backed /\ Files
  BY DEF IInv
<1>1. u.att \in Att /\ u.content \in Content
  BY <1>0 DEF TypeOK
<1>2. /\ UNCHANGED <<faulty, known, ticket, wire, inbox, file, drawn, call, faults>>
      /\ arriving' = arriving \ {u}
      /\ pc' = [p \in Proc |-> IF p \in waiting THEN "commit" ELSE pc[p]]
  BY DEF Uploaded
<1>3. /\ object' \in [Att -> Object \cup {None}]
      /\ \A a \in Att : a # u.att => object'[a] = object[a]
      /\ object[u.att] = None => object'[u.att] = None
      /\ object[u.att] # None => /\ object'[u.att] # None
                                 /\ object'[u.att].bytes = u.content
                                 /\ object'[u.att].committed = object[u.att].committed
  <2>1. CASE object[u.att] = None
    BY <1>0, <2>1 DEF Uploaded, TypeOK
  <2>2. CASE object[u.att] # None
    <3>1. object[u.att] \in Object
      BY <1>0, <1>1, <2>2 DEF TypeOK
    <3>2. /\ [object[u.att] EXCEPT !.bytes = u.content] \in Object
          /\ [object[u.att] EXCEPT !.bytes = u.content].bytes = u.content
          /\ [object[u.att] EXCEPT !.bytes = u.content].committed = object[u.att].committed
      BY <1>1, <3>1 DEF Object
    <3>3. object' = [object EXCEPT ![u.att] = [object[u.att] EXCEPT !.bytes = u.content]]
      BY <2>2 DEF Uploaded
    <3>4. object'[u.att] = [object[u.att] EXCEPT !.bytes = u.content]
      BY <1>0, <1>1, <3>3 DEF TypeOK
    <3> QED
      BY <1>0, <1>1, <3>2, <3>3, <3>4, NoneIsNoRecord, <2>2 DEF TypeOK
  <2> QED
    BY <2>1, <2>2
<1>4. ASSUME NEW p \in Proc, call[p].op = "send", call[p].att = u.att
      PROVE  /\ pc[p] \in {"upload", "abort"}
             /\ pc'[p] \in {"commit", "abort"}
             /\ pc'[p] = "commit" => pc[p] = "upload" /\ u.content = call[p].content
  <2>1. pc[p] \in Sends /\ ObjectAt(p)
    BY <1>0, <1>4 DEF Phases, PhaseAt, Objects
  <2>2. pc[p] \notin {"create", "put", "commit", "register", "send"}
    BY <1>4, <2>1 DEF ObjectAt, NotArriving
  <2>3. pc[p] \in {"upload", "abort"}
    BY <2>1, <2>2 DEF Sends
  <2>4. pc[p] = "upload" => u.content = call[p].content
    BY <1>4, <2>1 DEF ObjectAt
  <2> QED
    BY <1>2, <1>4, <2>3, <2>4
<1>5. ASSUME NEW p \in Proc, ~(call[p].op = "send" /\ call[p].att = u.att)
      PROVE  pc'[p] = pc[p]
  <2>1. pc[p] = "upload" => call[p].op = "send"
    BY <1>0 DEF Phases, PhaseAt, Sends
  <2> QED
    BY <1>2, <1>5, <2>1
<1> HIDE DEF waiting
<1>6. pc' \in [Proc -> Step \cup {"idle"}]
  BY <1>0, <1>2 DEF TypeOK, Step
<1>7. TypeOK'
  BY <1>0, <1>2, <1>3, <1>6 DEF TypeOK
<1>8. Phases'
  <2> SUFFICES ASSUME NEW p \in Proc PROVE PhaseAt(p)'
    BY DEF Phases
  <2>1. PhaseAt(p)
    BY <1>0 DEF Phases
  <2>2. pc'[p] = pc[p] \/ (pc[p] \in Sends /\ pc'[p] \in Sends)
    BY <1>4, <1>5 DEF Sends
  <2> QED
    BY <1>2, <2>1, <2>2 DEF PhaseAt, HasManifest, Checked, Sends, Downloads
<1>9. Ids'
  BY <1>0, <1>2 DEF Ids, IdAt
<1>10. Objects'
  <2> SUFFICES ASSUME NEW p \in Proc PROVE ObjectAt(p)'
    BY DEF Objects
  <2>1. ObjectAt(p) /\ PhaseAt(p)
    BY <1>0 DEF Objects, Phases
  <2>2. CASE call[p].op = "send" /\ call[p].att = u.att
    <3>1. CASE pc'[p] = "abort"
      BY <3>1 DEF ObjectAt
    <3>2. CASE pc'[p] = "commit"
      <4>1. pc[p] = "upload" /\ u.content = call[p].content
        BY <1>4, <2>2, <3>2
      <4>2. Holds(u.att, None, FALSE) /\ \A v \in arriving : v.att = u.att => v.content = u.content
        BY <2>1, <2>2, <4>1 DEF ObjectAt
      <4>3. \A v \in arriving' : v.att # u.att
        BY <1>0, <1>2, <4>2 DEF TypeOK
      <4> QED
        BY <1>2, <1>3, <2>2, <3>2, <4>1, <4>2, <4>3 DEF ObjectAt, Holds, NotArriving
    <3> QED
      BY <1>4, <2>2, <3>1, <3>2
  <2>3. CASE call[p].op = "send" /\ call[p].att # u.att
    <3>1. call[p].att \in Att /\ pc'[p] = pc[p] /\ call'[p] = call[p]
          /\ arriving' \subseteq arriving
      BY <1>2, <1>5, <2>1, <2>3 DEF PhaseAt
    <3> QED
      BY <1>3, <2>1, <2>3, <3>1 DEF ObjectAt, Holds, NotArriving
  <2>4. CASE call[p].op # "send"
    <3>1. pc'[p] \notin Sends
      BY <1>5, <2>1, <2>4 DEF PhaseAt
    <3> QED
      BY <3>1 DEF ObjectAt, Sends
  <2> QED
    BY <2>2, <2>3, <2>4
<1>11. Fresh'
  BY <1>0, <1>2, <1>3 DEF Fresh, NotArriving
<1>12. Backed'
  <2> SUFFICES ASSUME NEW m \in Msg, Mine(m)' PROVE BackedBy(wire[m])'
    BY DEF Backed
  <2>1. Mine(m) /\ wire[m] \in Manifest
    BY <1>0, <1>2 DEF Mine, HasManifest, TypeOK
  <2>2. BackedBy(wire[m]) /\ wire[m].att \in Att /\ wire[m].att # u.att
    BY <1>0, <2>1 DEF Backed, Manifest, BackedBy, NotArriving
  <2>3. object'[wire[m].att] = object[wire[m].att]
    BY <1>3, <2>2
  <2> QED
    BY <1>2, <2>2, <2>3 DEF BackedBy, NotArriving, Holds
<1>13. Files'
  BY <1>0, <1>2 DEF Files, Vouched, OpenedAt, TellsOfByte, HasManifest, TypeOK
<1> QED
  BY <1>7, <1>8, <1>9, <1>10, <1>11, <1>12, <1>13 DEF IInv

(* A peer's message, and its object, have ids that nobody has drawn.     *)
LEMMA PeerMessage ==
  ASSUME TypeOK, PeerSends
  PROVE  \E m \in Msg, w \in Manifest \cup {Text} :
           /\ m \notin drawn /\ m \in drawn' /\ Posted(m, w)
           /\ w # Text => w.from = Peer /\ w.att \notin drawn /\ w.att \in drawn'
           /\ drawn \subseteq drawn' /\ drawn' \subseteq Att \cup Msg
           /\ object' \in [Att -> Object \cup {None}]
           /\ \A a \in Att : object'[a] # object[a] => a \notin drawn /\ a \in drawn'
<1>1. PICK m \in Msg \ drawn :
        \/ Posted(m, Text) /\ drawn' = drawn \cup {m} /\ UNCHANGED object
        \/ \E a \in Att \ drawn, b, d \in Content, done \in BOOLEAN :
             /\ Posted(m, [from |-> Peer, att |-> a, digest |-> d,
                           size |-> SizeOf[d], name |-> NameOf[d]])
             /\ object' = [object EXCEPT ![a] =
                             [by |-> Peer, bytes |-> b, committed |-> done]]
             /\ drawn' = drawn \cup {m, a}
  BY DEF PeerSends
<1>2. CASE Posted(m, Text) /\ drawn' = drawn \cup {m} /\ UNCHANGED object
  BY <1>2 DEF TypeOK
<1>3. CASE \E a \in Att \ drawn, b, d \in Content, done \in BOOLEAN :
             /\ Posted(m, [from |-> Peer, att |-> a, digest |-> d,
                           size |-> SizeOf[d], name |-> NameOf[d]])
             /\ object' = [object EXCEPT ![a] =
                             [by |-> Peer, bytes |-> b, committed |-> done]]
             /\ drawn' = drawn \cup {m, a}
  <2>1. PICK a \in Att \ drawn, b \in Content, d \in Content, done \in BOOLEAN :
             /\ Posted(m, [from |-> Peer, att |-> a, digest |-> d,
                           size |-> SizeOf[d], name |-> NameOf[d]])
             /\ object' = [object EXCEPT ![a] =
                             [by |-> Peer, bytes |-> b, committed |-> done]]
             /\ drawn' = drawn \cup {m, a}
    BY <1>3
  <2> DEFINE w == [from |-> Peer, att |-> a, digest |-> d,
                   size |-> SizeOf[d], name |-> NameOf[d]]
             o == [by |-> Peer, bytes |-> b, committed |-> done]
  <2>2. w \in Manifest /\ w.from = Peer /\ w.att = a
    BY AttachmentAssumption DEF Manifest, Size
  <2>3. o \in Object
    BY DEF Object
  <2>4. object' = [object EXCEPT ![a] = o] /\ Posted(m, w)
    BY <2>1
  <2> HIDE DEF w, o
  <2>5. object' \in [Att -> Object \cup {None}]
        /\ \A k \in Att : k # a => object'[k] = object[k]
    BY <2>3, <2>4 DEF TypeOK
  <2> QED
    BY <2>1, <2>2, <2>4, <2>5 DEF TypeOK
<1> QED
  BY <1>1, <1>2, <1>3

(* A peer's message uses ids of its own.                                    *)
LEMMA PeerStep ==
  ASSUME IInv, PeerSends
  PROVE  IInv'
<1>0. TypeOK /\ Phases /\ Ids /\ Objects /\ Fresh /\ Backed /\ Files
  BY DEF IInv
<1>1. PICK m \in Msg, w \in Manifest \cup {Text} :
        /\ m \notin drawn /\ m \in drawn' /\ Posted(m, w)
        /\ w # Text => w.from = Peer
        /\ drawn \subseteq drawn' /\ drawn' \subseteq Att \cup Msg
        /\ object' \in [Att -> Object \cup {None}]
        /\ \A a \in Att : object'[a] # object[a] => a \notin drawn /\ a \in drawn'
  BY <1>0, PeerMessage
<1>2. UNCHANGED <<faulty, arriving, ticket, file, pc, call, faults>>
      /\ known' = known \cup {Peer}
  BY DEF PeerSends
<1>3. /\ wire' \in [Msg -> Manifest \cup {None, Text}]
      /\ wire'[m] = w /\ w # None
      /\ \A k \in Msg : k # m => wire'[k] = wire[k]
      /\ inbox' \in Seq(Accepteds')
  BY <1>0, <1>1, PostedEffect
<1>4. wire[m] = None
  BY <1>0, <1>1 DEF Fresh
<1>5. \A k \in Msg : HasManifest(k) => HasManifest(k)' /\ wire'[k] = wire[k]
  BY <1>3, <1>4 DEF HasManifest
<1>6. TypeOK'
  BY <1>0, <1>1, <1>2, <1>3 DEF TypeOK, Accepteds
<1>7. Phases'
  BY <1>0, <1>2, <1>3, <1>4, PhaseStays DEF Phases
<1>8. Ids'
  BY <1>0, <1>1, <1>2, <1>3 DEF Ids, IdAt, Phases, PhaseAt
<1>9. \A p \in Proc : call[p].op = "send" => object'[call[p].att] = object[call[p].att]
  BY <1>0, <1>1 DEF Ids, IdAt, Phases, PhaseAt
<1>10. Objects'
  <2> SUFFICES ASSUME NEW p \in Proc PROVE ObjectAt(p)'
    BY DEF Objects
  <2>1. ObjectAt(p) /\ (pc[p] \in Sends => call[p].op = "send")
    BY <1>0 DEF Objects, Phases, PhaseAt
  <2> QED
    BY <1>2, <1>9, <2>1 DEF ObjectAt, Holds, NotArriving, Sends
<1>11. Fresh'
  BY <1>0, <1>1, <1>2, <1>3 DEF Fresh, NotArriving
<1>12. Backed'
  <2> SUFFICES ASSUME NEW k \in Msg, Mine(k)' PROVE BackedBy(wire[k])'
    BY DEF Backed
  <2>1. k # m
    BY <1>1, <1>3, AttachmentAssumption DEF Mine, HasManifest
  <2>2. wire'[k] = wire[k] /\ Mine(k) /\ wire[k] \in Manifest
    BY <1>0, <1>3, <2>1 DEF Mine, HasManifest, TypeOK
  <2>3. BackedBy(wire[k]) /\ wire[k].att \in Att /\ wire[k].att \in drawn
    BY <1>0, <2>2 DEF Backed, Manifest, BackedBy
  <2>4. object'[wire[k].att] = object[wire[k].att]
    BY <1>1, <2>3
  <2> QED
    BY <1>1, <1>2, <2>2, <2>3, <2>4 DEF BackedBy, NotArriving, Holds
<1>13. Files'
  <2>1. \A n \in Name : file'[n] # None =>
          \A i \in 1..Len(file'[n]) : \E k \in Msg : TellsOfByte(k, n, file'[n][i], i)
    BY <1>0, <1>2 DEF Files, Vouched
  <2>2. Vouched'
    BY <1>5, <2>1, StillVouched
  <2>3. ASSUME NEW q \in Proc, pc[q] = "write"
        PROVE  file[wire'[call[q].msg].name] # None
    <3>1. call[q].msg \in Msg /\ HasManifest(call[q].msg)
      BY <1>0, <2>3 DEF Phases, PhaseAt, Downloads
    <3> QED
      BY <1>0, <1>5, <2>3, <3>1 DEF Files, OpenedAt
  <2> QED
    BY <1>2, <2>2, <2>3 DEF Files, OpenedAt
<1> QED
  BY <1>6, <1>7, <1>8, <1>10, <1>11, <1>12, <1>13 DEF IInv

(* The invariant holds at first.                                         *)
LEMMA InitIInv ==
  ASSUME Init
  PROVE  IInv
<1>1. TypeOK
  BY EmptySeq, AttachmentAssumption, NoCallType DEF Init, TypeOK
<1>2. \A p \in Proc : pc[p] = "idle" /\ call[p].op = "none" /\ call[p].att = None
  BY DEF Init, NoCall
<1>3. Phases /\ Ids /\ Objects
  BY <1>2 DEF Phases, PhaseAt, Ids, IdAt, Objects, ObjectAt, Sends, Downloads
<1>4. Fresh /\ Backed /\ Files
  BY <1>2 DEF Init, Fresh, NotArriving, Backed, Mine, HasManifest, Files, Vouched, OpenedAt
<1> QED
  BY <1>1, <1>3, <1>4 DEF IInv

(* The invariant holds of every state.                                   *)
THEOREM InductiveInvariant == Spec => []IInv
<1>1. Init => IInv
  BY InitIInv
<1>2. IInv /\ [Next]_vars => IInv'
  <2> SUFFICES ASSUME IInv, [Next]_vars PROVE IInv'
    OBVIOUS
  <2>1. CASE Next
    BY <2>1, NextCases, ProcStepIInv, UploadedStep, PeerStep
  <2>2. CASE UNCHANGED vars
    BY <2>2 DEF vars, service, IInv, TypeOK, Phases, PhaseAt, Ids, IdAt, Objects, ObjectAt,
       Holds, NotArriving, Fresh, Backed, BackedBy, Mine, Files, Vouched, OpenedAt, TellsOfByte,
       HasManifest, Checked
  <2> QED
    BY <2>1, <2>2
<1> QED
  BY <1>1, <1>2, PTL DEF Spec

(* The types, for any processes, attachments and contents.               *)
THEOREM TypeCorrect == Spec => []TypeOK
<1>1. IInv => TypeOK
  BY DEF IInv
<1> QED
  BY <1>1, InductiveInvariant, PTL

(* attachment.go 74-122: a manifest that this client has sent names a    *)
(* committed object with just those bytes, whatever fails, whoever dies, *)
(* and however late a PUT arrives at the object service.                 *)
THEOREM ManifestsAreNeverHollow == Spec => []ManifestsBacked
<1>1. IInv => ManifestsBacked
  BY DEF IInv, Backed, BackedBy, Mine, Holds, Served, ManifestsBacked
<1> QED
  BY <1>1, InductiveInvariant, PTL

(* attachment.go 192-209, service.go 225-250: no byte gets into a file   *)
(* unverified: each is, at its place, one of the content of a manifest   *)
(* with that file name, whatever peers claim and connections do, whoever *)
(* dies while it writes and however many write one file at once.         *)
THEOREM DownloadsAreAuthentic == Spec => []Authentic
<1>1. IInv => Authentic
  BY DEF IInv, Files, Vouched, TellsOfByte, Authentic
<1> QED
  BY <1>1, InductiveInvariant, PTL

(* If only uploads fail, every object of this client belongs to a send that *)
(* is under way, or is committed and told of.                               *)
ToldOf(a) == \E m \in Msg : HasManifest(m) /\ wire[m].att = a
Owned ==
  UploadsOnly =>
    \A a \in Att : object[a] # None /\ object[a].by \in Local =>
      \/ \E p \in Proc : call[p].op = "send" /\ call[p].att = a
      \/ object[a].committed /\ ToldOf(a)

(* Every step keeps objects owned or told of.                            *)
LEMMA OwnedStep ==
  ASSUME IInv, Owned, Next
  PROVE  Owned'
<1>0. TypeOK /\ Phases /\ Ids /\ Objects /\ Fresh
  BY DEF IInv
<1>1. faulty' = faulty
  BY DEF Next, PeerSends, Arrival, Uploaded, Proceed, Break, StartSend, StartDownload,
     CreateSlot, Put, Abort, Commit, Register, SendManifest, RegisterDocument, Find,
     GetDownloadTicket, Get, OpenFile, WriteFile, Refused, Fail, UploadFails,
     UploadFailsThen, AnswerLost, Crash
<1>2. SUFFICES ASSUME UploadsOnly, UploadsOnly', NEW a \in Att, object'[a] # None,
                      object'[a].by \in Local
               PROVE  \/ \E q \in Proc : call'[q].op = "send" /\ call'[q].att = a
                      \/ object'[a].committed /\ ToldOf(a)'
  BY <1>1 DEF Owned, UploadsOnly
<1>3. CASE PeerSends
  <2>1. call' = call
    BY <1>3 DEF PeerSends
  <2>2. object'[a] = object[a]
    <3>1. \/ UNCHANGED object
          \/ \E b \in Att, c \in Content, done \in BOOLEAN :
               object' = [object EXCEPT ![b] = [by |-> Peer, bytes |-> c, committed |-> done]]
      BY <1>3 DEF PeerSends
    <3> QED
      BY <1>0, <1>2, <3>1, AttachmentAssumption DEF TypeOK
  <2>3. ToldOf(a) => ToldOf(a)'
    <3>1. \A m \in Msg : wire[m] # None => wire'[m] = wire[m]
      <4>1. PICK m \in Msg : m \notin drawn /\ \E w : wire' = [wire EXCEPT ![m] = w]
        BY <1>3 DEF PeerSends, Posted
      <4> QED
        BY <1>0, <4>1 DEF TypeOK, Fresh
    <3> QED
      BY <3>1 DEF ToldOf, HasManifest
  <2> QED
    BY <1>2, <2>1, <2>2, <2>3 DEF Owned
<1>4. ASSUME NEW u \in arriving, Uploaded(u)
      PROVE  \/ \E q \in Proc : call'[q].op = "send" /\ call'[q].att = a
             \/ object'[a].committed /\ ToldOf(a)'
  <2>1. UNCHANGED <<call, wire>>
    BY <1>4 DEF Uploaded
  <2>2. /\ object[a] # None /\ object'[a].by = object[a].by
        /\ object'[a].committed = object[a].committed
    <3>1. CASE object[u.att] = None
      BY <1>2, <1>4, <3>1 DEF Uploaded
    <3>2. CASE object[u.att] # None
      <4>1. object' = [object EXCEPT ![u.att] = [object[u.att] EXCEPT !.bytes = u.content]]
        BY <1>4, <3>2 DEF Uploaded
      <4>2. u.att \in Att /\ u.content \in Content /\ object[u.att] \in Object
        BY <1>0, <3>2 DEF TypeOK
      <4>3. /\ [object[u.att] EXCEPT !.bytes = u.content].by = object[u.att].by
            /\ [object[u.att] EXCEPT !.bytes = u.content].committed = object[u.att].committed
        BY <4>2 DEF Object
      <4> QED
        BY <1>0, <1>2, <3>2, <4>1, <4>2, <4>3 DEF TypeOK
    <3> QED
      BY <3>1, <3>2
  <2>3. ToldOf(a)' = ToldOf(a)
    BY <2>1 DEF ToldOf, HasManifest
  <2> QED
    BY <1>2, <2>1, <2>2, <2>3 DEF Owned
<1>5. ASSUME NEW p \in Proc, ProcStep(p)
      PROVE  \/ \E q \in Proc : call'[q].op = "send" /\ call'[q].att = a
             \/ object'[a].committed /\ ToldOf(a)'
  <2>0. PhaseAt(p) /\ ObjectAt(p)
    BY <1>0 DEF Phases, Objects
  <2>1. ToldOf(a) => ToldOf(a)'
    BY <1>5, WireStep DEF ToldOf, HasManifest
  <2>2. CASE \E q \in Proc \ {p} : call[q].op = "send" /\ call[q].att = a
    BY <1>0, <1>5, <2>2, OthersKeep
  <2>3. CASE ~(call[p].op = "send" /\ call[p].att = a)
    <3>1. object'[a] = object[a]
      BY <1>5, <2>3, OwnObjectOnly
    <3> QED
      BY <1>2, <2>1, <2>2, <2>3, <3>1 DEF Owned
  <2>4. CASE call[p].op = "send" /\ call[p].att = a
    <3>1. pc[p] \in Sends
      BY <2>0, <2>4 DEF PhaseAt
    <3>2. CASE Abort(p)
      BY <1>0, <1>2, <2>4, <3>2 DEF Abort, TypeOK
    <3>3. CASE SendManifest(p)
      <4>1. pc[p] = "send" /\ Posted(call[p].msg, ManifestOf(p)) /\ object' = object
        BY <3>3 DEF SendManifest
      <4>2. Holds(a, call[p].content, TRUE)
        BY <2>0, <2>4, <4>1 DEF ObjectAt
      <4>3. call[p].msg \in Msg /\ ManifestOf(p) \in Manifest /\ ManifestOf(p).att = a
        BY <2>4, <4>1, ManifestType
      <4>4. wire'[call[p].msg] = ManifestOf(p)
        BY <1>0, <4>1, <4>3 DEF Posted, TypeOK
      <4> QED
        BY <4>1, <4>2, <4>3, <4>4, NoneIsNoRecord DEF Holds, ToldOf, HasManifest
    <3>4. CASE Refused(p)
      <4>1. pc[p] = "create"
        BY <3>1, <3>4 DEF Refused, Sends
      <4> QED
        BY <1>2, <2>0, <2>4, <3>4, <4>1 DEF ObjectAt, Refused, service
    <3>5. ~Fail(p) /\ ~AnswerLost(p) /\ ~Crash(p)
      <4>1. ~Fault("idle") /\ (Fault(pc[p]) => pc[p] \in {"put", "upload"})
        BY <1>2 DEF Fault, UploadsOnly
      <4> QED
        BY <4>1 DEF Fail, AnswerLost, Crash
    <3>6. CASE \/ CreateSlot(p) \/ Put(p) \/ Commit(p) \/ Register(p) \/ UploadFails(p)
      BY <2>4, <3>6 DEF CreateSlot, Put, Commit, Register, UploadFails, UploadFailsThen, Go
    <3>7. ~StartSend(p) /\ ~StartDownload(p) /\ ~RegisterDocument(p) /\ ~Find(p)
          /\ ~GetDownloadTicket(p) /\ ~Get(p) /\ ~OpenFile(p) /\ ~WriteFile(p)
      BY <3>1 DEF StartSend, StartDownload, RegisterDocument, Find, GetDownloadTicket, Get,
         OpenFile, WriteFile, Go, Goto, Sends
    <3> QED
      BY <1>5, <3>2, <3>3, <3>4, <3>5, <3>6, <3>7 DEF ProcStep
  <2> QED
    BY <2>3, <2>4
<1> QED
  BY <1>3, <1>4, <1>5, NextCases

(* attachment.go 91-95: if nothing but uploads fails, every object of a  *)
(* client at rest is committed and told of: the abort of a failed upload *)
(* leaves nothing, and none takes an object that is in use.              *)
THEOREM NoSlotIsLeftBehind == Spec => []SlotsSettled
<1>1. Init => Owned
  BY DEF Init, Owned
<1>2. IInv /\ Owned /\ [Next]_vars => Owned'
  <2> SUFFICES ASSUME IInv, Owned, [Next]_vars PROVE Owned'
    OBVIOUS
  <2>1. CASE UNCHANGED vars
    BY <2>1 DEF vars, service, Owned, ToldOf, HasManifest, UploadsOnly
  <2> QED
    BY <2>1, OwnedStep
<1>3. Owned => SlotsSettled
  BY DEF Owned, ToldOf, SlotsSettled
<1> QED
  BY <1>1, <1>2, <1>3, InductiveInvariant, PTL DEF Spec

(* attachment.go 134-217, service.go 163-250: if nothing but uploads     *)
(* fails, a download of what this client has sent does not end before    *)
(* the file begins with the bytes, and is no longer if nobody else has   *)
(* written to it.                                                        *)
THEOREM WhatWasSentCanBeFetched == Spec => DownloadsSucceed
<1> DEFINE A(p) ==
      LET m == call[p].msg
          n == wire[m].name IN
      /\ call[p].op = "download" /\ pc[p] # "announce" /\ pc'[p] = "idle"
      /\ Mine(m) /\ Shown(m)
      => /\ file'[n] # None
         /\ Len(file'[n]) >= wire[m].size
         /\ \A i \in 1..wire[m].size : file'[n][i] = wire[m].digest
         /\ file[n] = <<>> => Len(file'[n]) = wire[m].size
<1>1. ASSUME IInv, Next, UploadsOnly, NEW p \in Proc
      PROVE  A(p)
  <2> DEFINE m == call[p].msg
             n == wire[m].name
  <2>0. TypeOK /\ PhaseAt(p)
    BY <1>1 DEF IInv, Phases
  <2>1. SUFFICES ASSUME call[p].op = "download", pc[p] # "announce", pc'[p] = "idle",
                        Mine(m), Shown(m)
                 PROVE  /\ file'[n] # None
                        /\ Len(file'[n]) >= wire[m].size
                        /\ \A i \in 1..wire[m].size : file'[n][i] = wire[m].digest
                        /\ file[n] = <<>> => Len(file'[n]) = wire[m].size
    OBVIOUS
  <2>2. pc[p] \in {"find", "ticket", "get", "open", "write"} /\ m \in Msg
    BY <2>0, <2>1 DEF PhaseAt, Downloads
  <2>3. ~PeerSends
    BY <2>1, <2>2 DEF PeerSends
  <2>4. ~\E u \in arriving : Uploaded(u)
    BY <2>0, <2>1, <2>2 DEF Uploaded, TypeOK
  <2>5. ProcStep(p)
    BY <1>1, <2>0, <2>1, <2>2, <2>3, <2>4, NextCases, OthersKeep
  <2>6. /\ HasManifest(m) /\ wire[m] \in Manifest /\ wire[m].att \in Att
        /\ Served(wire[m].att) /\ object[wire[m].att].bytes = wire[m].digest
        /\ wire[m].size = SizeOf[wire[m].digest]
    BY <1>1, <2>0, <2>1, <2>2
       DEF IInv, Backed, BackedBy, Holds, Served, Mine, HasManifest, TypeOK, Manifest
  <2>7. ~Refused(p)
    BY <2>1, <2>2, <2>6 DEF Refused, Checked
  <2>8. ~Fail(p) /\ ~AnswerLost(p) /\ ~Crash(p) /\ ~UploadFails(p)
    <3>1. ~Fault("idle") /\ (Fault(pc[p]) => pc[p] \in {"put", "upload"})
      BY <1>1 DEF Fault, UploadsOnly
    <3> QED
      BY <2>2, <3>1 DEF Fail, AnswerLost, Crash, UploadFails, UploadFailsThen
  <2>9. ~StartSend(p) /\ ~StartDownload(p) /\ ~CreateSlot(p) /\ ~Put(p) /\ ~Abort(p)
        /\ ~Commit(p) /\ ~Register(p) /\ ~SendManifest(p) /\ ~RegisterDocument(p)
    BY <2>2 DEF StartSend, StartDownload, CreateSlot, Put, Abort, Commit, Register,
       SendManifest, RegisterDocument, Go, Goto
  <2>10. ~Find(p) /\ ~GetDownloadTicket(p) /\ ~Get(p) /\ ~OpenFile(p)
    BY <2>0, <2>1 DEF Find, GetDownloadTicket, Get, OpenFile, Go, Goto, TypeOK
  <2>11. WriteFile(p)
    BY <2>5, <2>7, <2>8, <2>9, <2>10 DEF ProcStep
  <2>12. pc[p] = "write" /\ Wrote(p, SizeOf[call[p].content])
    BY <2>11 DEF WriteFile
  <2>13. call[p].content = wire[m].digest
    BY <2>0, <2>12 DEF PhaseAt, Checked
  <2>14. n \in Name /\ wire[m].digest \in Content /\ wire[m].size \in Nat
    BY <2>6, AttachmentAssumption DEF Manifest
  <2>15. file[n] \in Seq(Content)
    BY <1>1, <2>0, <2>12, <2>14 DEF IInv, Files, OpenedAt, TypeOK
  <2>16. file'[n] = Over(Bytes(wire[m].digest, wire[m].size), file[n])
    BY <2>0, <2>6, <2>12, <2>13, <2>14 DEF Wrote, TypeOK
  <2> HIDE DEF m, n
  <2>17. /\ file'[n] \in Seq(Content)
         /\ Len(file'[n]) = IF Len(file[n]) < wire[m].size THEN wire[m].size ELSE Len(file[n])
         /\ \A i \in 1..Len(file'[n]) :
              file'[n][i] = IF i <= wire[m].size THEN wire[m].digest ELSE file[n][i]
    BY <2>14, <2>15, <2>16, OverIs
  <2>18. Len(file[n]) \in Nat /\ (file[n] = <<>> => Len(file[n]) = 0)
    BY <2>15, LenProperties
  <2> QED
    BY <2>14, <2>17, <2>18, NoneIsNoRecord
<1>3. IInv /\ [Next]_vars => [UploadsOnly => \A p \in Proc : A(p)]_vars
  BY <1>1
<1> QED
  BY <1>3, InductiveInvariant, PTL DEF Spec, DownloadsSucceed
(* What Parcels needs beside IInv: nobody's new object has the id that a   *)
(* message tells of, and a download is of a message that the inbox shows.  *)
ApartAt(m) ==
  /\ wire[m].att \in drawn
  /\ \A p \in Proc : call[p].op = "send" => call[p].att # wire[m].att
Apart == \A m \in Msg : HasManifest(m) => ApartAt(m)
TakenAt(p) == InHand(p) => Shown(call[p].msg)
ParcelInv == Apart /\ \A p \in Proc : TakenAt(p)

(* What an inbox shows: the first Limit of it.                           *)
LEMMA ShownIs ==
  ASSUME NEW S, NEW s \in Seq(S), NEW m
  PROVE  (\E i \in DOMAIN Oldest(s, Limit) : s[i] = m)
           <=> \E i \in 1..Len(s) : i <= Limit /\ s[i] = m
<1> DEFINE l == IF Len(s) < Limit THEN Len(s) ELSE Limit
<1>1. Len(s) \in Nat /\ Limit \in Nat
  BY AttachmentAssumption, LenProperties
<1>2. l \in 0..Len(s) /\ \A i \in 1..l : s[i] \in S
  BY <1>1, ElementOfSeq
<1>3. SubSeq(s, 1, l) \in Seq(S) /\ Len(SubSeq(s, 1, l)) = l
  BY <1>1, <1>2, SubSeqProperties
<1>4. DOMAIN Oldest(s, Limit) = 1..l
  BY <1>3, LenProperties DEF Oldest
<1>5. \A i : i \in 1..l <=> i \in 1..Len(s) /\ i <= Limit
  BY <1>1
<1> QED
  BY <1>4, <1>5

(* A step on the messages: none, or one that was not there comes last.   *)
LEMMA MessageStep ==
  ASSUME IInv, Next
  PROVE  \/ UNCHANGED <<wire, inbox>>
         \/ \E m \in Msg, w \in Manifest \cup {Text} : wire[m] = None /\ Posted(m, w)
<1>1. ASSUME PeerSends
      PROVE  \E m \in Msg, w \in Manifest \cup {Text} : wire[m] = None /\ Posted(m, w)
  BY <1>1, PeerMessage DEF IInv, Fresh
<1>2. ASSUME NEW p \in Proc, ProcStep(p)
      PROVE  \/ UNCHANGED <<wire, inbox>>
             \/ \E m \in Msg, w \in Manifest \cup {Text} : wire[m] = None /\ Posted(m, w)
  BY <1>2, WireStep, ManifestType DEF Posts
<1>3. ASSUME NEW u \in arriving, Uploaded(u)
      PROVE  UNCHANGED <<wire, inbox>>
  BY <1>3 DEF Uploaded
<1> QED
  BY <1>1, <1>2, <1>3, NextCases

(* What the inbox has shown it goes on showing, and what a message tells *)
(* of stays.                                                             *)
LEMMA ShownStays ==
  ASSUME IInv, IInv', Next, NEW m, Shown(m)
  PROVE  Shown(m)'
<1>0. inbox \in Seq(Accepteds) /\ inbox' \in Seq(Accepteds')
  BY DEF IInv, TypeOK, Accepteds
<1>1. PICK i \in 1..Len(inbox) : i <= Limit /\ inbox[i] = m
  BY <1>0, ShownIs DEF Shown
<1>2. i \in 1..Len(inbox') /\ inbox'[i] = m
  <2>1. CASE inbox' = inbox
    BY <1>1, <2>1
  <2>2. ASSUME NEW k \in Msg, NEW w, Posted(k, w)
        PROVE  i \in 1..Len(inbox') /\ inbox'[i] = m
    <3>1. inbox \in Seq(Msg) /\ inbox' = Append(inbox, k)
      <4>1. Accepteds \subseteq Msg
        BY DEF Accepteds
      <4> QED
        BY <1>0, <2>2, <4>1, SeqMonotonic DEF Posted
    <3>2. Len(inbox) \in Nat /\ Len(inbox') = Len(inbox) + 1 /\ inbox'[i] = inbox[i]
      BY <1>1, <3>1, AppendProperties, LenProperties
    <3> QED
      BY <1>1, <3>2
  <2> QED
    BY <2>1, <2>2, MessageStep
<1>3. \E j \in 1..Len(inbox') : j <= Limit /\ inbox'[j] = m
  BY <1>1, <1>2
<1> QED
  BY <1>0, <1>3, ShownIs DEF Shown

(* Every step keeps what Parcels needs.                                  *)
LEMMA ApartStep ==
  ASSUME IInv, Apart, Next, NEW m \in Msg, HasManifest(m)'
  PROVE  ApartAt(m)'
<1>0. TypeOK /\ Ids
  BY DEF IInv
<1>1. CASE PeerSends
  <2>1. PICK k \in Msg, w \in Manifest \cup {Text} :
          /\ k \notin drawn /\ Posted(k, w) /\ drawn \subseteq drawn'
          /\ w # Text => w.att \notin drawn /\ w.att \in drawn'
    BY <1>0, <1>1, PeerMessage
  <2>2. call' = call /\ \A p \in Proc : call[p].op = "send" => call[p].att \in drawn
    BY <1>0, <1>1 DEF PeerSends, Ids, IdAt
  <2>3. CASE m = k
    <3>1. wire'[m] = w /\ w # Text
      BY <1>0, <2>1, <2>3, PostedEffect DEF HasManifest
    <3> QED
      BY <2>1, <2>2, <3>1 DEF ApartAt
  <2>4. CASE m # k
    <3>1. wire'[m] = wire[m]
      BY <1>0, <2>1, <2>4, PostedEffect
    <3> QED
      BY <2>1, <2>2, <3>1 DEF Apart, ApartAt, HasManifest
  <2> QED
    BY <2>3, <2>4
<1>2. CASE \E u \in arriving : Uploaded(u)
  <2>1. UNCHANGED <<wire, call, drawn>>
    BY <1>2 DEF Uploaded
  <2> QED
    BY <2>1 DEF Apart, ApartAt, HasManifest
<1>3. ASSUME NEW p \in Proc, ProcStep(p)
      PROVE  ApartAt(m)'
  <2>1. drawn \subseteq drawn'
    BY <1>3, IdsStep
  <2>2. ASSUME wire'[m] = wire[m], NEW q \in Proc, call'[q].op = "send"
        PROVE  call'[q].att # wire[m].att
    <3>1. ApartAt(m)
      BY <2>2 DEF Apart, HasManifest
    <3>2. CASE q = p
      BY <1>3, <2>2, <3>1, <3>2, SendStep DEF ApartAt
    <3>3. CASE q # p
      BY <1>0, <1>3, <2>2, <3>1, <3>3, OthersKeep DEF ApartAt
    <3> QED
      BY <3>2, <3>3
  <2>3. CASE wire'[m] = wire[m]
    BY <2>1, <2>2, <2>3 DEF Apart, ApartAt, HasManifest
  <2>4. CASE wire'[m] # wire[m]
    <3>1. Posts(p) /\ m = call[p].msg /\ wire'[m] = ManifestOf(p)
      BY <1>3, <2>4, WireStep
    <3>2. pc[p] = "send" /\ call'[p] = NoCall /\ wire'[m].att = call[p].att
      BY <3>1, ManifestType DEF Posts
    <3>3. call[p].op = "send" /\ call[p].att \in drawn
      BY <3>2 DEF IInv, Phases, PhaseAt, Sends, Ids, IdAt
    <3>4. ASSUME NEW q \in Proc, call'[q].op = "send"
          PROVE  call'[q].att # call[p].att
      <4>1. q # p
        BY <3>2, <3>4 DEF NoCall
      <4>2. call'[q] = call[q]
        BY <1>0, <1>3, <4>1, OthersKeep
      <4> QED
        BY <1>0, <3>3, <3>4, <4>1, <4>2 DEF Ids, IdAt
    <3> QED
      BY <2>1, <3>2, <3>3, <3>4 DEF ApartAt
  <2> QED
    BY <2>3, <2>4
<1> QED
  BY <1>1, <1>2, <1>3, NextCases

(* What a download has in hand stays shown.                              *)
LEMMA TakenStep ==
  ASSUME IInv, IInv', Next, NEW q \in Proc, TakenAt(q)
  PROVE  TakenAt(q)'
<1>0. TypeOK /\ PhaseAt(q)
  BY DEF IInv, Phases
<1>1. ASSUME pc'[q] = pc[q], call'[q] = call[q]
      PROVE  TakenAt(q)'
  <2>1. SUFFICES ASSUME InHand(q)
                 PROVE  TakenAt(q)'
    BY <1>1 DEF TakenAt, InHand
  <2>2. PICK m \in Msg : m = call[q].msg /\ HasManifest(m)
    BY <1>0, <2>1 DEF InHand, PhaseAt, Downloads
  <2>3. Shown(m)'
    BY <2>1, <2>2, ShownStays DEF TakenAt
  <2>6. call'[q].msg = m
    BY <1>1, <2>2
  <2> QED
    BY <1>1, <2>3, <2>6 DEF TakenAt, Shown
<1>2. CASE PeerSends
  BY <1>1, <1>2 DEF PeerSends
<1>3. ASSUME NEW u \in arriving, Uploaded(u)
      PROVE  TakenAt(q)'
  <2>1. call' = call /\ (pc'[q] = pc[q] \/ pc'[q] = "commit")
    BY <1>0, <1>3 DEF Uploaded
  <2> QED
    BY <1>1, <2>1 DEF TakenAt, InHand
<1>4. ASSUME NEW p \in Proc, ProcStep(p)
      PROVE  TakenAt(q)'
  <2>1. CASE q # p
    BY <1>0, <1>1, <1>4, <2>1, OthersKeep
  <2>2. CASE q = p
    <3> SUFFICES ASSUME InHand(q)'
                 PROVE  TakenAt(q)'
      BY DEF TakenAt, InHand
    <3>1. /\ call'[q].msg = call[q].msg /\ call[q].msg \in Msg
          /\ wire' = wire /\ HasManifest(call[q].msg)
          /\ InHand(q) \/ Shown(call[q].msg)
          /\ pc'[q] = "write" => OpenFile(q)
      BY <1>4, <2>2, InHandStep
    <3>2. PICK m \in Msg : m = call[q].msg /\ Shown(m)
      BY <3>1 DEF TakenAt
    <3>3. Shown(m)'
      BY <3>2, ShownStays
    <3> QED
      BY <3>1, <3>2, <3>3 DEF TakenAt, Shown
  <2> QED
    BY <2>1, <2>2
<1> QED
  BY <1>2, <1>3, <1>4, NextCases

(* The bytes posted with a message of ours are those it tells of, before *)
(* a step and after.                                                     *)
LEMMA StoredIs ==
  ASSUME IInv, IInv'
  PROVE  /\ Stored = [m \in Msg |-> IF Mine(m) THEN wire[m].digest ELSE None]
         /\ Stored' = [m \in Msg |-> IF Mine(m)' THEN wire'[m].digest ELSE None]
BY DEF IInv, Backed, BackedBy, Holds, Served, Stored

(* A message of ours goes out with its file, anybody else's as it is.    *)
LEMMA PostRefines ==
  ASSUME IInv, IInv', NEW m \in Msg, NEW w \in Manifest \cup {Text}, wire[m] = None,
         Posted(m, w), UNCHANGED file,
         w # Text /\ w.from \in Local =>
           /\ w.size = SizeOf[w.digest]
           /\ \A k \in Msg : HasManifest(k) => wire[k].att # w.att
  PROVE  Parcel!Post(m)
<1>1. /\ wire'[m] = w /\ w # None
      /\ \A k \in Msg : k # m => wire'[k] = wire[k]
      /\ wire' = [wire EXCEPT ![m] = w] /\ inbox' = Append(inbox, m)
  BY PostedEffect DEF IInv, Posted
<1>2. /\ Stored = [k \in Msg |-> IF Mine(k) THEN wire[k].digest ELSE None]
      /\ Stored' = [k \in Msg |-> IF Mine(k)' THEN wire'[k].digest ELSE None]
  BY StoredIs
<1>3. \A k \in Msg : k # m => Stored'[k] = Stored[k]
  BY <1>1, <1>2 DEF Mine, HasManifest
<1>4. Stored[m] = None /\ Stored'[m] = IF w # Text /\ w.from \in Local THEN w.digest ELSE None
  BY <1>1, <1>2 DEF Mine, HasManifest
<1>5. CASE w # Text /\ w.from \in Local
  <2>1. Stored' = [Stored EXCEPT ![m] = w.digest]
    BY <1>2, <1>3, <1>4, <1>5
  <2>2. \A k \in Msg : Parcel!Tells(k) => wire[k].att # w.att
    BY <1>5 DEF Parcel!Tells, HasManifest
  <2>3. Parcel!Own(m, w)
    BY <1>5, <2>1, <2>2 DEF Parcel!Own
  <2> QED
    BY <1>1, <2>3 DEF Parcel!Post
<1>6. CASE ~(w # Text /\ w.from \in Local)
  <2>1. Stored' = Stored
    BY <1>2, <1>3, <1>4, <1>6
  <2>2. Parcel!Foreign(w)
    BY <1>6, <2>1 DEF Parcel!Foreign
  <2> QED
    BY <1>1, <2>2 DEF Parcel!Post
<1> QED
  BY <1>5, <1>6

(* A download that opens or writes its file does so as Parcels says.     *)
LEMMA FileRefines ==
  ASSUME IInv, IInv', NEW p \in Proc, TakenAt(p), OpenFile(p) \/ WritesSome(p)
  PROVE  Parcel!Next
<1>0. TypeOK /\ PhaseAt(p) /\ OpenedAt(p)
  BY DEF IInv, Phases, Files
<1>1. PICK m \in Msg : m = call[p].msg /\ HasManifest(m)
  BY <1>0 DEF OpenFile, WritesSome, Go, Goto, PhaseAt, Downloads
<1>2. UNCHANGED <<wire, inbox>> /\ Stored' = Stored
  BY DEF OpenFile, WritesSome, service, Stored, Mine, HasManifest, Served
<1>3. CASE OpenFile(p)
  <2>1. file' = [file EXCEPT ![wire[m].name] = <<>>] /\ Shown(m)
    BY <1>1, <1>3 DEF OpenFile, Go, Goto, TakenAt, InHand
  <2>2. \E i \in 1..Len(inbox) : i <= Limit /\ inbox[i] = m
    <3>1. inbox \in Seq(Accepteds)
      BY <1>0 DEF TypeOK, Accepteds
    <3> QED
      BY <2>1, <3>1, ShownIs DEF Shown
  <2>3. Parcel!Put(m, <<>>)
    BY <1>1, <1>2, <2>1 DEF Parcel!Put, Parcel!Tells, HasManifest
  <2> QED
    BY <2>2, <2>3 DEF Parcel!Open, Parcel!Next
<1>4. CASE WritesSome(p)
  <2>1. PICK c \in Content : c = call[p].content /\ Checked(m, c)
    BY <1>0, <1>1, <1>4 DEF WritesSome, PhaseAt
  <2>2. c = wire[m].digest /\ SizeOf[c] = wire[m].size
    BY <2>1 DEF Checked
  <2>3. PICK k \in 0..wire[m].size : Wrote(p, k)
    BY <1>4, <2>1, <2>2 DEF WritesSome
  <2>4. k <= wire[m].size
    BY <2>1, <2>2, AttachmentAssumption
  <2>5. file' = [file EXCEPT ![wire[m].name] = Over(Bytes(c, k), file[wire[m].name])]
        /\ file[wire[m].name] # None
    BY <1>0, <1>1, <1>4, <2>1, <2>3 DEF Wrote, WritesSome, OpenedAt
  <2>6. Parcel!Tells(m)
    BY <1>1 DEF Parcel!Tells, HasManifest
  <2>7. Parcel!Put(m, Parcel!Over(Parcel!Bytes(wire[m].digest, k), file[wire[m].name]))
    BY <1>2, <2>2, <2>5, <2>6 DEF Parcel!Put, Parcel!Over, Parcel!Bytes, Over, Bytes
  <2>8. Parcel!Ours(m) => wire[m].digest = Stored[m]
    BY <1>1, StoredIs DEF Parcel!Ours, Parcel!Tells, Mine, HasManifest
  <2>9. Parcel!Write(m, k)
    BY <2>2, <2>4, <2>5, <2>7, <2>8 DEF Parcel!Write
  <2> QED
    BY <2>3, <2>6, <2>9 DEF Parcel!Next
<1> QED
  BY <1>3, <1>4

(* Everything else of a parcel is out of sight: slots, PUTs, commits,    *)
(* aborts and tickets.                                                   *)
LEMMA NothingElse ==
  ASSUME IInv, IInv', UNCHANGED <<wire, inbox, file>>
  PROVE  UNCHANGED <<wire, inbox, Stored, file>>
<1>1. /\ Stored = [k \in Msg |-> IF Mine(k) THEN wire[k].digest ELSE None]
      /\ Stored' = [k \in Msg |-> IF Mine(k)' THEN wire'[k].digest ELSE None]
  BY StoredIs
<1> QED
  BY <1>1 DEF Mine, HasManifest

(* All of this holds of every state.                                     *)
LEMMA ParcelAlways == Spec => []ParcelInv
<1>1. Init => ParcelInv
  BY DEF Init, ParcelInv, Apart, HasManifest, TakenAt, InHand
<1>2. IInv /\ IInv' /\ ParcelInv /\ [Next]_vars => ParcelInv'
  <2>1. ASSUME IInv, IInv', ParcelInv, Next
        PROVE  ParcelInv'
    BY <2>1, ApartStep, TakenStep DEF ParcelInv, Apart
  <2>2. ASSUME ParcelInv, UNCHANGED vars
        PROVE  ParcelInv'
    BY <2>2 DEF vars, service, ParcelInv, Apart, ApartAt, HasManifest, TakenAt, InHand, Shown
  <2> QED
    BY <2>1, <2>2
<1> QED
  BY <1>1, <1>2, InductiveInvariant, PTL DEF Spec

(* attachment.go 74-122, 134-217, service.go 40-250: every step, whatever *)
(* fails, is aborted or arrives late, is one of Parcels or shows nothing  *)
(* there: a file and the message that tells of it are posted at once,     *)
(* stay, and are taken as they were posted.                               *)
THEOREM ImplementsParcels == Spec => ParcelsSpec
<1>1. Init => Parcel!Init
  BY DEF Init, Parcel!Init, Stored, Mine, HasManifest
<1>2. IInv /\ IInv' /\ ParcelInv /\ [Next]_vars
        => [Parcel!Next]_<<wire, inbox, Stored, file>>
  <2>1. ASSUME IInv, IInv', UNCHANGED vars
        PROVE  UNCHANGED <<wire, inbox, Stored, file>>
    BY <2>1, NothingElse DEF vars, service
  <2> SUFFICES ASSUME IInv, IInv', ParcelInv, Next
               PROVE  [Parcel!Next]_<<wire, inbox, Stored, file>>
    BY <2>1
  <2>2. CASE PeerSends
    <3>1. PICK m \in Msg, w \in Manifest \cup {Text} :
            m \notin drawn /\ Posted(m, w) /\ (w # Text => w.from = Peer)
      BY <2>2, PeerMessage DEF IInv
    <3>2. wire[m] = None /\ UNCHANGED file /\ Peer \notin Local
      BY <2>2, <3>1, AttachmentAssumption DEF IInv, Fresh, PeerSends
    <3> QED
      BY <3>1, <3>2, PostRefines DEF Parcel!Next
  <2>3. ASSUME NEW u \in arriving, Uploaded(u)
        PROVE  UNCHANGED <<wire, inbox, Stored, file>>
    BY <2>3, NothingElse DEF Uploaded
  <2>4. ASSUME NEW p \in Proc, ProcStep(p)
        PROVE  [Parcel!Next]_<<wire, inbox, Stored, file>>
    <3>1. CASE Posts(p)
      <4>1. /\ ManifestOf(p) \in Manifest /\ call[p].msg \in Msg /\ wire[call[p].msg] = None
            /\ ManifestOf(p).att = call[p].att
            /\ ManifestOf(p).digest = call[p].content
            /\ ManifestOf(p).size = SizeOf[call[p].content]
            /\ call[p].op = "send"
        BY <3>1, ManifestType DEF Posts, IInv, Phases, PhaseAt, Sends
      <4>2. \A k \in Msg : HasManifest(k) => wire[k].att # ManifestOf(p).att
        BY <4>1 DEF ParcelInv, Apart, ApartAt
      <4>3. PICK m \in Msg, w \in Manifest \cup {Text} :
              m = call[p].msg /\ w = ManifestOf(p)
        BY <4>1
      <4> QED
        BY <3>1, <4>1, <4>2, <4>3, PostRefines DEF Posts, Parcel!Next
    <3>2. CASE OpenFile(p) \/ WritesSome(p)
      BY <3>2, FileRefines DEF ParcelInv
    <3>3. CASE UNCHANGED <<wire, inbox, file>>
      BY <3>3, NothingElse
    <3> QED
      BY <2>4, <3>1, <3>2, <3>3, WireStep, FileCases
  <2> QED
    BY <2>2, <2>3, <2>4, NextCases
<1> QED
  BY <1>1, <1>2, InductiveInvariant, ParcelAlways, PTL DEF Spec, ParcelsSpec, Parcel!Spec
=============================================================================
